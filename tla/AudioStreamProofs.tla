------------------------- MODULE AudioStreamProofs -------------------------
(***************************************************************************)
(* Theorems about AudioStream, for every remote, every payload, any number *)
(* of streams and frames, and every way notifications are lost, cut and    *)
(* overtake each other.                                                    *)
(***************************************************************************)
EXTENDS AudioStream, AdpcmProofs, SequenceTheorems

-----------------------------------------------------------------------------
(* Bytes.                                                                  *)

LEMMA WordsAre == \A x : x \in Words <=> x \in Int /\ 0 <= x /\ x <= 65535
  <1>1. MaxWord \in Int
    BY SMT DEF MaxWord
  <1>2. \A x : x \in Words <=> x \in Int /\ 0 <= x /\ x <= MaxWord
    BY <1>1, SMT DEF Words
  <1>3. MaxWord = 65535
    BY SMT DEF MaxWord
  <1> QED
    BY <1>2, <1>3, SMT

LEMMA SamplesAre == \A x : x \in Sample <=> x \in Int /\ -32768 <= x /\ x <= 32767
  <1>1. MinSample \in Int /\ MaxSample \in Int
    BY SMT DEF MinSample, MaxSample
  <1>2. \A x : x \in Sample <=> x \in Int /\ MinSample <= x /\ x <= MaxSample
    BY <1>1, SMT DEF Sample
  <1>3. MinSample = -32768 /\ MaxSample = 32767
    BY SMT DEF MinSample, MaxSample
  <1> QED
    BY <1>2, <1>3, SMT

LEMMA BytesAre == \A x : x \in Bytes <=> x \in Int /\ 0 <= x /\ x <= 255
  BY SMT DEF Bytes

LEMMA Wires ==
    /\ PayloadLen \in Nat \ {0} /\ PayloadLen + 6 \in Words /\ FirstSeq \in Words /\ Gain \in Nat \ {0}
    /\ WireVersions \subseteq Words /\ CodecBits \subseteq Bytes
    /\ StartIndexes \subseteq 0 .. MaxStepIndex /\ PayloadBytes \subseteq Bytes
    /\ MaxStreams \in Nat /\ MaxFrames \in Nat /\ MaxSyncs \in Nat /\ MaxInFlight \in Nat
  BY WireAssumption, BoundsAssumption

Word(a, b) == 256 * a + b
Signed(u) == IF u > MaxSample THEN u - 65536 ELSE u

LEMMA ReadIs ==
    ASSUME NEW data, NEW i
    PROVE  /\ U16(data, i) = Word(data[i], data[i + 1])
           /\ I16(data, i) = Signed(Word(data[i], data[i + 1]))
  BY SMT DEF U16, I16, Word, Signed

\* from_be_bytes takes back what to_be_bytes made of a number.
LEMMA BytesOfWord ==
    ASSUME NEW x \in Words
    PROVE  Hi(x) \in Bytes /\ Lo(x) \in Bytes /\ Word(Hi(x), Lo(x)) = x
  BY WordsAre, BytesAre, SMT DEF Hi, Lo, Word

LEMMA BytesOfSample ==
    ASSUME NEW x \in Sample
    PROVE  Hi(x) \in Bytes /\ Lo(x) \in Bytes /\ Signed(Word(Hi(x), Lo(x))) = x
  BY SamplesAre, BytesAre, SMT DEF Hi, Lo, MaxSample, Word, Signed

LEMMA WordOfBytes ==
    ASSUME NEW a \in Bytes, NEW b \in Bytes
    PROVE  Word(a, b) \in Words
  BY WordsAre, BytesAre, SMT DEF Word

LEMMA SignedIsSample ==
    ASSUME NEW u \in Words
    PROVE  Signed(u) \in Sample
  BY WordsAre, SamplesAre, SMT DEF MaxSample, Signed

LEMMA ReadWord ==
    ASSUME NEW data \in Seq(Bytes), NEW i \in 1 .. Len(data) - 1
    PROVE  U16(data, i) \in Words /\ I16(data, i) \in Sample
  <1>1. data[i] \in Bytes /\ data[i + 1] \in Bytes
    OBVIOUS
  <1>2. Word(data[i], data[i + 1]) \in Words
    BY <1>1, WordOfBytes
  <1> QED
    BY <1>2, ReadIs, SignedIsSample

-----------------------------------------------------------------------------
(* Capabilities.                                                           *)

Caps == [version : Versions, codecs : SUBSET Codecs, model : {0, 1, 3}, frame_size : Words]

LEMMA SomeIsNotNone == \A x : Some(x) # None /\ Some(x)[1] = x /\ DOMAIN Some(x) = {1}
  BY DEF Some, None

LEMMA SomeIsInjective == \A x, y : Some(x) = Some(y) => x = y
  BY SomeIsNotNone

LEMMA FromWireIs ==
    ASSUME NEW w \in Int
    PROVE  /\ w = 4 => FromWire(w) = Some("V0_4")
           /\ w = 256 => FromWire(w) = Some("V1_0")
           /\ w \notin {4, 256} => FromWire(w) = None
  <1> DEFINE known == {v \in Versions : WireValue(v) = w}
  <1>1. CASE w = 4
    <2>1. known = {"V0_4"}
      BY <1>1 DEF Versions, WireValue
    <2>2. (CHOOSE v \in known : TRUE) = "V0_4"
      BY <2>1
    <2> QED
      BY <1>1, <2>1, <2>2 DEF FromWire
  <1>2. CASE w = 256
    <2>1. known = {"V1_0"}
      BY <1>2 DEF Versions, WireValue
    <2>2. (CHOOSE v \in known : TRUE) = "V1_0"
      BY <2>1
    <2> QED
      BY <1>2, <2>1, <2>2 DEF FromWire
  <1>3. CASE w \notin {4, 256}
    <2>1. known = {}
      BY <1>3 DEF Versions, WireValue
    <2> QED
      BY <1>3, <2>1 DEF FromWire
  <1> QED
    BY <1>1, <1>2, <1>3

LEMMA VersionOrIs ==
    ASSUME NEW data, NEW default \in Versions, U16(data, 2) \in Int
    PROVE  /\ VersionOr(data, default) \in Versions
           /\ U16(data, 2) = 4 => VersionOr(data, default) = "V0_4"
           /\ U16(data, 2) = 256 => VersionOr(data, default) = "V1_0"
  <1> DEFINE w == U16(data, 2)
  <1>1. w = 4 \/ w = 256 \/ w \notin {4, 256}
    OBVIOUS
  <1>2. VersionOr(data, default) = IF FromWire(w) = None THEN default ELSE FromWire(w)[1]
    BY DEF VersionOr
  <1> HIDE DEF w
  <1>3. w \in Int
    BY DEF w
  <1> QED
    BY <1>1, <1>2, <1>3, FromWireIs, SomeIsNotNone DEF Versions, w

LEMMA VersionIsKnown ==
    ASSUME NEW data, U16(data, 2) \in Words
    PROVE  VersionOr(data, "V0_4") \in Versions /\ VersionOr(data, "V1_0") \in Versions
  <1>1. U16(data, 2) \in Int
    BY WordsAre
  <1>2. "V0_4" \in Versions /\ "V1_0" \in Versions
    BY DEF Versions
  <1> QED
    BY <1>1, <1>2, VersionOrIs

LEMMA PayloadV04 ==
    ASSUME NEW data \in Seq(Bytes), Len(data) >= 9
    PROVE  \E caps \in Caps :
             /\ ParsePayloadV04(data) = Some(caps)
             /\ caps.version = VersionOr(data, "V0_4") /\ caps.codecs = CodecsOf(data[5])
             /\ caps.frame_size = U16(data, 6)
  <1> DEFINE caps == [version |-> VersionOr(data, "V0_4"), codecs |-> CodecsOf(data[5]),
                      model |-> 0, frame_size |-> U16(data, 6)]
  <1>1. U16(data, 2) \in Words /\ U16(data, 6) \in Words
    BY ReadWord
  <1>2. caps.version \in Versions
    BY <1>1, VersionIsKnown
  <1>3. caps.codecs \subseteq Codecs
    BY DEF CodecsOf
  <1>4. caps \in Caps
    BY <1>1, <1>2, <1>3 DEF Caps
  <1>5. ParsePayloadV04(data) = Some(caps)
    BY DEF ParsePayloadV04
  <1> QED
    BY <1>4, <1>5

LEMMA PayloadV10 ==
    ASSUME NEW data \in Seq(Bytes), Len(data) >= 7
    PROVE  \E caps \in Caps :
             /\ ParsePayloadV10(data) = Some(caps)
             /\ caps.version = VersionOr(data, "V1_0") /\ caps.codecs = CodecsOf(data[4])
             /\ caps.frame_size = U16(data, 6)
  <1> DEFINE caps == [version |-> VersionOr(data, "V1_0"), codecs |-> CodecsOf(data[4]),
                      model |-> InteractionModelOf(data[5]), frame_size |-> U16(data, 6)]
  <1>1. U16(data, 2) \in Words /\ U16(data, 6) \in Words
    BY ReadWord
  <1>2. caps.version \in Versions
    BY <1>1, VersionIsKnown
  <1>3. caps.codecs \subseteq Codecs
    BY DEF CodecsOf
  <1>4. caps \in Caps
    BY <1>1, <1>2, <1>3 DEF Caps, InteractionModelOf
  <1>5. ParsePayloadV10(data) = Some(caps)
    BY DEF ParsePayloadV10
  <1> QED
    BY <1>4, <1>5

\* A CAPS_RESP that can be read at all has a known version.
LEMMA CapsRespType ==
    ASSUME NEW data \in Seq(Bytes), ParseCapsResp(data) # None
    PROVE  \E caps \in Caps :
             /\ ParseCapsResp(data) = Some(caps)
             /\ data[1] = CapsResp
             /\ \/ /\ U16(data, 2) = 4 /\ caps.version = "V0_4" /\ caps.codecs = CodecsOf(data[5])
                \/ /\ U16(data, 2) = 256 /\ caps.version = "V1_0" /\ caps.codecs = CodecsOf(data[4])
             /\ caps.frame_size = U16(data, 6)
  <1>1. Len(data) >= 3 /\ data[1] = CapsResp
    BY DEF ParseCapsResp
  <1>2. U16(data, 2) \in Words
    BY <1>1, ReadWord
  <1> DEFINE w == U16(data, 2)
             version == FromWire(w)
  <1>3. ParseCapsResp(data) = CASE version = Some("V0_4") -> ParsePayloadV04(data)
                                [] version = Some("V1_0") -> ParsePayloadV10(data)
                                [] OTHER -> None
    BY <1>1 DEF ParseCapsResp
  <1>4. w \in Int
    BY <1>2, WordsAre
  <1> HIDE DEF w
  <1>5. /\ w = 4 => version = Some("V0_4")
        /\ w = 256 => version = Some("V1_0")
        /\ w \notin {4, 256} => version = None
    BY <1>4, FromWireIs
  <1>6. Some("V0_4") # Some("V1_0") /\ Some("V0_4") # None /\ Some("V1_0") # None
    BY SomeIsInjective, SomeIsNotNone
  <1> HIDE DEF version
  <1>7. CASE w = 4
    <2>1. ParseCapsResp(data) = ParsePayloadV04(data)
      BY <1>3, <1>5, <1>6, <1>7
    <2>2. Len(data) >= 9
      BY <2>1 DEF ParsePayloadV04
    <2>3. VersionOr(data, "V0_4") = "V0_4"
      BY <1>2, <1>4, <1>7, VersionOrIs DEF w, Versions
    <2> QED
      BY <1>1, <1>7, <2>1, <2>2, <2>3, PayloadV04 DEF w
  <1>8. CASE w = 256
    <2>1. ParseCapsResp(data) = ParsePayloadV10(data)
      BY <1>3, <1>5, <1>6, <1>8
    <2>2. Len(data) >= 7
      BY <2>1 DEF ParsePayloadV10
    <2>3. VersionOr(data, "V1_0") = "V1_0"
      BY <1>2, <1>4, <1>8, VersionOrIs DEF w, Versions
    <2> QED
      BY <1>1, <1>8, <2>1, <2>2, <2>3, PayloadV10 DEF w
  <1>9. CASE w \notin {4, 256}
    BY <1>3, <1>5, <1>6, <1>9
  <1> QED
    BY <1>7, <1>8, <1>9

Object(v, c, m, size, d, seq) ==
    [version |-> v, codec |-> c, model |-> m, frame_size |-> size, decoder |-> d,
     frame_seq |-> seq]

LEMMA ObjectType ==
    ASSUME NEW v \in Versions, NEW c \in Codecs, NEW m \in {0, 1, 3}, NEW size \in Words,
           NEW d \in Decoders
    PROVE  Object(v, c, m, size, d, 0) \in Protocols
  <1>1. 0 \in Words
    BY WordsAre
  <1> QED
    BY <1>1 DEF Object, Protocols

\* An object is created if and only if there is a common codec, and has the best.
LEMMA CreateProtocolIs ==
    ASSUME NEW caps \in Caps
    PROVE  \/ caps.codecs = {} /\ CreateProtocol(caps) = None
           \/ \E p \in Protocols :
                /\ CreateProtocol(caps) = Some(p)
                /\ p.version = caps.version /\ p.frame_size = caps.frame_size
                /\ p.codec \in caps.codecs
                /\ "Adpcm16kHz" \in caps.codecs => p.codec = "Adpcm16kHz"
  <1> DEFINE codec == NegotiateCodec(caps.codecs)
             p == [NewProtocol(caps.version) EXCEPT !.codec = codec[1], !.model = caps.model,
                                                     !.frame_size = caps.frame_size]
  <1>1. CASE caps.codecs = {}
    <2>1. codec = None
      BY <1>1 DEF NegotiateCodec
    <2> QED
      BY <1>1, <2>1 DEF CreateProtocol, OnCapsResp
  <1>2. CASE caps.codecs # {}
    <2>0. caps.codecs \subseteq Codecs
      BY DEF Caps
    <2>1. \E c \in caps.codecs : codec = Some(c) /\ ("Adpcm16kHz" \in caps.codecs => c = "Adpcm16kHz")
      <3>1. CASE "Adpcm16kHz" \in caps.codecs
        BY <3>1 DEF NegotiateCodec
      <3>2. CASE "Adpcm16kHz" \notin caps.codecs
        <4>1. "Adpcm8kHz" \in caps.codecs
          BY <1>2, <2>0, <3>2 DEF Codecs
        <4> QED
          BY <3>2, <4>1 DEF NegotiateCodec
      <3> QED
        BY <3>1, <3>2
    <2>2. /\ codec # None /\ codec[1] \in caps.codecs
          /\ ("Adpcm16kHz" \in caps.codecs => codec[1] = "Adpcm16kHz")
      BY <2>1, SomeIsNotNone
    <2>3. CreateProtocol(caps) = Some(p)
      BY <2>2 DEF CreateProtocol, OnCapsResp
    <2> HIDE DEF codec
    <2>4. NewDecoder \in Decoders
      BY SamplesAre DEF NewDecoder, Decoders, MaxStepIndex
    <2>5. p = Object(caps.version, codec[1], caps.model, caps.frame_size, NewDecoder, 0)
      <3> DEFINE size == IF caps.version = "V0_4" THEN 134 ELSE 20
      <3>1. NewProtocol(caps.version) = Object(caps.version, None, 0, size, NewDecoder, 0)
        BY DEF NewProtocol, Object
      <3> DEFINE v == caps.version
                 c == codec[1]
                 m == caps.model
                 f == caps.frame_size
                 new == NewProtocol(caps.version)
      <3> HIDE DEF size, v, c, m, f, new
      <3>2. new = Object(v, None, 0, size, NewDecoder, 0)
        BY <3>1 DEF v, new
      <3>3. [new EXCEPT !.codec = c] = Object(v, c, 0, size, NewDecoder, 0)
        BY <3>2 DEF Object
      <3>4. [Object(v, c, 0, size, NewDecoder, 0) EXCEPT !.model = m]
              = Object(v, c, m, size, NewDecoder, 0)
        BY DEF Object
      <3>5. [Object(v, c, m, size, NewDecoder, 0) EXCEPT !.frame_size = f]
              = Object(v, c, m, f, NewDecoder, 0)
        BY DEF Object
      <3>6. [new EXCEPT !.codec = c, !.model = m, !.frame_size = f]
              = Object(v, c, m, f, NewDecoder, 0)
        BY <3>3, <3>4, <3>5
      <3> QED
        BY <3>6 DEF v, c, m, f, new
    <2>6. p \in Protocols
      BY <2>0, <2>2, <2>4, <2>5, ObjectType DEF Caps
    <2> HIDE DEF p
    <2>7. p.version = caps.version /\ p.frame_size = caps.frame_size /\ p.codec = codec[1]
      BY <2>5 DEF Object
    <2> QED
      BY <2>2, <2>3, <2>6, <2>7
  <1> QED
    BY <1>1, <1>2

-----------------------------------------------------------------------------
(* The remote's encoder and the host's decoder agree.                      *)

LEMMA EncodesAsDecoded ==
    ASSUME NEW d \in Decoders, NEW nibble \in 0 .. 15
    PROVE  Encodes(d, nibble) = DecodeNibble(d, nibble)
  <1> DEFINE step == StepTable[d.step_index + 1]
             m == nibble % 8
             amount == step \div 8 + (m \div 4) * step
                       + ((m \div 2) % 2) * (step \div 2) + (m % 2) * (step \div 4)
             diff == Difference(nibble, step)
             moved == IF nibble >= 8 THEN d.predictor - diff ELSE d.predictor + diff
  <1>1. d.step_index \in 0 .. MaxStepIndex /\ d.predictor \in Int
    BY SamplesAre DEF Decoders
  <1>2. step \in Nat
    BY <1>1, StepsAreNaturals
  <1>3. amount = diff
    <2> DEFINE bit1 == (nibble \div 1) % 2
               bit2 == (nibble \div 2) % 2
               bit4 == (nibble \div 4) % 2
    <2>1. m \div 4 = bit4 /\ (m \div 2) % 2 = bit2 /\ m % 2 = bit1
      OBVIOUS
    <2>2. bit1 \in {0, 1} /\ bit2 \in {0, 1} /\ bit4 \in {0, 1}
      OBVIOUS
    <2>3. diff = step \div 8 + bit1 * (step \div 4) + bit2 * (step \div 2) + bit4 * step
      BY DEF Difference
    <2>4. amount = step \div 8 + bit4 * step + bit2 * (step \div 2) + bit1 * (step \div 4)
      BY <2>1
    <2> HIDE DEF bit1, bit2, bit4, amount, diff, step
    <2>5. /\ step \div 8 \in Int /\ step \div 4 \in Int /\ step \div 2 \in Int
      BY <1>2
    <2> DEFINE s8 == step \div 8
               s4 == step \div 4
               s2 == step \div 2
    <2> HIDE DEF s8, s4, s2
    <2>6. /\ s8 \in Int /\ s4 \in Int /\ s2 \in Int
          /\ diff = s8 + bit1 * s4 + bit2 * s2 + bit4 * step
          /\ amount = s8 + bit4 * step + bit2 * s2 + bit1 * s4
      BY <2>3, <2>4, <2>5 DEF s8, s4, s2
    <2>7. /\ bit1 * s4 \in Int /\ bit2 * s2 \in Int /\ bit4 * step \in Int
      BY <1>2, <2>2, <2>6
    <2> QED
      BY <2>6, <2>7
  <1>4. (IF nibble < 8 THEN d.predictor + amount ELSE d.predictor - amount) = moved
    <2> HIDE DEF amount, diff
    <2> QED
      BY <1>3
  <1>5. Encodes(d, nibble) =
          [predictor |-> Clamp(IF nibble < 8 THEN d.predictor + amount ELSE d.predictor - amount,
                               MinSample, MaxSample),
           step_index |-> Clamp(d.step_index + IndexTable[m + 1], 0, 88)]
    BY DEF Encodes
  <1>6. DecodeNibble(d, nibble) =
          [predictor |-> Clamp(moved, MinSample, MaxSample),
           step_index |-> Clamp(d.step_index + IndexTable[m + 1], 0, MaxStepIndex)]
    BY DEF DecodeNibble
  <1>7. MaxStepIndex = 88
    BY DEF MaxStepIndex
  <1> HIDE DEF moved, amount, m
  <1> QED
    BY <1>4, <1>5, <1>6, <1>7

LEMMA SpokenNibbles ==
    ASSUME NEW payload \in Seq(Bytes), NEW i \in 1 .. 2 * Len(payload)
    PROVE  SpokenNibble(payload, i) = HighNibbleFirst(payload)[i]
  <1>1. CASE i % 2 = 1
    <2>1. ((i - 1) \div 2) + 1 = (i + 1) \div 2
      BY <1>1
    <2> QED
      BY <1>1, <2>1 DEF SpokenNibble, HighNibbleFirst
  <1>2. CASE i % 2 # 1
    <2>1. ((i - 1) \div 2) + 1 = i \div 2
      BY <1>2
    <2> QED
      BY <1>2, <2>1 DEF SpokenNibble, HighNibbleFirst
  <1> QED
    BY <1>1, <1>2

\* After every nibble the decoder stands where the encoder stood.
LEMMA SpokenIsDecoded ==
    ASSUME NEW e \in Decoders, NEW payload \in Seq(Bytes)
    PROVE  \A i \in 0 .. 2 * Len(payload) : Spoken(e, payload)[i] = DecoderAfter(e, payload)[i]
  <1> DEFINE last == 2 * Len(payload)
             after == DecoderAfter(e, payload)
             said == Spoken(e, payload)
             body(f) == [i \in 0 .. last |->
                           IF i = 0 THEN e ELSE Encodes(f[i - 1], SpokenNibble(payload, i))]
  <1>1. last \in Nat /\ 0 \in Int /\ last \in Int /\ 0 <= last
    OBVIOUS
  <1>2. /\ after \in [0 .. last -> Decoders] /\ after[0] = e
        /\ \A i \in 1 .. last : after[i] = DecodeNibble(after[i - 1], HighNibbleFirst(payload)[i])
    BY DecoderAfterUnfolds
  <1>3. said = CHOOSE f : f = body(f)
    BY DEF Spoken
  <1>4. HighNibbleFirst(payload) \in [1 .. last -> 0 .. 15]
    BY NibblesAreNibbles
  <1>5. \A i \in 1 .. last : SpokenNibble(payload, i) = HighNibbleFirst(payload)[i]
    BY SpokenNibbles
  <1> HIDE DEF last, after, said
  <1>6. \A i \in 1 .. last : after[i] = Encodes(after[i - 1], SpokenNibble(payload, i))
    <2> SUFFICES ASSUME NEW i \in 1 .. last
                 PROVE  after[i] = Encodes(after[i - 1], SpokenNibble(payload, i))
      OBVIOUS
    <2>1. after[i - 1] \in Decoders
      BY <1>1, <1>2
    <2>2. HighNibbleFirst(payload)[i] \in 0 .. 15
      BY <1>4
    <2> QED
      BY <1>2, <1>5, <2>1, <2>2, EncodesAsDecoded
  <1>7. after = body(after)
    BY <1>1, <1>2, <1>6
  <1>8. said = body(said)
    <2> HIDE DEF body
    <2> QED
      BY <1>3, <1>7
  <1>9. said[0] = e /\ \A i \in 1 .. last : said[i] = Encodes(said[i - 1], SpokenNibble(payload, i))
    BY <1>1, <1>8
  <1> DEFINE N == {n \in 0 .. last : said[n] = after[n]}
  <1>10. 0 \in N
    BY <1>1, <1>2, <1>9
  <1>11. \A n \in 0 .. last - 1 : n \in N => n + 1 \in N
    <2> SUFFICES ASSUME NEW n \in 0 .. last - 1, n \in N PROVE said[n + 1] = after[n + 1]
      BY <1>1
    <2>1. said[n] = after[n] /\ n + 1 \in 1 .. last /\ (n + 1) - 1 = n
      BY <1>1
    <2> QED
      BY <1>6, <1>9, <2>1
  <1>12. 0 .. last \subseteq N
    <2> HIDE DEF N
    <2> QED
      BY <1>1, <1>10, <1>11, IntervalInduction
  <1> QED
    BY <1>12 DEF last, after, said

-----------------------------------------------------------------------------
(* What the host makes of a notification.                                  *)

LEMMA SyncType ==
    ASSUME NEW p \in Protocols, NEW data \in Seq(Bytes), data # <<>>,
           p.version = "V1_0", ParseCtl(p, data).ev = "AUDIO_SYNC"
    PROVE  LET e == ParseCtl(p, data)
           IN  e.codec \in Codecs /\ e.seq \in Words /\ e.predictor \in Sample
               /\ e.step_index \in Bytes
  <1>1. ParseCtl(p, data) = ParseCtlV10(p, data)
    BY DEF ParseCtl
  <1>2. data[1] = AudioSync /\ Len(data) >= 7
    <2>1. CASE data[1] \in {AudioStop, AudioStart}
      BY <1>1, <2>1 DEF ParseCtlV10, ParseCtlPlain, Unknown, AudioStop, AudioStart, AudioSync,
                        StartSearch, CapsResp, MicOpenError
    <2>2. CASE data[1] \notin {AudioStop, AudioStart} /\ ~(data[1] = AudioSync /\ Len(data) >= 7)
      <3>1. ParseCtl(p, data) = ParseCtlPlain(data, ParsePayloadV10(data))
        BY <1>1, <2>2 DEF ParseCtlV10
      <3> QED
        BY <3>1 DEF ParseCtlPlain, Unknown
    <2> QED
      BY <2>1, <2>2
  <1>3. ParseCtl(p, data) =
          [ev |-> "AUDIO_SYNC", codec |-> CodecOf(data[2]), seq |-> U16(data, 3),
           predictor |-> I16(data, 5), step_index |-> data[7]]
    BY <1>1, <1>2 DEF ParseCtlV10, AudioStop, AudioStart, AudioSync
  <1>4. U16(data, 3) \in Words /\ I16(data, 5) \in Sample /\ data[7] \in Bytes
    BY <1>2, ReadWord
  <1> QED
    BY <1>3, <1>4 DEF CodecOf, Codecs

LEMMA SyncedType ==
    ASSUME NEW p \in Protocols, NEW data \in Seq(Bytes), data # <<>>,
           ParseCtl(p, data).ev = "AUDIO_SYNC"
    PROVE  LET q == OnAudioSync(p, ParseCtl(p, data))
           IN  q \in Protocols /\ q.version = p.version /\ q.frame_size = p.frame_size
  <1>1. CASE p.version = "V0_4"
    BY <1>1 DEF OnAudioSync
  <1>2. CASE p.version # "V0_4"
    <2> DEFINE e == ParseCtl(p, data)
    <2>1. p.version = "V1_0"
      BY <1>2 DEF Protocols, Versions
    <2>2. e.codec \in Codecs /\ e.seq \in Words /\ e.predictor \in Sample /\ e.step_index \in Bytes
      BY <2>1, SyncType
    <2>3. Reset(e.predictor, e.step_index) \in Decoders
      BY <2>2, ResetStaysInRange
    <2>4. OnAudioSync(p, e) = [p EXCEPT !.decoder = Reset(e.predictor, e.step_index),
                                        !.frame_seq = e.seq, !.codec = e.codec]
      BY <1>2 DEF OnAudioSync
    <2> HIDE DEF e
    <2> DEFINE moved == [p EXCEPT !.decoder = Reset(e.predictor, e.step_index)]
               numbered == [moved EXCEPT !.frame_seq = e.seq]
    <2>5. moved \in Protocols /\ moved.version = p.version /\ moved.frame_size = p.frame_size
      BY <2>3 DEF Protocols
    <2> HIDE DEF moved
    <2>6. /\ numbered \in Protocols
          /\ numbered.version = p.version /\ numbered.frame_size = p.frame_size
      BY <2>2, <2>5 DEF Protocols
    <2>7. OnAudioSync(p, e) = [numbered EXCEPT !.codec = e.codec]
      BY <2>4 DEF moved
    <2> HIDE DEF numbered
    <2> DEFINE q == [numbered EXCEPT !.codec = e.codec]
    <2>8. q \in Protocols /\ q.version = p.version /\ q.frame_size = p.frame_size
      BY <2>2, <2>6 DEF Protocols
    <2> QED
      BY <2>7, <2>8, Zenon DEF e
  <1> QED
    BY <1>1, <1>2

\* A frame's samples are 16-bit samples, and the object stays one.
LEMMA FrameType ==
    ASSUME NEW p \in Protocols, NEW data \in Seq(Bytes), DecodeAudio(p, data).frame # None
    PROVE  LET d == DecodeAudio(p, data)
           IN  /\ d.protocol \in Protocols
               /\ d.protocol.version = p.version /\ d.protocol.codec = p.codec
               /\ d.protocol.frame_size = p.frame_size
               /\ d.frame[1].samples \in Seq(Sample) /\ d.frame[1].seq \in Words
  <1>0. p.decoder \in Decoders /\ p.frame_seq \in Words
    BY DEF Protocols
  <1>1. CASE p.version = "V0_4"
    <2> DEFINE predictor == I16(data, 4)
               payload == SubSeq(data, 7, Len(data))
               start == Reset(predictor, data[6])
               decoded == DecodeBytes(start, payload)
               frame == [seq |-> U16(data, 1), codec |-> p.codec,
                         samples |-> <<predictor>> \o decoded.samples]
    <2>1. DecodeAudio(p, data) = DecodeV04(p, data)
      BY <1>1 DEF DecodeAudio
    <2>2. Len(data) >= 6 /\ Len(data) = p.frame_size
      BY <2>1 DEF DecodeV04, NoFrame
    <2>3. DecodeAudio(p, data) = [frame |-> Some(frame),
                                  protocol |-> [p EXCEPT !.decoder = decoded.decoder]]
      BY <2>1, <2>2 DEF DecodeV04
    <2>4. predictor \in Sample /\ U16(data, 1) \in Words /\ data[6] \in Bytes
      BY <2>2, ReadWord
    <2>5. payload \in Seq(Bytes)
      BY <2>2
    <2>6. start \in Decoders
      BY <2>4, ResetStaysInRange
    <2> HIDE DEF predictor, payload, start
    <2>7. decoded.samples \in Seq(Sample) /\ decoded.decoder \in Decoders
      BY <2>5, <2>6, FrameStaysInRange
    <2> HIDE DEF decoded
    <2>8. <<predictor>> \o decoded.samples \in Seq(Sample)
      <3>1. <<predictor>> \in Seq(Sample)
        BY <2>4
      <3> QED
        BY <2>7, <3>1, ConcatProperties
    <2>9. frame.samples \in Seq(Sample) /\ frame.seq \in Words
      BY <2>4, <2>8
    <2> HIDE DEF frame
    <2>10. [p EXCEPT !.decoder = decoded.decoder] \in Protocols
      BY <2>7 DEF Protocols
    <2> QED
      BY <2>3, <2>9, <2>10, SomeIsNotNone DEF Protocols
  <1>2. CASE p.version # "V0_4"
    <2> DEFINE decoded == DecodeBytes(p.decoder, data)
               frame == [seq |-> p.frame_seq, codec |-> p.codec, samples |-> decoded.samples]
               next == [p EXCEPT !.decoder = decoded.decoder,
                                 !.frame_seq = WrappingAdd(p.frame_seq, 1)]
    <2>1. DecodeAudio(p, data) = DecodeV10(p, data)
      BY <1>2 DEF DecodeAudio
    <2>2. DecodeAudio(p, data) = [frame |-> Some(frame), protocol |-> next]
      BY <2>1 DEF DecodeV10, NoFrame
    <2>3. decoded.samples \in Seq(Sample) /\ decoded.decoder \in Decoders
      BY <1>0, FrameStaysInRange
    <2>4. WrappingAdd(p.frame_seq, 1) \in Words
      BY <1>0, WordsAre, SMT DEF WrappingAdd
    <2> HIDE DEF decoded
    <2>5. /\ next \in Protocols
          /\ next.version = p.version /\ next.codec = p.codec /\ next.frame_size = p.frame_size
      BY <2>3, <2>4 DEF Protocols
    <2> HIDE DEF next
    <2> QED
      BY <1>0, <2>2, <2>3, <2>5, SomeIsNotNone
  <1> QED
    BY <1>1, <1>2

-----------------------------------------------------------------------------
(* The bytes of a remote `r`, and how the host reads them.                 *)

Remotes ==
    [version : Words, codecs : Bytes, codec : Codecs, start : 0 .. MaxStepIndex,
     payload : Seq(Bytes), answered : BOOLEAN, on : BOOLEAN, encoder : Decoders, n : Nat,
     whole : BOOLEAN, streams : Nat, frames : Nat, syncs : Nat]
Ats == [n : Nat, encoder : Decoders, codec : Codecs]

Ten(r) == r.version # 4
SizeOf(r) == IF Ten(r) THEN PayloadLen ELSE PayloadLen + 6
CapsOf(r) ==
    IF Ten(r)
      THEN <<CapsResp, Hi(r.version), Lo(r.version), r.codecs, 1, Hi(SizeOf(r)), Lo(SizeOf(r))>>
      ELSE <<CapsResp, Hi(r.version), Lo(r.version), 0, r.codecs, Hi(SizeOf(r)), Lo(SizeOf(r)),
             0, 1>>
StartOf(r) == IF Ten(r) THEN <<AudioStart, 0, CodecByte(r.codec), 0>> ELSE <<AudioStart>>
StopsOf(r) == IF Ten(r) THEN {<<AudioStop, 2>>} ELSE {<<AudioStop>>, <<StartSearch>>}
SyncOf(r, at) ==
    IF Ten(r)
      THEN <<AudioSync, CodecByte(at.codec), Hi(SeqOf(at.n)), Lo(SeqOf(at.n)),
             Hi(at.encoder.predictor), Lo(at.encoder.predictor), at.encoder.step_index>>
      ELSE <<AudioSync, Hi(SeqOf(at.n)), Lo(SeqOf(at.n))>>
HeadOf(at) ==
    <<Hi(SeqOf(at.n)), Lo(SeqOf(at.n)), 0, Hi(at.encoder.predictor), Lo(at.encoder.predictor),
      at.encoder.step_index>>
FrameOf(r, at) == IF Ten(r) THEN r.payload ELSE HeadOf(at) \o r.payload
SaidOf(r, at) == [i \in 1 .. 2 * PayloadLen |-> Spoken(at.encoder, r.payload)[i].predictor]
TruthOf(r, at) ==
    [seq |-> SeqOf(at.n), codec |-> at.codec,
     samples |-> IF Ten(r) THEN SaidOf(r, at) ELSE <<at.encoder.predictor>> \o SaidOf(r, at)]

LEMMA BytesAreOf ==
    /\ Wire10 = Ten(remote) /\ FrameSize = SizeOf(remote)
    /\ CapsBytes = CapsOf(remote) /\ StartBytes = StartOf(remote) /\ StopBytes = StopsOf(remote)
    /\ \A at : /\ SyncBytes(at) = SyncOf(remote, at) /\ FrameBytes(at) = FrameOf(remote, at)
               /\ Truth(at) = TruthOf(remote, at)
  <1>1. Wire10 = Ten(remote)
    BY DEF Wire10, Ten
  <1>2. FrameSize = SizeOf(remote)
    BY DEF Wire10, Ten, FrameSize, SizeOf
  <1>3. CapsBytes = CapsOf(remote)
    BY <1>1, <1>2, Zenon DEF CapsBytes, CapsOf
  <1>4. StartBytes = StartOf(remote) /\ StopBytes = StopsOf(remote)
    BY <1>1 DEF StartBytes, StartOf, StopBytes, StopsOf
  <1>5. ASSUME NEW at
        PROVE  /\ SyncBytes(at) = SyncOf(remote, at) /\ FrameBytes(at) = FrameOf(remote, at)
               /\ Truth(at) = TruthOf(remote, at)
    <2>1. SyncBytes(at) = SyncOf(remote, at)
      BY <1>1, Zenon DEF SyncBytes, SyncOf
    <2>2. FrameBytes(at) = FrameOf(remote, at)
      BY <1>1, Zenon DEF FrameBytes, FrameOf, HeadOf
    <2>3. Truth(at) = TruthOf(remote, at)
      BY <1>1, Zenon DEF Truth, TruthOf, SaidOf
    <2> QED
      BY <2>1, <2>2, <2>3
  <1> QED
    BY <1>1, <1>2, <1>3, <1>4, <1>5

LEMMA ResetKeeps ==
    ASSUME NEW d \in Decoders
    PROVE  Reset(d.predictor, d.step_index) = d
  <1>1. d.step_index \in 0 .. MaxStepIndex /\ d = [predictor |-> d.predictor, step_index |-> d.step_index]
    BY DEF Decoders
  <1>2. Clamp(d.step_index, 0, MaxStepIndex) = d.step_index
    BY <1>1 DEF Clamp, MaxStepIndex
  <1> QED
    BY <1>1, <1>2 DEF Reset

LEMMA CodecsAre ==
    /\ \A c \in Codecs : CodecByte(c) \in {1, 2} /\ CodecOf(CodecByte(c)) = c
    /\ \A b : CodecOf(b) \in Codecs
  BY DEF Codecs, CodecByte, CodecOf

LEMMA SeqsAreWords == \A n \in Nat : SeqOf(n) \in Words
  BY Wires, WordsAre, SMT DEF SeqOf

LEMMA SizeIsWord == ASSUME NEW r PROVE SizeOf(r) \in Words
  BY Wires, WordsAre, SMT DEF SizeOf

LEMMA OpcodesAreBytes ==
    {MicOpen, AudioStop, AudioStart, StartSearch, AudioSync, CapsResp, MicOpenError, 0, 1, 2}
        \subseteq Bytes
  BY BytesAre DEF MicOpen, AudioStop, AudioStart, StartSearch, AudioSync, CapsResp, MicOpenError

LEMMA MessagesAreBytes ==
    ASSUME NEW r \in Remotes
    PROVE  /\ {CapsOf(r), StartOf(r)} \cup StopsOf(r) \subseteq Seq(Bytes) \ {<<>>}
           /\ \A at \in Ats :
                /\ SyncOf(r, at) \in Seq(Bytes) \ {<<>>}
                /\ HeadOf(at) \in Seq(Bytes) /\ Len(HeadOf(at)) = 6
                /\ FrameOf(r, at) \in Seq(Bytes)
  <1>1. /\ r.version \in Words /\ r.codecs \in Bytes /\ r.codec \in Codecs
        /\ r.payload \in Seq(Bytes)
    BY DEF Remotes
  <1>2. Hi(r.version) \in Bytes /\ Lo(r.version) \in Bytes
    BY <1>1, BytesOfWord
  <1>3. Hi(SizeOf(r)) \in Bytes /\ Lo(SizeOf(r)) \in Bytes
    BY SizeIsWord, BytesOfWord
  <1>4. \A c \in Codecs : CodecByte(c) \in Bytes
    BY CodecsAre, OpcodesAreBytes
  <1>5. CapsOf(r) \in Seq(Bytes) \ {<<>>}
    BY <1>1, <1>2, <1>3, OpcodesAreBytes DEF CapsOf
  <1>6. StartOf(r) \in Seq(Bytes) \ {<<>>}
    BY <1>1, <1>4, OpcodesAreBytes DEF StartOf
  <1>7. StopsOf(r) \subseteq Seq(Bytes) \ {<<>>}
    <2>1. /\ <<AudioStop, 2>> \in Seq(Bytes) \ {<<>>}
          /\ <<AudioStop>> \in Seq(Bytes) \ {<<>>} /\ <<StartSearch>> \in Seq(Bytes) \ {<<>>}
      BY OpcodesAreBytes
    <2> QED
      BY <2>1 DEF StopsOf
  <1>8. ASSUME NEW at \in Ats
        PROVE  /\ SyncOf(r, at) \in Seq(Bytes) \ {<<>>}
               /\ HeadOf(at) \in Seq(Bytes) /\ Len(HeadOf(at)) = 6
               /\ FrameOf(r, at) \in Seq(Bytes)
    <2>1. /\ at.codec \in Codecs /\ at.n \in Nat
          /\ at.encoder.predictor \in Sample /\ at.encoder.step_index \in 0 .. MaxStepIndex
      BY DEF Ats, Decoders
    <2>2. Hi(SeqOf(at.n)) \in Bytes /\ Lo(SeqOf(at.n)) \in Bytes
      BY <2>1, SeqsAreWords, BytesOfWord
    <2>3. Hi(at.encoder.predictor) \in Bytes /\ Lo(at.encoder.predictor) \in Bytes
      BY <2>1, BytesOfSample
    <2>4. at.encoder.step_index \in Bytes
      BY <2>1, BytesAre DEF MaxStepIndex
    <2>5. SyncOf(r, at) \in Seq(Bytes) \ {<<>>}
      BY <1>4, <2>1, <2>2, <2>3, <2>4, OpcodesAreBytes DEF SyncOf
    <2>6. HeadOf(at) \in Seq(Bytes) /\ Len(HeadOf(at)) = 6
      BY <2>2, <2>3, <2>4, OpcodesAreBytes DEF HeadOf
    <2>7. FrameOf(r, at) \in Seq(Bytes)
      BY <1>1, <2>6, ConcatProperties DEF FrameOf
    <2> QED
      BY <2>5, <2>6, <2>7
  <1> QED
    BY <1>5, <1>6, <1>7, <1>8

VersionOf(r) == IF Ten(r) THEN "V1_0" ELSE "V0_4"

\* What can be read of a CAPS_RESP is what the remote said of itself.
LEMMA CapsAreRead ==
    ASSUME NEW r \in Remotes, ParseCapsResp(CapsOf(r)) # None
    PROVE  \E caps \in Caps :
             /\ ParseCapsResp(CapsOf(r)) = Some(caps)
             /\ caps.version = VersionOf(r) /\ caps.codecs = CodecsOf(r.codecs)
             /\ caps.frame_size = SizeOf(r)
  <1> DEFINE data == CapsOf(r)
  <1>1. data \in Seq(Bytes)
    BY MessagesAreBytes
  <1>2. PICK caps \in Caps :
             /\ ParseCapsResp(data) = Some(caps)
             /\ \/ /\ U16(data, 2) = 4 /\ caps.version = "V0_4" /\ caps.codecs = CodecsOf(data[5])
                \/ /\ U16(data, 2) = 256 /\ caps.version = "V1_0" /\ caps.codecs = CodecsOf(data[4])
             /\ caps.frame_size = U16(data, 6)
    BY <1>1, CapsRespType
  <1>3. r.version \in Words
    BY DEF Remotes
  <1>4. data[2] = Hi(r.version) /\ data[3] = Lo(r.version)
    BY DEF CapsOf
  <1>5. data[6] = Hi(SizeOf(r)) /\ data[7] = Lo(SizeOf(r))
    BY DEF CapsOf
  <1>6. data[IF Ten(r) THEN 4 ELSE 5] = r.codecs
    BY DEF CapsOf
  <1> HIDE DEF data
  <1>7. U16(data, 2) = r.version
    <2>1. U16(data, 2) = Word(data[2], data[3])
      BY ReadIs
    <2> QED
      BY <1>3, <1>4, <2>1, BytesOfWord
  <1>8. U16(data, 6) = SizeOf(r)
    <2>1. U16(data, 6) = Word(data[6], data[7])
      BY ReadIs
    <2> QED
      BY <1>5, <2>1, SizeIsWord, BytesOfWord
  <1> QED
    BY <1>2, <1>6, <1>7, <1>8 DEF data, Ten, VersionOf

\* How the arms of parse_ctl tell the remote's notifications apart.
LEMMA EventsAre ==
    ASSUME NEW r \in Remotes, NEW p \in Protocols, p.version = VersionOf(r)
    PROVE  /\ ParseCtl(p, CapsOf(r)).ev \in {"CAPS_RESP", "UNKNOWN"}
           /\ ParseCtl(p, StartOf(r)).ev = "AUDIO_START"
           /\ \A data \in StopsOf(r) : ParseCtl(p, data).ev \in {"AUDIO_STOP", "START_SEARCH"}
           /\ \A at : ParseCtl(p, SyncOf(r, at)).ev = "AUDIO_SYNC"
  <1>1. \A data : data # <<>> =>
          ParseCtl(p, data) = IF Ten(r) THEN ParseCtlV10(p, data) ELSE ParseCtlV04(p, data)
    BY DEF ParseCtl, VersionOf
  <1>2. ParseCtl(p, CapsOf(r)).ev \in {"CAPS_RESP", "UNKNOWN"}
    <2> DEFINE data == CapsOf(r)
    <2>1. data # <<>> /\ data[1] = CapsResp
      BY DEF CapsOf
    <2> HIDE DEF data
    <2>2. \E caps : ParseCtl(p, data) = ParseCtlPlain(data, caps)
      BY <1>1, <2>1 DEF ParseCtlV10, ParseCtlV04, CapsResp, AudioStop, AudioStart, AudioSync
    <2> QED
      BY <2>1, <2>2 DEF ParseCtlPlain, Unknown, CapsResp, StartSearch, MicOpenError, data
  <1>3. ParseCtl(p, StartOf(r)).ev = "AUDIO_START"
    <2> DEFINE data == StartOf(r)
    <2>1. data # <<>> /\ data[1] = AudioStart /\ (Ten(r) => Len(data) = 4)
      BY DEF StartOf
    <2> HIDE DEF data
    <2>2. Ten(r) => ParseCtlV10(p, data)
                      = [ev |-> "AUDIO_START", codec |-> CodecOf(data[3]), stream |-> data[4]]
      BY <2>1 DEF ParseCtlV10, AudioStop, AudioStart, AudioSync
    <2>3. ParseCtlV04(p, data) = [ev |-> "AUDIO_START", codec |-> p.codec, stream |-> 0]
      BY <2>1 DEF ParseCtlV04, AudioStop, AudioStart, AudioSync
    <2> QED
      BY <1>1, <2>1, <2>2, <2>3 DEF data
  <1>4. ASSUME NEW data \in StopsOf(r)
        PROVE  ParseCtl(p, data).ev \in {"AUDIO_STOP", "START_SEARCH"}
    <2>1. data # <<>> /\ (data[1] = AudioStop \/ (~Ten(r) /\ data[1] = StartSearch))
      BY DEF StopsOf
    <2>2. CASE data[1] = AudioStop
      <3>1. ParseCtlV10(p, data)
              = [ev |-> "AUDIO_STOP", reason |-> IF Len(data) >= 2 THEN data[2] ELSE 0]
        BY <2>2 DEF ParseCtlV10, AudioStop, AudioStart, AudioSync
      <3>2. ParseCtlV04(p, data) = [ev |-> "AUDIO_STOP", reason |-> 0]
        BY <2>2 DEF ParseCtlV04, AudioStop, AudioStart, AudioSync
      <3> QED
        BY <1>1, <2>1, <3>1, <3>2
    <2>3. CASE ~Ten(r) /\ data[1] = StartSearch
      <3>1. ParseCtl(p, data) = ParseCtlPlain(data, ParsePayloadV04(data))
        BY <1>1, <2>1, <2>3 DEF ParseCtlV04, AudioStop, AudioStart, AudioSync, StartSearch
      <3> QED
        BY <2>3, <3>1 DEF ParseCtlPlain, StartSearch, CapsResp, MicOpenError
    <2> QED
      BY <2>1, <2>2, <2>3
  <1>5. ASSUME NEW at PROVE ParseCtl(p, SyncOf(r, at)).ev = "AUDIO_SYNC"
    <2> DEFINE data == SyncOf(r, at)
    <2>1. /\ data # <<>> /\ data[1] = AudioSync
          /\ Ten(r) => Len(data) >= 7
          /\ ~Ten(r) => Len(data) >= 3
      BY DEF SyncOf
    <2> HIDE DEF data
    <2>2. ASSUME Ten(r)
          PROVE  ParseCtlV10(p, data)
                   = [ev |-> "AUDIO_SYNC", codec |-> CodecOf(data[2]), seq |-> U16(data, 3),
                      predictor |-> I16(data, 5), step_index |-> data[7]]
      <3>1. data[1] = AudioSync /\ Len(data) >= 7
        BY <2>1, <2>2
      <3> QED
        BY <3>1 DEF ParseCtlV10, AudioStop, AudioStart, AudioSync
    <2>3. ~Ten(r) => ParseCtlV04(p, data) = [ev |-> "AUDIO_SYNC", seq |-> U16(data, 2)]
      BY <2>1 DEF ParseCtlV04, AudioStop, AudioStart, AudioSync
    <2> QED
      BY <1>1, <2>1, <2>2, <2>3 DEF data
  <1> QED
    BY <1>2, <1>3, <1>4, <1>5

Stands(p, at) == p.decoder = at.encoder /\ p.frame_seq = SeqOf(at.n) /\ p.codec = at.codec

\* An AUDIO_SYNC of v1.0 puts the host where the remote was.
LEMMA SyncIsRead ==
    ASSUME NEW r \in Remotes, NEW p \in Protocols, p.version = VersionOf(r), Ten(r), NEW at \in Ats
    PROVE  Stands(OnAudioSync(p, ParseCtl(p, SyncOf(r, at))), at)
  <1> DEFINE data == SyncOf(r, at)
             e == ParseCtl(p, data)
             d == at.encoder
  <1>1. /\ data # <<>> /\ data[1] = AudioSync /\ Len(data) = 7
        /\ data[2] = CodecByte(at.codec)
        /\ data[3] = Hi(SeqOf(at.n)) /\ data[4] = Lo(SeqOf(at.n))
        /\ data[5] = Hi(d.predictor) /\ data[6] = Lo(d.predictor)
        /\ data[7] = d.step_index
    BY DEF SyncOf
  <1> HIDE DEF data
  <1>2. e = [ev |-> "AUDIO_SYNC", codec |-> CodecOf(data[2]), seq |-> U16(data, 3),
             predictor |-> I16(data, 5), step_index |-> data[7]]
    BY <1>1 DEF ParseCtl, ParseCtlV10, VersionOf, AudioStop, AudioStart, AudioSync
  <1>3. /\ at.codec \in Codecs /\ at.n \in Nat /\ d \in Decoders
        /\ d.predictor \in Sample /\ d.step_index \in 0 .. MaxStepIndex
    BY DEF Ats, Decoders
  <1>4. CodecOf(data[2]) = at.codec
    BY <1>1, <1>3, CodecsAre
  <1>5. U16(data, 3) = SeqOf(at.n)
    <2>1. U16(data, 3) = Word(data[3], data[4])
      BY ReadIs
    <2> QED
      BY <1>1, <1>3, <2>1, SeqsAreWords, BytesOfWord
  <1>6. I16(data, 5) = d.predictor
    <2>1. I16(data, 5) = Signed(Word(data[5], data[6]))
      BY ReadIs
    <2> QED
      BY <1>1, <1>3, <2>1, BytesOfSample
  <1>7. Reset(d.predictor, d.step_index) = d
    BY <1>3, ResetKeeps
  <1>8. e.codec = at.codec /\ e.seq = SeqOf(at.n) /\ Reset(e.predictor, e.step_index) = d
    BY <1>1, <1>2, <1>4, <1>5, <1>6, <1>7
  <1> HIDE DEF e, d
  <1> DEFINE moved == [p EXCEPT !.decoder = Reset(e.predictor, e.step_index)]
             numbered == [moved EXCEPT !.frame_seq = e.seq]
  <1>9. moved.decoder = d /\ DOMAIN moved = DOMAIN p
    BY <1>8 DEF Protocols
  <1>10. OnAudioSync(p, e) = [numbered EXCEPT !.codec = e.codec]
    BY DEF OnAudioSync, VersionOf
  <1> HIDE DEF moved
  <1>11. /\ numbered.decoder = d /\ numbered.frame_seq = SeqOf(at.n)
         /\ DOMAIN numbered = DOMAIN p
    BY <1>8, <1>9 DEF Protocols
  <1> HIDE DEF numbered
  <1>12. "codec" \in DOMAIN numbered
    BY <1>11 DEF Protocols
  <1> QED
    BY <1>8, <1>10, <1>11, <1>12 DEF Stands, d, e, data

\* Frames are as long as the remote said; what was cut short is not a frame.
LEMMA FrameLength ==
    ASSUME NEW r \in Remotes, Len(r.payload) = PayloadLen, NEW at \in Ats
    PROVE  /\ FrameOf(r, at) \in Seq(Bytes) /\ Len(FrameOf(r, at)) = SizeOf(r)
           /\ Cut(FrameOf(r, at)) \in Seq(Bytes) /\ Len(Cut(FrameOf(r, at))) # SizeOf(r)
  <1>1. r.payload \in Seq(Bytes)
    BY DEF Remotes
  <1>2. FrameOf(r, at) \in Seq(Bytes) /\ Len(FrameOf(r, at)) = SizeOf(r)
    <2>1. HeadOf(at) \in Seq(Bytes) /\ Len(HeadOf(at)) = 6
      BY MessagesAreBytes
    <2>2. Len(HeadOf(at) \o r.payload) = Len(HeadOf(at)) + Len(r.payload)
      BY <1>1, <2>1, ConcatProperties
    <2>3. PayloadLen \in Nat
      BY Wires
    <2> QED
      BY <2>1, <2>2, <2>3, MessagesAreBytes DEF FrameOf, SizeOf
  <1> DEFINE data == FrameOf(r, at)
  <1>3. Len(data) \in Nat \ {0}
    BY <1>2, Wires DEF SizeOf
  <1> HIDE DEF data
  <1>4. data \in Seq(Bytes)
    BY <1>2 DEF data
  <1>5. Cut(data) \in Seq(Bytes) /\ Len(Cut(data)) = Len(data) - 1
    <2> DEFINE n == Len(data) - 1
    <2>1. n \in Nat /\ 1 \in Int /\ n - 1 + 1 = n
      BY <1>3
    <2>2. \A i \in 1 .. n : data[i] \in Bytes
      BY <1>3, <1>4
    <2> HIDE DEF n
    <2>3. SubSeq(data, 1, n) \in Seq(Bytes)
      BY <2>1, <2>2, SubSeqProperties
    <2>4. Len(SubSeq(data, 1, n)) = IF 1 <= n THEN n - 1 + 1 ELSE 0
      BY <2>1, <2>2, SubSeqProperties
    <2>5. Len(SubSeq(data, 1, n)) = n
      BY <2>1, <2>4
    <2> QED
      BY <2>3, <2>5 DEF n, Cut
  <1> QED
    BY <1>2, <1>3, <1>5 DEF data

LEMMA WrongLengthIsNoFrame ==
    ASSUME NEW p, NEW data, Len(data) # p.frame_size
    PROVE  DecodeAudio(p, data).frame = None
  BY DEF DecodeAudio, DecodeV04, DecodeV10, NoFrame

LEMMA SaidIsDecoded ==
    ASSUME NEW r \in Remotes, Len(r.payload) = PayloadLen, NEW at \in Ats
    PROVE  /\ DecodeBytes(at.encoder, r.payload).samples = SaidOf(r, at)
           /\ DecodeBytes(at.encoder, r.payload).decoder = Spoken(at.encoder, r.payload)[2 * PayloadLen]
  <1> DEFINE after == DecoderAfter(at.encoder, r.payload)
             said == Spoken(at.encoder, r.payload)
             last == 2 * PayloadLen
  <1>1. r.payload \in Seq(Bytes) /\ at.encoder \in Decoders
    BY DEF Remotes, Ats
  <1>2. \A i \in 0 .. last : said[i] = after[i]
    BY <1>1, SpokenIsDecoded
  <1>3. DecodeBytes(at.encoder, r.payload)
          = [samples |-> [i \in 1 .. last |-> after[i].predictor], decoder |-> after[last]]
    BY DEF DecodeBytes
  <1>4. SaidOf(r, at) = [i \in 1 .. last |-> said[i].predictor]
    BY DEF SaidOf
  <1>5. last \in Nat
    BY Wires
  <1> HIDE DEF after, said, last
  <1>6. SaidOf(r, at) = [i \in 1 .. last |-> after[i].predictor] /\ said[last] = after[last]
    BY <1>2, <1>4, <1>5
  <1> QED
    BY <1>3, <1>6 DEF said, last

Later(r, at) ==
    [n |-> at.n + 1, codec |-> at.codec, encoder |-> Spoken(at.encoder, r.payload)[2 * PayloadLen]]

LEMMA NextSeq == \A n \in Nat : SeqOf(n + 1) = WrappingAdd(SeqOf(n), 1)
  BY Wires, WordsAre, SMT DEF SeqOf, WrappingAdd

\* A whole frame of v1.0, decoded where the remote stood, is what was said.
LEMMA FrameOfV10 ==
    ASSUME NEW r \in Remotes, Len(r.payload) = PayloadLen, Ten(r), NEW at \in Ats,
           NEW p \in Protocols, p.version = VersionOf(r), p.frame_size = SizeOf(r), Stands(p, at)
    PROVE  /\ DecodeAudio(p, FrameOf(r, at)).frame = Some(TruthOf(r, at))
           /\ Stands(DecodeAudio(p, FrameOf(r, at)).protocol, Later(r, at))
  <1> DEFINE decoded == DecodeBytes(at.encoder, r.payload)
             frame == [seq |-> p.frame_seq, codec |-> p.codec, samples |-> decoded.samples]
             moved == [p EXCEPT !.decoder = decoded.decoder]
             next == [moved EXCEPT !.frame_seq = WrappingAdd(p.frame_seq, 1)]
  <1>1. FrameOf(r, at) = r.payload /\ Len(r.payload) = p.frame_size /\ p.decoder = at.encoder
    BY DEF FrameOf, SizeOf, Stands
  <1>2. DecodeAudio(p, r.payload) = DecodeV10(p, r.payload)
    BY DEF DecodeAudio, VersionOf
  <1>3. DecodeV10(p, r.payload) = [frame |-> Some(frame), protocol |-> next]
    BY <1>1 DEF DecodeV10
  <1>4. decoded.samples = SaidOf(r, at) /\ decoded.decoder = Later(r, at).encoder
    BY SaidIsDecoded DEF Later
  <1> HIDE DEF decoded
  <1>5. frame = TruthOf(r, at)
    BY <1>4 DEF TruthOf, Stands
  <1>6. moved.decoder = Later(r, at).encoder /\ moved.codec = p.codec /\ DOMAIN moved = DOMAIN p
    BY <1>4 DEF Protocols
  <1> HIDE DEF moved
  <1>7. "frame_seq" \in DOMAIN moved
    BY <1>6 DEF Protocols
  <1>8. /\ next.decoder = Later(r, at).encoder /\ next.codec = p.codec
        /\ next.frame_seq = WrappingAdd(p.frame_seq, 1)
    BY <1>6, <1>7
  <1>9. at.n \in Nat
    BY DEF Ats
  <1>10. WrappingAdd(p.frame_seq, 1) = SeqOf(at.n + 1) /\ p.codec = at.codec
    BY <1>9, NextSeq DEF Stands
  <1> HIDE DEF next, frame
  <1>11. Stands(next, Later(r, at))
    BY <1>8, <1>10 DEF Stands, Later
  <1> QED
    BY <1>1, <1>2, <1>3, <1>5, <1>11

\* A whole frame of v0.4 brings all that is needed to decode it.
LEMMA FrameOfV04 ==
    ASSUME NEW r \in Remotes, Len(r.payload) = PayloadLen, ~Ten(r), NEW at \in Ats,
           NEW p \in Protocols, p.version = VersionOf(r), p.frame_size = SizeOf(r),
           p.codec = at.codec
    PROVE  DecodeAudio(p, FrameOf(r, at)).frame = Some(TruthOf(r, at))
  <1> DEFINE head == HeadOf(at)
             data == FrameOf(r, at)
             d == at.encoder
  <1>0. r.payload \in Seq(Bytes) /\ PayloadLen \in Nat
    BY Wires DEF Remotes
  <1>1. data = head \o r.payload
    BY DEF FrameOf
  <1>2. head \in Seq(Bytes) /\ Len(head) = 6
    BY MessagesAreBytes
  <1>3. /\ head[1] = Hi(SeqOf(at.n)) /\ head[2] = Lo(SeqOf(at.n))
        /\ head[4] = Hi(d.predictor) /\ head[5] = Lo(d.predictor) /\ head[6] = d.step_index
    BY DEF HeadOf
  <1>4. SizeOf(r) = PayloadLen + 6
    BY DEF SizeOf
  <1>5. data \in Seq(Bytes) /\ Len(data) = p.frame_size /\ Len(data) = PayloadLen + 6
    BY <1>4, FrameLength
  <1> HIDE DEF head, data
  <1>6. /\ \A i \in 1 .. 6 : data[i] = head[i]
        /\ \A i \in 1 .. PayloadLen : data[i + 6] = r.payload[i]
    <2>1. \A i \in 1 .. Len(head) + Len(r.payload) :
            (head \o r.payload)[i] = IF i <= Len(head) THEN head[i] ELSE r.payload[i - Len(head)]
      BY <1>0, <1>2, ConcatProperties
    <2>2. \A i \in 1 .. 6 + PayloadLen :
            data[i] = IF i <= 6 THEN head[i] ELSE r.payload[i - 6]
      BY <1>1, <1>2, <2>1, Zenon
    <2>3. ASSUME NEW i \in 1 .. 6 PROVE data[i] = head[i]
      <3>1. i \in 1 .. 6 + PayloadLen /\ i <= 6
        BY <1>0
      <3> QED
        BY <2>2, <3>1
    <2>4. ASSUME NEW i \in 1 .. PayloadLen PROVE data[i + 6] = r.payload[i]
      <3>1. i + 6 \in 1 .. 6 + PayloadLen /\ ~(i + 6 <= 6) /\ (i + 6) - 6 = i
        BY <1>0
      <3> QED
        BY <2>2, <3>1
    <2> QED
      BY <2>3, <2>4
  <1>7. SubSeq(data, 7, Len(data)) = r.payload
    <2>1. SubSeq(data, 7, Len(data)) \in Seq(Bytes) /\ Len(SubSeq(data, 7, Len(data))) = PayloadLen
      BY <1>0, <1>5
    <2>2. ASSUME NEW i \in 1 .. PayloadLen PROVE SubSeq(data, 7, Len(data))[i] = r.payload[i]
      <3>1. SubSeq(data, 7, Len(data))[i] = data[i + 6]
        BY <1>0, <1>5
      <3>2. data[i + 6] = r.payload[i]
        BY <1>6
      <3> QED
        BY <3>1, <3>2
    <2> QED
      BY <1>0, <2>1, <2>2, SeqEqual
  <1>8. U16(data, 1) = SeqOf(at.n)
    <2>1. U16(data, 1) = Word(data[1], data[2])
      BY ReadIs
    <2>2. at.n \in Nat
      BY DEF Ats
    <2> QED
      BY <1>3, <1>6, <2>1, <2>2, SeqsAreWords, BytesOfWord
  <1>9. d.predictor \in Sample /\ d.step_index \in 0 .. MaxStepIndex /\ d \in Decoders
    BY DEF Ats, Decoders
  <1>10. I16(data, 4) = d.predictor
    <2>1. I16(data, 4) = Signed(Word(data[4], data[5]))
      BY ReadIs
    <2> QED
      BY <1>3, <1>6, <1>9, <2>1, BytesOfSample
  <1>11. Reset(d.predictor, data[6]) = d
    BY <1>3, <1>6, <1>9, ResetKeeps
  <1> DEFINE decoded == DecodeBytes(d, r.payload)
             frame == [seq |-> SeqOf(at.n), codec |-> p.codec,
                       samples |-> <<d.predictor>> \o decoded.samples]
  <1>12. DecodeAudio(p, data) = DecodeV04(p, data)
    BY DEF DecodeAudio, VersionOf
  <1>13. Len(data) >= 6
    BY <1>0, <1>5
  <1> DEFINE whole == Some([seq |-> U16(data, 1), codec |-> p.codec,
                            samples |-> <<I16(data, 4)>> \o
                                DecodeBytes(Reset(I16(data, 4), data[6]),
                                            SubSeq(data, 7, Len(data))).samples])
  <1>14. DecodeV04(p, data).frame = whole
    BY <1>5, <1>13 DEF DecodeV04
  <1>17. whole = Some(frame)
    BY <1>7, <1>8, <1>10, <1>11, Zenon
  <1> HIDE DEF whole
  <1>15. decoded.samples = SaidOf(r, at)
    BY SaidIsDecoded
  <1>16. frame = TruthOf(r, at)
    BY <1>15 DEF TruthOf
  <1> HIDE DEF frame
  <1> QED
    BY <1>12, <1>14, <1>16, <1>17 DEF data

-----------------------------------------------------------------------------
(* The remote's steps.                                                     *)

\* What the bytes of a remote depend on; a v1.0 remote keeps its codec.
SameSelf(r, q) == q.version = r.version /\ q.codecs = r.codecs /\ q.payload = r.payload
SameWire(r, q) == SameSelf(r, q) /\ (Ten(r) => q.codec = r.codec)

LEMMA SameWireSameBytes ==
    ASSUME NEW r, NEW q, SameWire(r, q)
    PROVE  /\ Ten(q) = Ten(r) /\ SizeOf(q) = SizeOf(r) /\ VersionOf(q) = VersionOf(r)
           /\ CapsOf(q) = CapsOf(r) /\ StartOf(q) = StartOf(r) /\ StopsOf(q) = StopsOf(r)
           /\ \A at : /\ SyncOf(q, at) = SyncOf(r, at) /\ FrameOf(q, at) = FrameOf(r, at)
                      /\ TruthOf(q, at) = TruthOf(r, at) /\ Later(q, at) = Later(r, at)
  <1>1. Ten(q) = Ten(r)
    BY DEF SameWire, SameSelf, Ten
  <1>2. SizeOf(q) = SizeOf(r) /\ VersionOf(q) = VersionOf(r)
    BY <1>1 DEF SizeOf, VersionOf
  <1>3. CapsOf(q) = CapsOf(r)
    BY <1>1, <1>2, Zenon DEF SameWire, SameSelf, CapsOf
  <1>4. StopsOf(q) = StopsOf(r)
    BY <1>1 DEF StopsOf
  <1>5. StartOf(q) = StartOf(r)
    BY <1>1 DEF SameWire, SameSelf, StartOf
  <1>6. ASSUME NEW at
        PROVE  /\ SyncOf(q, at) = SyncOf(r, at) /\ FrameOf(q, at) = FrameOf(r, at)
               /\ TruthOf(q, at) = TruthOf(r, at) /\ Later(q, at) = Later(r, at)
    <2>1. SyncOf(q, at) = SyncOf(r, at)
      BY <1>1, Zenon DEF SyncOf
    <2>2. FrameOf(q, at) = FrameOf(r, at)
      BY <1>1, Zenon DEF FrameOf, SameWire, SameSelf
    <2>3. SaidOf(q, at) = SaidOf(r, at)
      BY Zenon DEF SaidOf, SameWire, SameSelf
    <2>4. TruthOf(q, at) = TruthOf(r, at)
      BY <1>1, <2>3, Zenon DEF TruthOf
    <2>5. Later(q, at) = Later(r, at)
      BY DEF Later, SameWire, SameSelf
    <2> QED
      BY <2>1, <2>2, <2>4, <2>5
  <1> QED
    BY <1>1, <1>2, <1>3, <1>4, <1>5, <1>6

AtOf(r) == [n |-> r.n, encoder |-> r.encoder, codec |-> r.codec]

LEMMA AtIs ==
    ASSUME NEW r \in Remotes PROVE AtOf(r) \in Ats
  BY DEF AtOf, Ats, Remotes

\* Two remotes differ at most in the fields `but`.
Alike(r, q, but) ==
    /\ SameSelf(r, q)
    /\ "codec" \notin but => q.codec = r.codec
    /\ "on" \notin but => q.on = r.on
    /\ "encoder" \notin but => q.encoder = r.encoder
    /\ "n" \notin but => q.n = r.n
    /\ "whole" \notin but => q.whole = r.whole
    /\ "frames" \notin but => q.frames = r.frames
    /\ "syncs" \notin but => q.syncs = r.syncs

LEMMA Answers ==
    ASSUME NEW r \in Remotes, NEW b \in BOOLEAN
    PROVE  LET q == [r EXCEPT !.answered = b]
           IN  /\ q \in Remotes /\ SameWire(r, q) /\ q.codec = r.codec
               /\ AtOf(q) = AtOf(r) /\ q.whole = r.whole /\ q.frames = r.frames
               /\ q.syncs = r.syncs /\ q.on = r.on
  BY DEF Remotes, SameWire, SameSelf, AtOf

LEMMA Stops ==
    ASSUME NEW r \in Remotes
    PROVE  LET q == [r EXCEPT !.on = FALSE]
           IN  /\ q \in Remotes /\ SameWire(r, q) /\ q.codec = r.codec
               /\ AtOf(q) = AtOf(r) /\ q.whole = r.whole /\ q.frames = r.frames
               /\ q.syncs = r.syncs /\ q.on = FALSE
  BY DEF Remotes, SameWire, SameSelf, AtOf

LEMMA Syncs ==
    ASSUME NEW r \in Remotes
    PROVE  LET q == [r EXCEPT !.syncs = @ + 1, !.whole = TRUE]
           IN  /\ q \in Remotes /\ SameWire(r, q) /\ q.codec = r.codec
               /\ AtOf(q) = AtOf(r) /\ q.whole = TRUE /\ q.frames = r.frames
               /\ q.syncs = r.syncs + 1 /\ q.on = r.on
  <1> DEFINE a == [r EXCEPT !.syncs = @ + 1]
             q == [a EXCEPT !.whole = TRUE]
  <1>1. a \in Remotes /\ Alike(r, a, {"syncs"}) /\ a.syncs = r.syncs + 1
    BY DEF Remotes, Alike, SameSelf
  <1> HIDE DEF a
  <1>2. q \in Remotes /\ Alike(a, q, {"whole"}) /\ q.whole = TRUE
    BY <1>1 DEF Remotes, Alike, SameSelf
  <1> HIDE DEF q
  <1>3. /\ q \in Remotes /\ SameWire(r, q) /\ q.codec = r.codec
        /\ AtOf(q) = AtOf(r) /\ q.whole = TRUE /\ q.frames = r.frames
        /\ q.syncs = r.syncs + 1 /\ q.on = r.on
    BY <1>1, <1>2 DEF Alike, SameWire, SameSelf, AtOf
  <1> QED
    BY <1>3 DEF a, q

Started(r, c, d) ==
    [r EXCEPT !.on = TRUE, !.streams = @ + 1, !.n = 0, !.whole = FALSE, !.codec = c,
              !.encoder = d]

Begins(q, c, d) ==
    q.codec = c /\ q.encoder = d /\ q.n = 0 /\ q.whole = FALSE /\ q.on = TRUE

LEMMA Starts ==
    ASSUME NEW r \in Remotes, NEW c \in Codecs, NEW d \in Decoders
    PROVE  /\ Started(r, c, d) \in Remotes
           /\ Alike(r, Started(r, c, d), {"codec", "on", "encoder", "n", "whole", "streams"})
           /\ Begins(Started(r, c, d), c, d)
  <1> DEFINE a1 == [r EXCEPT !.on = TRUE]
             a2 == [a1 EXCEPT !.streams = r.streams + 1]
             a3 == [a2 EXCEPT !.n = 0]
             a4 == [a3 EXCEPT !.whole = FALSE]
             a5 == [a4 EXCEPT !.codec = c]
             q == [a5 EXCEPT !.encoder = d]
  <1>1. a1 \in Remotes /\ Alike(r, a1, {"on"}) /\ a1.on = TRUE
    BY DEF Remotes, Alike, SameSelf
  <1> HIDE DEF a1
  <1>2. a2 \in Remotes /\ Alike(a1, a2, {"streams"})
    BY <1>1 DEF Remotes, Alike, SameSelf
  <1> HIDE DEF a2
  <1>3. a3 \in Remotes /\ Alike(a2, a3, {"n"}) /\ a3.n = 0
    BY <1>2 DEF Remotes, Alike, SameSelf
  <1> HIDE DEF a3
  <1>4. a4 \in Remotes /\ Alike(a3, a4, {"whole"}) /\ a4.whole = FALSE
    BY <1>3 DEF Remotes, Alike, SameSelf
  <1> HIDE DEF a4
  <1>5. a5 \in Remotes /\ Alike(a4, a5, {"codec"}) /\ a5.codec = c
    BY <1>4 DEF Remotes, Alike, SameSelf
  <1> HIDE DEF a5
  <1>6. q \in Remotes /\ Alike(a5, q, {"encoder"}) /\ q.encoder = d
    BY <1>5 DEF Remotes, Alike, SameSelf
  <1> HIDE DEF q
  <1>7. /\ q \in Remotes /\ Alike(r, q, {"codec", "on", "encoder", "n", "whole", "streams"})
        /\ Begins(q, c, d)
    BY <1>1, <1>2, <1>3, <1>4, <1>5, <1>6 DEF Begins, Alike, SameWire, SameSelf, AtOf
  <1> QED
    BY <1>7 DEF a1, a2, a3, a4, a5, q, Started

Spoke(r, d, b) == [r EXCEPT !.frames = @ + 1, !.n = @ + 1, !.encoder = d, !.whole = b]

LEMMA Speaks ==
    ASSUME NEW r \in Remotes, NEW d \in Decoders, NEW b \in BOOLEAN
    PROVE  LET q == Spoke(r, d, b)
           IN  /\ q \in Remotes /\ SameWire(r, q) /\ q.codec = r.codec
               /\ AtOf(q) = [n |-> r.n + 1, encoder |-> d, codec |-> r.codec] /\ q.whole = b
               /\ q.frames = r.frames + 1 /\ q.syncs = r.syncs /\ q.on = r.on
  <1> DEFINE f == r.frames + 1
             k == r.n + 1
  <1>0. f \in Nat /\ k \in Nat
    BY DEF Remotes
  <1> HIDE DEF f, k
  <1> DEFINE a1 == [r EXCEPT !.frames = f]
             a2 == [a1 EXCEPT !.n = k]
             a3 == [a2 EXCEPT !.encoder = d]
             q == [a3 EXCEPT !.whole = b]
  <1>1. a1 \in Remotes /\ Alike(r, a1, {"frames"}) /\ a1.frames = f
    BY <1>0 DEF Remotes, Alike, SameSelf
  <1> HIDE DEF a1
  <1>2. a2 \in Remotes /\ Alike(a1, a2, {"n"}) /\ a2.n = k
    BY <1>0, <1>1 DEF Remotes, Alike, SameSelf
  <1> HIDE DEF a2
  <1>3. a3 \in Remotes /\ Alike(a2, a3, {"encoder"}) /\ a3.encoder = d
    BY <1>2 DEF Remotes, Alike, SameSelf
  <1> HIDE DEF a3
  <1>4. q \in Remotes /\ Alike(a3, q, {"whole"}) /\ q.whole = b
    BY <1>3 DEF Remotes, Alike, SameSelf
  <1> HIDE DEF q
  <1>5. /\ q \in Remotes /\ SameWire(r, q) /\ q.codec = r.codec
        /\ AtOf(q) = [n |-> k, encoder |-> d, codec |-> r.codec] /\ q.whole = b
        /\ q.frames = f /\ q.syncs = r.syncs /\ q.on = r.on
    BY <1>1, <1>2, <1>3, <1>4 DEF Alike, SameWire, SameSelf, AtOf
  <1> QED
    BY <1>5 DEF a1, a2, a3, q, f, k, Spoke

-----------------------------------------------------------------------------
(* Notifications on their way.                                             *)

Messages == [chan : {"ctl", "rx"}, data : Seq(Bytes), at : Ats, whole : BOOLEAN,
             overtaken : BOOLEAN]

LEMMA Appended ==
    ASSUME NEW l \in Seq(Messages), NEW m \in Messages
    PROVE  /\ Append(l, m) \in Seq(Messages) /\ Len(Append(l, m)) = Len(l) + 1
           /\ Append(l, m)[Len(l) + 1] = m
           /\ \A i \in 1 .. Len(l) : Append(l, m)[i] = l[i]
  OBVIOUS

Without(l, i) ==
    [j \in 1 .. Len(l) - 1 |-> IF j < i THEN [l[j] EXCEPT !.overtaken = TRUE] ELSE l[j + 1]]
Old(i, j) == IF j < i THEN j ELSE j + 1

LEMMA Removed ==
    ASSUME NEW l \in Seq(Messages), NEW i \in 1 .. Len(l)
    PROVE  /\ Without(l, i) \in Seq(Messages) /\ Len(Without(l, i)) = Len(l) - 1
           /\ \A j \in 1 .. Len(l) - 1 :
                LET m == Without(l, i)[j]
                    old == l[Old(i, j)]
                IN  /\ Old(i, j) \in 1 .. Len(l) /\ Old(i, j) # i
                    /\ m.chan = old.chan /\ m.data = old.data /\ m.at = old.at
                    /\ m.whole = old.whole /\ m.overtaken = (j < i \/ old.overtaken)
  <1>1. ASSUME NEW j \in 1 .. Len(l) - 1
        PROVE  LET m == Without(l, i)[j]
                   old == l[Old(i, j)]
               IN  /\ Old(i, j) \in 1 .. Len(l) /\ Old(i, j) # i
                   /\ m \in Messages
                   /\ m.chan = old.chan /\ m.data = old.data /\ m.at = old.at
                   /\ m.whole = old.whole /\ m.overtaken = (j < i \/ old.overtaken)
    <2> DEFINE m == Without(l, i)[j]
               old == l[Old(i, j)]
    <2>1. Old(i, j) \in 1 .. Len(l) /\ Old(i, j) # i
      BY DEF Old
    <2>2. old \in Messages
      BY <2>1
    <2>3. m = IF j < i THEN [old EXCEPT !.overtaken = TRUE] ELSE old
      BY DEF Without, Old
    <2> HIDE DEF m, old
    <2>4. CASE j < i
      <3>1. m = [old EXCEPT !.overtaken = TRUE]
        BY <2>3, <2>4
      <3>2. /\ m \in Messages /\ m.overtaken = TRUE
            /\ m.chan = old.chan /\ m.data = old.data /\ m.at = old.at /\ m.whole = old.whole
        BY <2>2, <3>1 DEF Messages
      <3> QED
        BY <2>1, <2>4, <3>2 DEF m, old
    <2>5. CASE ~(j < i)
      <3>1. m = old
        BY <2>3, <2>5
      <3> QED
        BY <2>1, <2>2, <2>5, <3>1 DEF m, old, Messages
    <2> QED
      BY <2>4, <2>5
  <1>2. \A j \in 1 .. Len(l) - 1 : Without(l, i)[j] \in Messages
    BY <1>1
  <1>3. /\ Len(l) - 1 \in Nat /\ DOMAIN Without(l, i) = 1 .. Len(l) - 1
    BY DEF Without
  <1>4. Without(l, i) \in Seq(Messages) /\ Len(Without(l, i)) = Len(l) - 1
    <2>1. Without(l, i) = [j \in 1 .. Len(l) - 1 |-> Without(l, i)[j]]
      BY DEF Without
    <2> QED
      BY <1>2, <1>3, <2>1
  <1> QED
    BY <1>1, <1>4

-----------------------------------------------------------------------------
(* What always holds: the remote, the messages on their way and the object *)
(* fit each other.                                                         *)

RemoteOK(r, p) ==
    /\ r \in Remotes /\ Len(r.payload) = PayloadLen
    /\ r.n <= r.frames /\ r.frames <= MaxFrames
    /\ Ten(r) /\ CodecsOf(r.codecs) # {} => r.codec \in CodecsOf(r.codecs)
    /\ r.on => p # None
    /\ r.on /\ ~Ten(r) => r.codec = p[1].codec

MessageOK(r, p, m) ==
    /\ m \in Messages
    /\ m.chan = "ctl" => \/ m.data \in {CapsOf(r), StartOf(r)} \cup StopsOf(r)
                         \/ /\ m.data = SyncOf(r, m.at) /\ r.syncs > 0
                            /\ Ten(r) => m.at.codec = r.codec
    /\ m.chan = "rx" => /\ m.data \in {FrameOf(r, m.at), Cut(FrameOf(r, m.at))}
                        /\ p # None
                        /\ ~Ten(r) => m.at.codec = p[1].codec
                        /\ m.at.n < MaxFrames

ObjectOK(r, p) ==
    p # None =>
      /\ p[1] \in Protocols /\ p = Some(p[1])
      /\ p[1].version = VersionOf(r) /\ p[1].frame_size = SizeOf(r)
      /\ p[1].codec \in CodecsOf(r.codecs)
      /\ r.syncs = 0 /\ "Adpcm16kHz" \in CodecsOf(r.codecs) => p[1].codec = "Adpcm16kHz"

Base ==
    /\ RemoteOK(remote, protocol)
    /\ link \in Seq(Messages)
    /\ \A i \in 1 .. Len(link) : MessageOK(remote, protocol, link[i])
    /\ ObjectOK(remote, protocol)
    /\ refused \in BOOLEAN /\ streaming \in BOOLEAN /\ synced \in BOOLEAN
    /\ refused => CodecsOf(remote.codecs) = {}
    /\ lastSeq # None => lastSeq[1] \in Words /\ lastSeq = Some(lastSeq[1])
    /\ streaming => protocol # None
    /\ heard # None => heard[1].frame.samples \in Seq(Sample)

LEMMA MessageStaysOK ==
    ASSUME NEW r, NEW q, NEW p, NEW o, NEW m, NEW w,
           r \in Remotes, q \in Remotes, SameWire(r, q), q.syncs >= r.syncs,
           p # None => o # None /\ (~Ten(r) => o[1].codec = p[1].codec),
           MessageOK(r, p, m), w \in Messages, w.chan = m.chan, w.data = m.data, w.at = m.at
    PROVE  MessageOK(q, o, w)
  <1>1. r.syncs > 0 => q.syncs > 0
    BY DEF Remotes
  <1>2. Ten(r) => q.codec = r.codec
    BY DEF SameWire, SameSelf
  <1>3. /\ Ten(q) = Ten(r) /\ CapsOf(q) = CapsOf(r) /\ StartOf(q) = StartOf(r)
        /\ StopsOf(q) = StopsOf(r)
        /\ SyncOf(q, m.at) = SyncOf(r, m.at) /\ FrameOf(q, m.at) = FrameOf(r, m.at)
    BY SameWireSameBytes
  <1> QED
    BY <1>1, <1>2, <1>3, Zenon DEF MessageOK

\* What every step of the remote has in common.
LEMMA RemoteKeepsBase ==
    ASSUME Base, RemoteStep, SameWire(remote, remote'), remote'.syncs >= remote.syncs,
           RemoteOK(remote', protocol),
           \/ link' = link
           \/ \E m : MessageOK(remote', protocol, m) /\ link' = Append(link, m)
    PROVE  Base'
  <1>1. remote \in Remotes /\ remote' \in Remotes /\ link \in Seq(Messages)
    BY DEF Base, RemoteOK
  <1>2. protocol' = protocol /\ refused' = refused /\ streaming' = streaming
        /\ lastSeq' = lastSeq /\ synced' = synced /\ heard' = None
    BY DEF RemoteStep
  <1>3. \A i \in 1 .. Len(link) : MessageOK(remote', protocol, link[i])
    <2> SUFFICES ASSUME NEW i \in 1 .. Len(link) PROVE MessageOK(remote', protocol, link[i])
      OBVIOUS
    <2>1. MessageOK(remote, protocol, link[i]) /\ link[i] \in Messages
      BY <1>1 DEF Base
    <2> QED
      BY <1>1, <2>1, MessageStaysOK
  <1>4. link' \in Seq(Messages) /\ \A i \in 1 .. Len(link') : MessageOK(remote', protocol', link'[i])
    <2>1. CASE link' = link
      BY <1>1, <1>2, <1>3, <2>1
    <2>2. CASE \E m : MessageOK(remote', protocol, m) /\ link' = Append(link, m)
      <3>1. PICK m : MessageOK(remote', protocol, m) /\ link' = Append(link, m)
        BY <2>2
      <3>2. m \in Messages
        BY <3>1 DEF MessageOK
      <3>3. /\ link' \in Seq(Messages) /\ Len(link') = Len(link) + 1 /\ link'[Len(link) + 1] = m
            /\ \A i \in 1 .. Len(link) : link'[i] = link[i]
        BY <1>1, <3>1, <3>2, Appended
      <3>4. ASSUME NEW i \in 1 .. Len(link') PROVE MessageOK(remote', protocol, link'[i])
        <4>1. i \in 1 .. Len(link) \/ i = Len(link) + 1
          BY <1>1, <3>3
        <4> QED
          BY <1>3, <3>1, <3>3, <4>1
      <3> QED
        BY <1>2, <3>3, <3>4
    <2> QED
      BY <2>1, <2>2
  <1>5. ObjectOK(remote', protocol')
    <2>1. SizeOf(remote') = SizeOf(remote) /\ VersionOf(remote') = VersionOf(remote)
      BY SameWireSameBytes
    <2>2. remote'.syncs = 0 => remote.syncs = 0
      BY <1>1 DEF Remotes
    <2>3. remote'.codecs = remote.codecs
      BY DEF SameWire, SameSelf
    <2> QED
      BY <1>2, <2>1, <2>2, <2>3 DEF Base, ObjectOK
  <1>6. remote'.codecs = remote.codecs
    BY DEF SameWire, SameSelf
  <1> QED
    BY <1>2, <1>4, <1>5, <1>6 DEF Base

Note(chan, data, r) ==
    [chan |-> chan, data |-> data, at |-> AtOf(r), whole |-> r.whole, overtaken |-> FALSE]

LEMMA NoteIsMessage ==
    ASSUME NEW chan \in {"ctl", "rx"}, NEW data \in Seq(Bytes), NEW r \in Remotes
    PROVE  LET m == Note(chan, data, r)
           IN  m \in Messages /\ m.chan = chan /\ m.data = data /\ m.at = AtOf(r)
               /\ m.whole = r.whole /\ ~m.overtaken
  <1>1. AtOf(r) \in Ats
    BY AtIs
  <1>2. r.whole \in BOOLEAN
    BY DEF Remotes
  <1> QED
    BY <1>1, <1>2 DEF Messages, Note

LEMMA SendsIs ==
    ASSUME NEW chan, NEW data, Sends(chan, data)
    PROVE  link' = Append(link, Note(chan, data, remote))
  BY DEF Sends, At, AtOf, Note

LEMMA CapsAreSent ==
    ASSUME Base, RemoteAnswersCaps
    PROVE  /\ link' = Append(link, Note("ctl", CapsOf(remote), remote))
           /\ remote' \in Remotes /\ SameWire(remote, remote') /\ remote'.codec = remote.codec
           /\ AtOf(remote') = AtOf(remote) /\ remote'.whole = remote.whole
           /\ remote'.frames = remote.frames /\ remote'.syncs = remote.syncs
           /\ remote'.on = remote.on
  <1>1. remote \in Remotes
    BY DEF Base, RemoteOK
  <1>2. /\ remote' = [remote EXCEPT !.answered = (protocol # None)] /\ (protocol # None) \in BOOLEAN
        /\ Sends("ctl", CapsBytes)
    BY DEF RemoteAnswersCaps
  <1> QED
    BY <1>1, <1>2, Answers, SendsIs, BytesAreOf

LEMMA BaseAnswersCaps ==
    ASSUME Base, RemoteAnswersCaps PROVE Base'
  <1> DEFINE m == Note("ctl", CapsOf(remote), remote)
  <1>1. remote \in Remotes /\ RemoteOK(remote, protocol)
    BY DEF Base, RemoteOK
  <1>2. /\ link' = Append(link, m)
        /\ remote' \in Remotes /\ SameWire(remote, remote') /\ remote'.codec = remote.codec
        /\ AtOf(remote') = AtOf(remote) /\ remote'.frames = remote.frames
        /\ remote'.syncs = remote.syncs /\ remote'.on = remote.on
    BY CapsAreSent
  <1>3. CapsOf(remote') = CapsOf(remote) /\ Ten(remote') = Ten(remote)
    BY <1>2, SameWireSameBytes
  <1>4. MessageOK(remote', protocol, m)
    <2>1. CapsOf(remote) \in Seq(Bytes)
      BY <1>1, MessagesAreBytes
    <2>2. m \in Messages /\ m.chan = "ctl" /\ m.data = CapsOf(remote)
      BY <1>1, <2>1, NoteIsMessage
    <2> HIDE DEF m
    <2> QED
      BY <1>3, <2>2 DEF MessageOK
  <1>5. RemoteOK(remote', protocol)
    <2>1. remote'.n = remote.n
      BY <1>2 DEF AtOf
    <2> QED
      BY <1>1, <1>2, <1>3, <2>1 DEF RemoteOK, SameWire, SameSelf
  <1>6. remote'.syncs >= remote.syncs /\ RemoteStep
    BY <1>1, <1>2 DEF Remotes, RemoteAnswersCaps
  <1> HIDE DEF m
  <1> QED
    BY <1>2, <1>4, <1>5, <1>6, RemoteKeepsBase

\* A v0.4 remote takes the codec of the MIC_OPEN it was sent.
LEMMA StartCodec ==
    ASSUME Base, protocol # None
    PROVE  LET c == IF Wire10 THEN remote.codec ELSE CodecOf(MicOpenBytes(protocol[1])[3])
           IN  c \in Codecs /\ (Ten(remote) => c = remote.codec)
               /\ (~Ten(remote) => c = protocol[1].codec)
  <1>1. remote.codec \in Codecs
    BY DEF Base, RemoteOK, Remotes
  <1>2. protocol[1] \in Protocols /\ protocol[1].version = VersionOf(remote)
    BY DEF Base, ObjectOK
  <1>3. protocol[1].codec \in Codecs
    BY <1>2 DEF Protocols
  <1>4. Wire10 = Ten(remote)
    BY BytesAreOf
  <1>5. CASE Ten(remote)
    BY <1>1, <1>4, <1>5
  <1>6. CASE ~Ten(remote)
    <2>1. MicOpenBytes(protocol[1]) = <<MicOpen, 0, CodecByte(protocol[1].codec)>>
      BY <1>2, <1>6 DEF MicOpenBytes, VersionOf
    <2>2. MicOpenBytes(protocol[1])[3] = CodecByte(protocol[1].codec)
      BY <2>1
    <2>3. CodecOf(MicOpenBytes(protocol[1])[3]) = protocol[1].codec
      BY <1>3, <2>2, CodecsAre
    <2> QED
      BY <1>3, <1>4, <1>6, <2>3
  <1> QED
    BY <1>5, <1>6

LEMMA StartIsSent ==
    ASSUME Base, RemoteStarts
    PROVE  /\ link' = Append(link, Note("ctl", StartOf(remote), remote))
           /\ remote' \in Remotes /\ SameWire(remote, remote')
           /\ ~Ten(remote) => remote'.codec = protocol[1].codec
           /\ remote'.n = 0 /\ remote'.whole = FALSE
           /\ remote'.frames = remote.frames /\ remote'.syncs = remote.syncs
           /\ remote'.on = TRUE
  <1> DEFINE c == IF Wire10 THEN remote.codec ELSE CodecOf(MicOpenBytes(protocol[1])[3])
             d == [predictor |-> 0, step_index |-> remote.start]
  <1>1. remote \in Remotes
    BY DEF Base, RemoteOK
  <1>2. protocol # None /\ remote' = Started(remote, c, d) /\ Sends("ctl", StartBytes)
    BY DEF RemoteStarts, Started
  <1>3. /\ c \in Codecs /\ (Ten(remote) => c = remote.codec)
        /\ (~Ten(remote) => c = protocol[1].codec)
    BY <1>2, StartCodec
  <1>4. d \in Decoders
    <2>1. remote.start \in 0 .. MaxStepIndex
      BY <1>1 DEF Remotes
    <2>2. 0 \in Sample
      BY SamplesAre
    <2> QED
      BY <2>1, <2>2 DEF Decoders
  <1> HIDE DEF c, d
  <1>5. /\ remote' \in Remotes /\ Begins(remote', c, d)
        /\ Alike(remote, remote', {"codec", "on", "encoder", "n", "whole", "streams"})
    BY <1>1, <1>2, <1>3, <1>4, Starts
  <1>6. SameWire(remote, remote')
    BY <1>3, <1>5 DEF SameWire, SameSelf, Alike, Begins
  <1>7. /\ ~Ten(remote) => remote'.codec = protocol[1].codec
        /\ remote'.n = 0 /\ remote'.whole = FALSE /\ remote'.on = TRUE
        /\ remote'.frames = remote.frames /\ remote'.syncs = remote.syncs
    BY <1>3, <1>5 DEF Alike, Begins
  <1>8. link' = Append(link, Note("ctl", StartOf(remote), remote))
    BY <1>2, SendsIs, BytesAreOf
  <1> QED
    BY <1>5, <1>6, <1>7, <1>8

LEMMA BaseStarts ==
    ASSUME Base, RemoteStarts PROVE Base'
  <1> DEFINE m == Note("ctl", StartOf(remote), remote)
  <1>1. remote \in Remotes /\ RemoteOK(remote, protocol) /\ protocol # None /\ RemoteStep
    BY DEF Base, RemoteOK, RemoteStarts
  <1>2. /\ link' = Append(link, m)
        /\ remote' \in Remotes /\ SameWire(remote, remote')
        /\ ~Ten(remote) => remote'.codec = protocol[1].codec
        /\ remote'.n = 0
        /\ remote'.frames = remote.frames /\ remote'.syncs = remote.syncs
        /\ remote'.on = TRUE
    BY StartIsSent
  <1>3. StartOf(remote') = StartOf(remote) /\ Ten(remote') = Ten(remote)
    BY <1>2, SameWireSameBytes
  <1>4. MessageOK(remote', protocol, m)
    <2>1. StartOf(remote) \in Seq(Bytes)
      BY <1>1, MessagesAreBytes
    <2>2. m \in Messages /\ m.chan = "ctl" /\ m.data = StartOf(remote)
      BY <1>1, <2>1, NoteIsMessage
    <2> HIDE DEF m
    <2> QED
      BY <1>3, <2>2 DEF MessageOK
  <1>5. RemoteOK(remote', protocol)
    <2>1. remote.frames \in Nat
      BY <1>1 DEF Remotes
    <2> QED
      BY <1>1, <1>2, <1>3, <2>1 DEF RemoteOK, SameWire, SameSelf
  <1>6. remote'.syncs >= remote.syncs
    BY <1>1, <1>2 DEF Remotes
  <1> HIDE DEF m
  <1> QED
    BY <1>1, <1>2, <1>4, <1>5, <1>6, RemoteKeepsBase

LEMMA SyncIsSent ==
    ASSUME Base, RemoteSyncs
    PROVE  /\ link' = Append(link, Note("ctl", SyncOf(remote, AtOf(remote)), remote))
           /\ remote' \in Remotes /\ SameWire(remote, remote') /\ remote'.codec = remote.codec
           /\ AtOf(remote') = AtOf(remote) /\ remote'.frames = remote.frames
           /\ remote'.syncs = remote.syncs + 1 /\ remote'.on = remote.on
  <1>1. remote \in Remotes
    BY DEF Base, RemoteOK
  <1>2. /\ remote' = [remote EXCEPT !.syncs = @ + 1, !.whole = TRUE]
        /\ Sends("ctl", SyncBytes(At))
    BY DEF RemoteSyncs
  <1>3. SyncBytes(At) = SyncOf(remote, AtOf(remote))
    BY BytesAreOf DEF At, AtOf
  <1> QED
    BY <1>1, <1>2, <1>3, Syncs, SendsIs

LEMMA BaseSyncs ==
    ASSUME Base, RemoteSyncs PROVE Base'
  <1> DEFINE data == SyncOf(remote, AtOf(remote))
             m == Note("ctl", data, remote)
  <1>1. remote \in Remotes /\ RemoteOK(remote, protocol) /\ RemoteStep
    BY DEF Base, RemoteOK, RemoteSyncs
  <1>2. /\ link' = Append(link, m)
        /\ remote' \in Remotes /\ SameWire(remote, remote') /\ remote'.codec = remote.codec
        /\ AtOf(remote') = AtOf(remote) /\ remote'.frames = remote.frames
        /\ remote'.syncs = remote.syncs + 1 /\ remote'.on = remote.on
    BY SyncIsSent
  <1>3. SyncOf(remote', AtOf(remote)) = data /\ Ten(remote') = Ten(remote)
    BY <1>2, SameWireSameBytes
  <1>4. remote.syncs \in Nat
    BY <1>1 DEF Remotes
  <1>5. MessageOK(remote', protocol, m)
    <2>1. AtOf(remote) \in Ats /\ AtOf(remote).codec = remote.codec
      BY <1>1, AtIs DEF AtOf
    <2>2. data \in Seq(Bytes)
      BY <1>1, <2>1, MessagesAreBytes
    <2>3. m \in Messages /\ m.chan = "ctl" /\ m.data = data /\ m.at = AtOf(remote)
      BY <1>1, <2>2, NoteIsMessage
    <2>4. remote'.syncs > 0
      BY <1>2, <1>4
    <2> HIDE DEF m
    <2> QED
      BY <1>2, <1>3, <2>1, <2>3, <2>4 DEF MessageOK
  <1>6. RemoteOK(remote', protocol)
    <2>1. remote'.n = remote.n
      BY <1>2 DEF AtOf
    <2> QED
      BY <1>1, <1>2, <1>3, <2>1 DEF RemoteOK, SameWire, SameSelf
  <1>7. remote'.syncs >= remote.syncs
    BY <1>2, <1>4
  <1> HIDE DEF m
  <1> QED
    BY <1>1, <1>2, <1>5, <1>6, <1>7, RemoteKeepsBase

LEMMA StopIsSent ==
    ASSUME Base, RemoteStops
    PROVE  \E data \in StopsOf(remote) :
             /\ link' = Append(link, Note("ctl", data, remote))
             /\ remote' \in Remotes /\ SameWire(remote, remote') /\ remote'.codec = remote.codec
             /\ AtOf(remote') = AtOf(remote) /\ remote'.whole = remote.whole
             /\ remote'.frames = remote.frames
             /\ remote'.syncs = remote.syncs /\ remote'.on = FALSE
  <1>1. remote \in Remotes /\ remote' = [remote EXCEPT !.on = FALSE]
    BY DEF Base, RemoteOK, RemoteStops
  <1>2. PICK data \in StopBytes : Sends("ctl", data)
    BY DEF RemoteStops
  <1>3. data \in StopsOf(remote)
    BY <1>2, BytesAreOf
  <1> QED
    BY <1>1, <1>2, <1>3, Stops, SendsIs

LEMMA BaseStops ==
    ASSUME Base, RemoteStops PROVE Base'
  <1>1. remote \in Remotes /\ RemoteOK(remote, protocol) /\ RemoteStep
    BY DEF Base, RemoteOK, RemoteStops
  <1>2. PICK data \in StopsOf(remote) :
          /\ link' = Append(link, Note("ctl", data, remote))
          /\ remote' \in Remotes /\ SameWire(remote, remote') /\ remote'.codec = remote.codec
          /\ AtOf(remote') = AtOf(remote) /\ remote'.frames = remote.frames
          /\ remote'.syncs = remote.syncs /\ remote'.on = FALSE
    BY StopIsSent
  <1> DEFINE m == Note("ctl", data, remote)
  <1>3. StopsOf(remote') = StopsOf(remote) /\ Ten(remote') = Ten(remote)
    BY <1>2, SameWireSameBytes
  <1>4. MessageOK(remote', protocol, m)
    <2>1. data \in Seq(Bytes)
      BY <1>1, MessagesAreBytes
    <2>2. m \in Messages /\ m.chan = "ctl" /\ m.data = data
      BY <1>1, <2>1, NoteIsMessage
    <2> HIDE DEF m
    <2> QED
      BY <1>3, <2>2 DEF MessageOK
  <1>5. RemoteOK(remote', protocol)
    <2>1. remote'.n = remote.n
      BY <1>2 DEF AtOf
    <2> QED
      BY <1>1, <1>2, <1>3, <2>1 DEF RemoteOK, SameWire, SameSelf
  <1>6. remote'.syncs >= remote.syncs
    BY <1>1, <1>2 DEF Remotes
  <1>7. link' = Append(link, m)
    BY <1>2
  <1> HIDE DEF m
  <1> QED
    BY <1>1, <1>2, <1>4, <1>5, <1>6, <1>7, RemoteKeepsBase

Spoiled(fate, data) == IF fate = "cut" THEN Cut(data) ELSE data

LEMMA FrameIsSent ==
    ASSUME Base, NEW fate, RemoteSpeaks(fate)
    PROVE  /\ link' = IF fate = "lost"
                        THEN link
                        ELSE Append(link, Note("rx", Spoiled(fate, FrameOf(remote, AtOf(remote))),
                                               remote))
           /\ remote' \in Remotes /\ SameWire(remote, remote') /\ remote'.codec = remote.codec
           /\ AtOf(remote') = Later(remote, AtOf(remote))
           /\ remote'.whole = (remote.whole /\ fate = "arrives")
           /\ remote'.frames = remote.frames + 1
           /\ remote'.syncs = remote.syncs /\ remote'.on = remote.on
  <1> DEFINE at == AtOf(remote)
             d == Spoken(remote.encoder, remote.payload)[2 * PayloadLen]
             b == remote.whole /\ fate = "arrives"
  <1>1. remote \in Remotes /\ Len(remote.payload) = PayloadLen
    BY DEF Base, RemoteOK
  <1>2. remote' = Spoke(remote, d, b)
    BY DEF RemoteSpeaks, Spoke
  <1>3. at \in Ats /\ at.codec = remote.codec /\ at.n = remote.n /\ at.encoder = remote.encoder
    BY <1>1, AtIs DEF AtOf
  <1>4. d \in Decoders
    <2>1. DecodeBytes(at.encoder, remote.payload).decoder = d
      BY <1>1, <1>3, SaidIsDecoded
    <2>2. at.encoder \in Decoders /\ remote.payload \in Seq(Bytes)
      BY <1>1, <1>3 DEF Ats, Remotes
    <2> QED
      BY <2>1, <2>2, FrameStaysInRange
  <1>5. b \in BOOLEAN
    OBVIOUS
  <1>6. Later(remote, at) = [n |-> remote.n + 1, encoder |-> d, codec |-> remote.codec]
    BY <1>3 DEF Later
  <1> HIDE DEF d, b
  <1>7. /\ remote' \in Remotes /\ SameWire(remote, remote') /\ remote'.codec = remote.codec
        /\ AtOf(remote') = [n |-> remote.n + 1, encoder |-> d, codec |-> remote.codec]
        /\ remote'.whole = b /\ remote'.frames = remote.frames + 1
        /\ remote'.syncs = remote.syncs /\ remote'.on = remote.on
    BY <1>1, <1>2, <1>4, <1>5, Speaks
  <1>8. FrameBytes(At) = FrameOf(remote, at)
    BY BytesAreOf DEF At, AtOf
  <1>9. CASE fate = "lost"
    BY <1>6, <1>7, <1>9 DEF RemoteSpeaks, b
  <1>10. CASE fate # "lost"
    <2>1. Sends("rx", Spoiled(fate, FrameOf(remote, at)))
      BY <1>8, <1>10 DEF RemoteSpeaks, Spoiled
    <2>2. link' = Append(link, Note("rx", Spoiled(fate, FrameOf(remote, at)), remote))
      BY <2>1, SendsIs
    <2> QED
      BY <1>6, <1>7, <1>10, <2>2 DEF b
  <1> QED
    BY <1>9, <1>10

LEMMA BaseSpeaks ==
    ASSUME Base, NEW fate, RemoteSpeaks(fate) PROVE Base'
  <1> DEFINE at == AtOf(remote)
             data == Spoiled(fate, FrameOf(remote, at))
             m == Note("rx", data, remote)
  <1>1. remote \in Remotes /\ RemoteOK(remote, protocol) /\ Len(remote.payload) = PayloadLen
    BY DEF Base, RemoteOK
  <1>2. remote.on /\ remote.frames < MaxFrames /\ RemoteStep
    BY DEF RemoteSpeaks
  <1>3. /\ link' = IF fate = "lost" THEN link ELSE Append(link, m)
        /\ remote' \in Remotes /\ SameWire(remote, remote') /\ remote'.codec = remote.codec
        /\ AtOf(remote') = Later(remote, at) /\ remote'.frames = remote.frames + 1
        /\ remote'.syncs = remote.syncs /\ remote'.on = remote.on
    BY FrameIsSent
  <1>4. at \in Ats /\ at.codec = remote.codec /\ at.n = remote.n
    BY <1>1, AtIs DEF AtOf
  <1>5. FrameOf(remote', at) = FrameOf(remote, at) /\ Ten(remote') = Ten(remote)
    BY <1>3, SameWireSameBytes
  <1>6. remote.n \in Nat /\ remote.frames \in Nat /\ remote.syncs \in Nat /\ MaxFrames \in Nat
    BY <1>1, Wires DEF Remotes
  <1>7. MessageOK(remote', protocol, m)
    <2>1. data \in Seq(Bytes) /\ data \in {FrameOf(remote', at), Cut(FrameOf(remote', at))}
      BY <1>1, <1>4, <1>5, FrameLength DEF Spoiled
    <2>2. m \in Messages /\ m.chan = "rx" /\ m.data = data /\ m.at = at
      BY <1>1, <2>1, NoteIsMessage
    <2>3. at.n < MaxFrames
      BY <1>1, <1>2, <1>4, <1>6 DEF RemoteOK
    <2>4. protocol # None /\ (~Ten(remote') => at.codec = protocol[1].codec)
      BY <1>1, <1>2, <1>4, <1>5 DEF RemoteOK
    <2> HIDE DEF m, data, at
    <2> QED
      BY <2>1, <2>2, <2>3, <2>4 DEF MessageOK
  <1>8. RemoteOK(remote', protocol)
    <2>1. remote'.n = remote.n + 1
      BY <1>3, <1>4 DEF AtOf, Later
    <2>2. remote.n + 1 <= remote.frames + 1 /\ remote.frames + 1 <= MaxFrames
      BY <1>1, <1>2, <1>6 DEF RemoteOK
    <2> QED
      BY <1>1, <1>2, <1>3, <1>5, <2>1, <2>2 DEF RemoteOK, SameWire, SameSelf
  <1>9. remote'.syncs >= remote.syncs
    BY <1>3, <1>6
  <1>10. link' = link \/ link' = Append(link, m)
    BY <1>3
  <1> HIDE DEF m
  <1> QED
    BY <1>2, <1>3, <1>7, <1>8, <1>9, <1>10, RemoteKeepsBase

\* Opcodes tell the remote's notifications apart.
LEMMA FirstBytes ==
    ASSUME NEW r
    PROVE  /\ CapsOf(r)[1] = CapsResp /\ StartOf(r)[1] = AudioStart
           /\ \A data \in StopsOf(r) : data[1] \in {AudioStop, StartSearch}
           /\ \A at : SyncOf(r, at)[1] = AudioSync
  BY DEF CapsOf, StartOf, StopsOf, SyncOf

LEMMA OpcodesDiffer ==
    /\ AudioStart # CapsResp /\ AudioSync # CapsResp /\ AudioStop # CapsResp
    /\ StartSearch # CapsResp /\ AudioStart # AudioSync /\ AudioStop # AudioSync
    /\ StartSearch # AudioSync
  BY DEF AudioStart, AudioSync, AudioStop, CapsResp, StartSearch

\* What every step that takes a notification has in common.
LEMMA TakesKeepsLink ==
    ASSUME Base, NEW i \in 1 .. Len(link), Takes(i),
           protocol # None
             => protocol' # None /\ (~Ten(remote) => protocol'[1].codec = protocol[1].codec)
    PROVE  /\ remote' = remote /\ link' = Without(link, i)
           /\ RemoteOK(remote', protocol') /\ link' \in Seq(Messages)
           /\ \A j \in 1 .. Len(link') : MessageOK(remote', protocol', link'[j])
  <1>1. remote' = remote /\ link' = Without(link, i)
    BY DEF Takes, Without
  <1>2. remote \in Remotes /\ link \in Seq(Messages)
    BY DEF Base, RemoteOK
  <1>3. /\ link' \in Seq(Messages) /\ Len(link') = Len(link) - 1
        /\ \A j \in 1 .. Len(link) - 1 :
             LET m == link'[j]
                 old == link[Old(i, j)]
             IN  /\ Old(i, j) \in 1 .. Len(link)
                 /\ m.chan = old.chan /\ m.data = old.data /\ m.at = old.at
    BY <1>1, <1>2, Removed
  <1>4. ASSUME NEW j \in 1 .. Len(link') PROVE MessageOK(remote, protocol', link'[j])
    <2> DEFINE m == link'[j]
               old == link[Old(i, j)]
    <2>1. /\ Old(i, j) \in 1 .. Len(link) /\ m \in Messages
          /\ m.chan = old.chan /\ m.data = old.data /\ m.at = old.at
      BY <1>3
    <2>2. MessageOK(remote, protocol, old)
      BY <2>1 DEF Base
    <2>3. SameWire(remote, remote) /\ remote.syncs >= remote.syncs
      BY <1>2 DEF SameWire, SameSelf, Remotes
    <2> HIDE DEF m, old
    <2>4. MessageOK(remote, protocol', m)
      BY <1>2, <2>1, <2>2, <2>3, MessageStaysOK
    <2> QED
      BY <2>4 DEF m
  <1>5. RemoteOK(remote, protocol')
    BY DEF Base, RemoteOK
  <1> QED
    BY <1>1, <1>3, <1>4, <1>5

LEMMA BaseNegotiates ==
    ASSUME Base, NEW i \in 1 .. Len(link), Takes(i), Negotiates(i)
    PROVE  Base'
  <1> DEFINE m == link[i]
             caps == ParseCapsResp(m.data)
  <1>1. /\ protocol = None /\ ~refused /\ m.chan = "ctl"
        /\ IF caps = None
             THEN UNCHANGED <<protocol, refused>>
             ELSE protocol' = CreateProtocol(caps[1]) /\ refused' = (protocol' = None)
        /\ UNCHANGED <<streaming, lastSeq, synced>> /\ heard' = None
    BY DEF Negotiates
  <1>2. /\ remote' = remote /\ RemoteOK(remote', protocol') /\ link' \in Seq(Messages)
        /\ \A j \in 1 .. Len(link') : MessageOK(remote', protocol', link'[j])
    BY <1>1, TakesKeepsLink
  <1>3. remote \in Remotes /\ MessageOK(remote, protocol, m) /\ m.data \in Seq(Bytes)
    BY DEF Base, RemoteOK, MessageOK, Messages
  <1>4. streaming = FALSE /\ ObjectOK(remote, protocol) /\ refused \in BOOLEAN
    BY <1>1 DEF Base
  <1> HIDE DEF m, caps
  <1>5. /\ ObjectOK(remote, protocol')
        /\ refused' \in BOOLEAN /\ (refused' => CodecsOf(remote.codecs) = {})
    <2>1. CASE caps = None
      BY <1>1, <1>4, <2>1
    <2>2. CASE caps # None
      <3>1. m.data[1] = CapsResp
        BY <1>3, <2>2, CapsRespType DEF caps
      <3>2. m.data = CapsOf(remote)
        BY <1>1, <1>3, <3>1, FirstBytes, OpcodesDiffer DEF MessageOK
      <3>3. PICK c \in Caps : /\ caps = Some(c) /\ c.version = VersionOf(remote)
                              /\ c.codecs = CodecsOf(remote.codecs)
                              /\ c.frame_size = SizeOf(remote)
        BY <1>3, <2>2, <3>2, CapsAreRead DEF caps
      <3>4. caps[1] = c
        BY <3>3, SomeIsNotNone
      <3>5. protocol' = CreateProtocol(c) /\ refused' = (protocol' = None)
        BY <1>1, <2>2, <3>4
      <3>6. CASE c.codecs = {} /\ CreateProtocol(c) = None
        BY <3>3, <3>5, <3>6 DEF ObjectOK
      <3>7. CASE \E p \in Protocols :
                   /\ CreateProtocol(c) = Some(p)
                   /\ p.version = c.version /\ p.frame_size = c.frame_size
                   /\ p.codec \in c.codecs
                   /\ "Adpcm16kHz" \in c.codecs => p.codec = "Adpcm16kHz"
        <4>1. PICK p \in Protocols :
                     /\ CreateProtocol(c) = Some(p)
                     /\ p.version = c.version /\ p.frame_size = c.frame_size
                     /\ p.codec \in c.codecs
                     /\ "Adpcm16kHz" \in c.codecs => p.codec = "Adpcm16kHz"
          BY <3>7
        <4>2. protocol'[1] = p /\ protocol' = Some(p) /\ protocol' # None
          BY <3>5, <4>1, SomeIsNotNone
        <4> QED
          BY <3>3, <3>5, <4>1, <4>2 DEF ObjectOK
      <3> QED
        BY <3>6, <3>7, CreateProtocolIs
    <2> QED
      BY <2>1, <2>2
  <1> QED
    BY <1>1, <1>2, <1>4, <1>5 DEF Base

\* Only an AUDIO_SYNC of the remote is read as one.
LEMMA SyncsAreSyncs ==
    ASSUME NEW r \in Remotes, NEW p, NEW m, MessageOK(r, p, m), m.chan = "ctl",
           NEW o \in Protocols, o.version = VersionOf(r), ParseCtl(o, m.data).ev = "AUDIO_SYNC"
    PROVE  /\ m.data = SyncOf(r, m.at) /\ r.syncs > 0 /\ m.data # <<>>
           /\ Ten(r) => m.at.codec = r.codec
  <1>1. m.data \notin {CapsOf(r), StartOf(r)} \cup StopsOf(r)
    BY EventsAre
  <1>2. m.at \in Ats
    BY DEF MessageOK, Messages
  <1> QED
    BY <1>1, <1>2, MessagesAreBytes DEF MessageOK

LEMMA SyncKeepsObject ==
    ASSUME NEW r \in Remotes, NEW p, NEW m, MessageOK(r, p, m), m.chan = "ctl",
           ObjectOK(r, p), p # None, RemoteOK(r, p), ParseCtl(p[1], m.data).ev = "AUDIO_SYNC"
    PROVE  LET q == OnAudioSync(p[1], ParseCtl(p[1], m.data))
           IN  ObjectOK(r, Some(q)) /\ (~Ten(r) => q.codec = p[1].codec)
  <1> DEFINE o == p[1]
             q == OnAudioSync(o, ParseCtl(o, m.data))
  <1>1. /\ o \in Protocols /\ o.version = VersionOf(r) /\ o.frame_size = SizeOf(r)
        /\ o.codec \in CodecsOf(r.codecs)
    BY DEF ObjectOK
  <1>2. m.data \in Seq(Bytes) /\ m.at \in Ats
    BY DEF MessageOK, Messages
  <1> HIDE DEF o
  <1>3. /\ m.data = SyncOf(r, m.at) /\ r.syncs > 0 /\ m.data # <<>>
        /\ Ten(r) => m.at.codec = r.codec
    BY <1>1, SyncsAreSyncs DEF o
  <1>4. q \in Protocols /\ q.version = o.version /\ q.frame_size = o.frame_size
    BY <1>1, <1>2, <1>3, SyncedType DEF o
  <1>5. q.codec \in CodecsOf(r.codecs) /\ (~Ten(r) => q.codec = o.codec)
    <2>1. CASE Ten(r)
      <3>1. Stands(q, m.at)
        BY <1>1, <1>2, <1>3, <2>1, SyncIsRead
      <3>2. q.codec = r.codec
        BY <1>3, <2>1, <3>1 DEF Stands
      <3> QED
        BY <1>1, <2>1, <3>2 DEF RemoteOK
    <2>2. CASE ~Ten(r)
      BY <1>1, <2>2 DEF OnAudioSync, VersionOf
    <2> QED
      BY <2>1, <2>2
  <1>6. r.syncs # 0
    BY <1>3 DEF Remotes
  <1> HIDE DEF q
  <1>7. Some(q)[1] = q
    BY SomeIsNotNone
  <1>8. ObjectOK(r, Some(q))
    BY <1>1, <1>4, <1>5, <1>6, <1>7 DEF ObjectOK
  <1> QED
    BY <1>5, <1>8 DEF q, o

LEMMA BaseHostCtl ==
    ASSUME Base, NEW i \in 1 .. Len(link), Takes(i), HostCtl(i)
    PROVE  Base'
  <1> DEFINE m == link[i]
             e == ParseCtl(protocol[1], m.data)
  <1>1. /\ protocol # None /\ m.chan = "ctl" /\ heard' = None /\ refused' = refused
        /\ remote' = remote
    BY DEF HostCtl, Takes
  <1>2. /\ remote \in Remotes /\ RemoteOK(remote, protocol) /\ MessageOK(remote, protocol, m)
        /\ ObjectOK(remote, protocol)
    BY DEF Base, RemoteOK
  <1>3. /\ streaming' \in BOOLEAN /\ synced' \in BOOLEAN
        /\ lastSeq' # None => lastSeq'[1] \in Words /\ lastSeq' = Some(lastSeq'[1])
        /\ \/ protocol' = protocol
           \/ e.ev = "AUDIO_SYNC" /\ protocol' = Some(OnAudioSync(protocol[1], e))
    BY DEF HostCtl, ClosesMic, StartsStreaming, InTurn, Base
  <1> HIDE DEF m
  <1>4. /\ ObjectOK(remote, protocol') /\ protocol' # None
        /\ ~Ten(remote) => protocol'[1].codec = protocol[1].codec
    <2>1. CASE protocol' = protocol
      BY <1>1, <1>2, <2>1
    <2>2. CASE e.ev = "AUDIO_SYNC" /\ protocol' = Some(OnAudioSync(protocol[1], e))
      BY <1>1, <1>2, <2>2, SyncKeepsObject, SomeIsNotNone
    <2> QED
      BY <1>3, <2>1, <2>2
  <1>5. /\ remote' = remote /\ RemoteOK(remote', protocol') /\ link' \in Seq(Messages)
        /\ \A j \in 1 .. Len(link') : MessageOK(remote', protocol', link'[j])
    BY <1>4, TakesKeepsLink
  <1> QED
    BY <1>1, <1>3, <1>4, <1>5 DEF Base

LEMMA BaseHostRx ==
    ASSUME Base, NEW i \in 1 .. Len(link), Takes(i), HostRx(i)
    PROVE  Base'
  <1> DEFINE m == link[i]
             o == protocol[1]
             d == DecodeAudio(o, m.data)
  <1>1. /\ protocol # None /\ m.chan = "rx" /\ refused' = refused /\ streaming' = streaming
        /\ remote' = remote
    BY DEF HostRx, Takes
  <1>2. MessageOK(remote, protocol, m) /\ ObjectOK(remote, protocol) /\ m.data \in Seq(Bytes)
    BY DEF Base, MessageOK, Messages
  <1>3. o \in Protocols
    BY <1>1, <1>2 DEF ObjectOK
  <1>4. CASE ~streaming \/ d.frame = None
    <2>1. /\ synced' = FALSE /\ heard' = None /\ protocol' = protocol /\ lastSeq' = lastSeq
      BY <1>4 DEF HostRx
    <2>2. /\ remote' = remote /\ RemoteOK(remote', protocol') /\ link' \in Seq(Messages)
          /\ \A j \in 1 .. Len(link') : MessageOK(remote', protocol', link'[j])
      BY <1>1, <2>1, TakesKeepsLink
    <2> QED
      BY <1>1, <2>1, <2>2 DEF Base
  <1>5. CASE streaming /\ d.frame # None
    <2> DEFINE p == d.protocol
               f == d.frame[1]
    <2>1. /\ protocol' = Some(p) /\ lastSeq' = Some(f.seq)
          /\ synced' = (synced /\ InTurn(i)) /\ heard' # None /\ heard'[1].frame = f
      BY <1>5, SomeIsNotNone DEF HostRx
    <2>2. /\ p \in Protocols
          /\ p.version = o.version /\ p.codec = o.codec /\ p.frame_size = o.frame_size
          /\ f.samples \in Seq(Sample) /\ f.seq \in Words
      BY <1>2, <1>3, <1>5, FrameType
    <2> HIDE DEF d, p, f, o
    <2>3. protocol' # None /\ protocol'[1] = p
      BY <2>1, SomeIsNotNone
    <2>4. ObjectOK(remote, protocol')
      BY <1>1, <1>2, <2>1, <2>2, <2>3 DEF ObjectOK, o
    <2>5. /\ remote' = remote /\ RemoteOK(remote', protocol') /\ link' \in Seq(Messages)
          /\ \A j \in 1 .. Len(link') : MessageOK(remote', protocol', link'[j])
      BY <1>1, <2>2, <2>3, TakesKeepsLink DEF o
    <2>6. lastSeq'[1] \in Words /\ lastSeq' = Some(lastSeq'[1])
      BY <2>1, <2>2, SomeIsNotNone
    <2>7. synced' \in BOOLEAN
      BY <2>1 DEF Base, InTurn
    <2> QED
      BY <1>1, <2>1, <2>2, <2>3, <2>4, <2>5, <2>6, <2>7 DEF Base
  <1>6. (~streaming \/ d.frame = None) \/ (streaming /\ d.frame # None)
    BY DEF Base
  <1> QED
    BY <1>4, <1>5, <1>6

LEMMA BaseHostCloses ==
    ASSUME Base, HostCloses PROVE Base'
  BY DEF Base, HostCloses, ClosesMic

LEMMA BaseInit == Init => Base
  <1> SUFFICES ASSUME Init PROVE Base
    OBVIOUS
  <1>1. PICK v \in WireVersions, bits \in CodecBits, codec \in Codecs,
              si \in StartIndexes, byte \in PayloadBytes :
         /\ IF v # 4 /\ CodecsOf(bits) # {} THEN codec \in CodecsOf(bits) ELSE codec = "Adpcm8kHz"
         /\ remote = [version |-> v, codecs |-> bits, codec |-> codec, start |-> si,
                      payload |-> [i \in 1 .. PayloadLen |-> byte],
                      answered |-> FALSE, on |-> FALSE, encoder |-> NewDecoder,
                      n |-> 0, whole |-> FALSE,
                      streams |-> 0, frames |-> 0, syncs |-> 0]
    BY DEF Init
  <1>2. /\ link = <<>> /\ protocol = None /\ refused = FALSE /\ streaming = FALSE
        /\ lastSeq = None /\ heard = None /\ synced = FALSE
    BY DEF Init
  <1>3. /\ v \in Words /\ bits \in Bytes /\ si \in 0 .. MaxStepIndex /\ byte \in Bytes
        /\ PayloadLen \in Nat /\ MaxFrames \in Nat
    BY Wires
  <1> DEFINE payload == [i \in 1 .. PayloadLen |-> byte]
  <1>4. payload \in Seq(Bytes) /\ Len(payload) = PayloadLen
    BY <1>3
  <1>5. NewDecoder \in Decoders
    BY SamplesAre DEF NewDecoder, Decoders, MaxStepIndex
  <1> HIDE DEF payload
  <1>6. remote = [version |-> v, codecs |-> bits, codec |-> codec, start |-> si,
                  payload |-> payload, answered |-> FALSE, on |-> FALSE, encoder |-> NewDecoder,
                  n |-> 0, whole |-> FALSE, streams |-> 0, frames |-> 0, syncs |-> 0]
    BY <1>1 DEF payload
  <1>7. remote \in Remotes
    BY <1>3, <1>4, <1>5, <1>6 DEF Remotes
  <1>8. RemoteOK(remote, protocol)
    BY <1>1, <1>3, <1>4, <1>6, <1>7 DEF RemoteOK, Ten
  <1>9. link \in Seq(Messages) /\ \A i \in 1 .. Len(link) : MessageOK(remote, protocol, link[i])
    BY <1>2
  <1> QED
    BY <1>2, <1>8, <1>9 DEF Base, ObjectOK

LEMMA BaseStep == Base /\ [Next]_audioVars => Base'
  <1> SUFFICES ASSUME Base, [Next]_audioVars PROVE Base'
    OBVIOUS
  <1>1. CASE RemoteAnswersCaps
    BY <1>1, BaseAnswersCaps
  <1>2. CASE RemoteStarts
    BY <1>2, BaseStarts
  <1>3. CASE RemoteSyncs
    BY <1>3, BaseSyncs
  <1>4. CASE \E fate \in {"arrives", "cut", "lost"} : RemoteSpeaks(fate)
    BY <1>4, BaseSpeaks
  <1>5. CASE RemoteStops
    BY <1>5, BaseStops
  <1>6. ASSUME NEW i \in DOMAIN link, Takes(i), Negotiates(i) \/ HostCtl(i) \/ HostRx(i)
        PROVE  Base'
    <2>1. i \in 1 .. Len(link)
      BY DEF Base
    <2> QED
      BY <1>6, <2>1, BaseNegotiates, BaseHostCtl, BaseHostRx
  <1>7. CASE HostCloses
    BY <1>7, BaseHostCloses
  <1>8. CASE UNCHANGED audioVars
    BY <1>8 DEF Base, audioVars
  <1> QED
    BY <1>1, <1>2, <1>3, <1>4, <1>5, <1>6, <1>7, <1>8 DEF Next, Host

LEMMA BaseHolds == Spec => []Base
  BY BaseInit, BaseStep, PTL DEF Spec

-----------------------------------------------------------------------------
(* What becomes of a frame, and the theorems that need nothing else.       *)

LEMMA TriangleInRange ==
    ASSUME NEW a \in Sample, NEW b \in Sample, NEW c \in Sample
    PROVE  (a + 2 * b + c) \div 4 \in Sample
  <1>1. /\ a \in Int /\ -32768 <= a /\ a <= 32767
        /\ b \in Int /\ -32768 <= b /\ b <= 32767
        /\ c \in Int /\ -32768 <= c /\ c <= 32767
    BY SamplesAre
  <1>2. /\ (a + 2 * b + c) \div 4 \in Int
        /\ -32768 <= (a + 2 * b + c) \div 4 /\ (a + 2 * b + c) \div 4 <= 32767
    BY <1>1, SMT
  <1> QED
    BY <1>2, SamplesAre

LEMMA PcmType ==
    ASSUME NEW s \in Seq(Sample)
    PROVE  LET pcm == Processed(s)
           IN  /\ pcm.clean = Declip(s) /\ pcm.smooth = Lowpass(pcm.clean)
               /\ pcm.loud = ApplyGain(pcm.smooth, Gain)
               /\ pcm.clean \in Seq(Sample) /\ pcm.smooth \in Seq(Sample)
               /\ pcm.loud \in Seq(Sample)
               /\ DOMAIN pcm.clean = DOMAIN s /\ DOMAIN pcm.smooth = DOMAIN s
               /\ DOMAIN pcm.loud = DOMAIN s
  <1> DEFINE clean == Declip(s)
             smooth == Lowpass(clean)
             loud == ApplyGain(smooth, Gain)
             n == Len(s)
  <1>1. n \in Nat /\ DOMAIN s = 1 .. n
    OBVIOUS
  <1>2. clean \in [1 .. n -> Sample]
    BY DeclipUnfolds
  <1> HIDE DEF clean, n
  <1>3. clean \in Seq(Sample) /\ Len(clean) = n /\ DOMAIN clean = 1 .. n
    BY <1>1, <1>2
  <1>4. clean \in Seq(Int) /\ \A i \in 1 .. n : clean[i] \in Int
    BY <1>3, SamplesAre
  <1>5. smooth = [i \in 1 .. n |-> IF i \in {1, n} THEN clean[i] ELSE Triangle(clean, i)]
    BY <1>3, <1>4, LowpassIsFir
  <1>6. ASSUME NEW i \in 1 .. n PROVE smooth[i] \in Sample
    <2>1. CASE i \in {1, n}
      BY <1>3, <1>5, <2>1
    <2>2. CASE i \notin {1, n}
      <3>1. i - 1 \in 1 .. n /\ i + 1 \in 1 .. n
        BY <1>1, <2>2
      <3>2. clean[i - 1] \in Sample /\ clean[i] \in Sample /\ clean[i + 1] \in Sample
        BY <1>3, <3>1
      <3>3. Triangle(clean, i) \in Sample
        BY <3>2, TriangleInRange DEF Triangle
      <3> QED
        BY <1>5, <2>2, <3>3
    <2> QED
      BY <2>1, <2>2
  <1>7. smooth \in [1 .. n -> Sample]
    <2>1. DOMAIN smooth = 1 .. n /\ smooth = [i \in 1 .. n |-> smooth[i]]
      BY <1>5
    <2> HIDE DEF smooth
    <2> QED
      BY <1>6, <2>1
  <1> HIDE DEF smooth
  <1>8. smooth \in Seq(Sample) /\ DOMAIN smooth = 1 .. n /\ Len(smooth) = n
    BY <1>1, <1>7
  <1>9. \A i \in 1 .. n : loud[i] \in Sample
    BY <1>8, Wires, GainStaysInRange
  <1>10. DOMAIN loud = 1 .. n /\ loud = [i \in 1 .. n |-> loud[i]]
    BY <1>8 DEF ApplyGain
  <1> HIDE DEF loud
  <1>11. loud \in Seq(Sample)
    BY <1>1, <1>9, <1>10
  <1> USE DEF clean, smooth, loud
  <1>12. Processed(s) = [clean |-> clean, smooth |-> smooth, loud |-> loud]
    BY DEF Processed
  <1> HIDE DEF clean, smooth, loud
  <1>13. /\ clean \in Seq(Sample) /\ smooth \in Seq(Sample) /\ loud \in Seq(Sample)
         /\ DOMAIN clean = DOMAIN s /\ DOMAIN smooth = DOMAIN s /\ DOMAIN loud = DOMAIN s
    BY <1>1, <1>3, <1>8, <1>10, <1>11
  <1> QED
    BY <1>12, <1>13 DEF clean, smooth, loud

\* Whatever bytes arrive in whatever order, the object stays one of session's
\* protocol objects, its frame numbers are u16 and every sample that is decoded
\* or filtered is i16 (v04.rs:152-187, v10.rs:161-204, adpcm.rs:93-207).
THEOREM AudioTypeCorrect == Spec => []AudioTypeOK
  <1>1. Base => AudioTypeOK
    <2> SUFFICES ASSUME Base PROVE AudioTypeOK
      OBVIOUS
    <2>1. ASSUME heard # None
          PROVE  LET pcm == Processed(heard[1].frame.samples)
                 IN  \A i \in DOMAIN heard[1].frame.samples :
                        {heard[1].frame.samples[i], pcm.clean[i], pcm.smooth[i], pcm.loud[i]}
                            \subseteq Sample
      <3> DEFINE s == heard[1].frame.samples
                 pcm == Processed(s)
      <3>1. s \in Seq(Sample)
        BY <2>1 DEF Base
      <3> HIDE DEF s
      <3>2. /\ pcm.clean \in Seq(Sample) /\ pcm.smooth \in Seq(Sample) /\ pcm.loud \in Seq(Sample)
            /\ DOMAIN pcm.clean = DOMAIN s /\ DOMAIN pcm.smooth = DOMAIN s
            /\ DOMAIN pcm.loud = DOMAIN s
        BY <3>1, PcmType
      <3> HIDE DEF pcm
      <3>3. ASSUME NEW i \in DOMAIN s
            PROVE  {s[i], pcm.clean[i], pcm.smooth[i], pcm.loud[i]} \subseteq Sample
        <4>1. \A z \in Seq(Sample) : \A j \in DOMAIN z : z[j] \in Sample
          OBVIOUS
        <4>2. s[i] \in Sample
          BY <3>1, <4>1
        <4>3. pcm.clean[i] \in Sample
          BY <3>2, <4>1
        <4>4. pcm.smooth[i] \in Sample
          BY <3>2, <4>1
        <4>5. pcm.loud[i] \in Sample
          BY <3>2, <4>1
        <4> QED
          BY <4>2, <4>3, <4>4, <4>5
      <3> QED
        BY <3>3 DEF s, pcm
    <2> QED
      BY <2>1 DEF Base, ObjectOK, AudioTypeOK
  <1> QED
    BY <1>1, BaseHolds, PTL

\* Host and remote agree on version, frame size and codec, for every pair of
\* versions and codec masks (mod.rs:42-106, v04.rs:37-57, v10.rs:50-88).
THEOREM NegotiationCorrect == Spec => []NegotiationAgrees
  <1>1. Base => NegotiationAgrees
    <2> SUFFICES ASSUME Base PROVE NegotiationAgrees
      OBVIOUS
    <2>1. Wire10 = Ten(remote) /\ FrameSize = SizeOf(remote)
      BY BytesAreOf
    <2>2. ASSUME protocol # None
          PROVE  /\ protocol[1].version = (IF Wire10 THEN "V1_0" ELSE "V0_4")
                 /\ protocol[1].frame_size = FrameSize
                 /\ protocol[1].codec \in CodecsOf(remote.codecs)
                 /\ remote.syncs = 0 /\ "Adpcm16kHz" \in CodecsOf(remote.codecs)
                      => protocol[1].codec = "Adpcm16kHz"
      BY <2>1, <2>2 DEF Base, ObjectOK, VersionOf
    <2>3. refused => CodecsOf(remote.codecs) = {}
      BY DEF Base
    <2> QED
      BY <2>2, <2>3 DEF NegotiationAgrees
  <1> QED
    BY <1>1, BaseHolds, PTL

\* The filter in place is the FIR filter its comment promises, for frames of
\* any length (adpcm.rs:175-196).
THEOREM LowpassCorrect == Spec => []LowpassIsTriangle
  <1>1. Base => LowpassIsTriangle
    <2> SUFFICES ASSUME Base, heard # None
                 PROVE  LET pcm == Processed(heard[1].frame.samples)
                            x == pcm.clean
                            y == pcm.smooth
                        IN  \A i \in DOMAIN x :
                              y[i] = IF i \in {1, Len(x)} THEN x[i]
                                     ELSE (x[i - 1] + 2 * x[i] + x[i + 1]) \div 4
      BY DEF LowpassIsTriangle
    <2> DEFINE s == heard[1].frame.samples
               x == Processed(s).clean
               y == Processed(s).smooth
    <2>1. s \in Seq(Sample)
      BY DEF Base
    <2> HIDE DEF s
    <2>2. x \in Seq(Sample) /\ y = Lowpass(x)
      BY <2>1, PcmType
    <2> HIDE DEF x, y
    <2>3. x \in Seq(Int) /\ DOMAIN x = 1 .. Len(x)
      BY <2>2, SamplesAre
    <2>4. y = [i \in 1 .. Len(x) |-> IF i \in {1, Len(x)} THEN x[i] ELSE Triangle(x, i)]
      BY <2>2, <2>3, LowpassIsFir
    <2>5. \A i \in DOMAIN x :
            y[i] = IF i \in {1, Len(x)} THEN x[i] ELSE (x[i - 1] + 2 * x[i] + x[i + 1]) \div 4
      BY <2>3, <2>4 DEF Triangle
    <2> QED
      BY <2>5 DEF s, x, y
  <1> QED
    BY <1>1, BaseHolds, PTL

\* Removing clicks adds none, in frames of any length (adpcm.rs:161-173).
THEOREM DeclipCorrect == Spec => []DeclipCalms
  <1>1. Base => DeclipCalms
    <2> SUFFICES ASSUME Base, heard # None
                 PROVE  LET x == heard[1].frame.samples
                            y == Declip(x)
                        IN  /\ \A i \in 2 .. Len(x) - 1 :
                                 \/ y[i] = x[i]
                                 \/ y[i - 1] <= y[i] /\ y[i] <= x[i + 1]
                                 \/ y[i - 1] >= y[i] /\ y[i] >= x[i + 1]
                            /\ \A jump \in Jumps(y) : \E was \in Jumps(x) : jump <= was
      BY DEF DeclipCalms
    <2> DEFINE x == heard[1].frame.samples
               y == Declip(x)
    <2>1. x \in Seq(Sample)
      BY DEF Base
    <2> HIDE DEF x
    <2>2. /\ \A i \in 2 .. Len(x) - 1 :
               \/ y[i] = x[i]
               \/ y[i - 1] <= y[i] /\ y[i] <= x[i + 1]
               \/ y[i - 1] >= y[i] /\ y[i] >= x[i + 1]
          /\ \A i \in 1 .. Len(x) - 1 :
               \/ Abs(y[i + 1] - y[i]) <= Abs(x[i + 1] - x[i])
               \/ i + 2 <= Len(x) /\ Abs(y[i + 1] - y[i]) <= Abs(x[i + 2] - x[i + 1])
      BY <2>1, DeclipAddsNoJump
    <2>3. y \in [1 .. Len(x) -> Sample]
      BY <2>1, DeclipUnfolds
    <2> HIDE DEF y
    <2>4. Len(y) = Len(x) /\ Len(x) \in Nat
      BY <2>1, <2>3
    <2>5. ASSUME NEW jump \in Jumps(y) PROVE \E was \in Jumps(x) : jump <= was
      <3>1. PICK i \in 1 .. Len(x) - 1 : jump = Abs(y[i + 1] - y[i])
        BY <2>4 DEF Jumps
      <3>2. CASE jump <= Abs(x[i + 1] - x[i])
        BY <3>2 DEF Jumps
      <3>3. CASE i + 2 <= Len(x) /\ jump <= Abs(x[i + 2] - x[i + 1])
        <4>1. i + 1 \in 1 .. Len(x) - 1 /\ (i + 1) + 1 = i + 2
          BY <2>4, <3>3
        <4>2. Abs(x[(i + 1) + 1] - x[i + 1]) \in Jumps(x)
          BY <4>1 DEF Jumps
        <4> QED
          BY <3>3, <4>1, <4>2
      <3> QED
        BY <2>2, <3>1, <3>2, <3>3
    <2> QED
      BY <2>2, <2>5 DEF x, y
  <1> QED
    BY <1>1, BaseHolds, PTL

\* The gain saturates and keeps the order of samples, for every whole factor and
\* frames of any length (adpcm.rs:202-207).
THEOREM GainCorrect == Spec => []GainKeepsOrder
  <1>1. Base => GainKeepsOrder
    <2> SUFFICES ASSUME Base, heard # None
                 PROVE  LET pcm == Processed(heard[1].frame.samples)
                            x == pcm.smooth
                            y == pcm.loud
                        IN  \A i, j \in DOMAIN x : x[i] <= x[j] => y[i] <= y[j]
      BY DEF GainKeepsOrder
    <2> DEFINE s == heard[1].frame.samples
               x == Processed(s).smooth
               y == Processed(s).loud
    <2>1. s \in Seq(Sample)
      BY DEF Base
    <2> HIDE DEF s
    <2>2. x \in Seq(Sample) /\ y = ApplyGain(x, Gain)
      BY <2>1, PcmType
    <2> HIDE DEF x, y
    <2>3. x \in Seq(Int) /\ Gain \in Nat
      BY <2>2, SamplesAre, Wires
    <2>4. \A i, j \in DOMAIN x : x[i] <= x[j] => y[i] <= y[j]
      BY <2>2, <2>3, GainIsMonotonic
    <2> QED
      BY <2>4 DEF s, x, y
  <1> QED
    BY <1>1, BaseHolds, PTL

-----------------------------------------------------------------------------
(* v1.0: where the decoder has to stand.  The host, the notifications on   *)
(* their way and the remote form a chain: a sync or a frame that was not   *)
(* overtaken leaves the decoder where the next whole frame was encoded.    *)

\* Notifications that move the decoder.
Bearing(m) == m.chan = "rx" \/ m.data[1] = AudioSync

\* Position 0 is the host, Len(l) + 1 the remote.
Clear(l, i, j) == \A k \in i + 1 .. j - 1 : ~Bearing(l[k])
Source(l, s, i) == IF i = 0 THEN s ELSE Bearing(l[i]) /\ ~l[i].overtaken
Target(r, l, j) == IF j = Len(l) + 1 THEN r.whole ELSE l[j].chan = "rx" /\ l[j].whole
Place(r, l, j) == IF j = Len(l) + 1 THEN AtOf(r) ELSE l[j].at
Feeds(r, m, at) ==
    IF m.chan = "ctl"
      THEN m.at = at
      ELSE m.whole /\ m.data = FrameOf(r, m.at) /\ at = Later(r, m.at)
Leads(r, l, p, i, at) == IF i = 0 THEN Stands(p[1], at) ELSE Feeds(r, l[i], at)

InStep(r, l, p, s) ==
    \A i \in 0 .. Len(l), j \in 1 .. Len(l) + 1 :
        i < j /\ Clear(l, i, j) /\ Source(l, s, i) /\ Target(r, l, j)
            => Leads(r, l, p, i, Place(r, l, j))

\* A frame is lost: nothing can be in step with the remote before it syncs.
LEMMA InStepSilent ==
    ASSUME NEW r, NEW q, NEW l \in Seq(Messages), NEW p, NEW s,
           InStep(r, l, p, s), SameWire(r, q), q.whole = FALSE
    PROVE  InStep(q, l, p, s)
  <1>1. \A m, at : Feeds(q, m, at) = Feeds(r, m, at)
    BY SameWireSameBytes DEF Feeds
  <1> SUFFICES ASSUME NEW i \in 0 .. Len(l), NEW j \in 1 .. Len(l) + 1,
                      i < j, Clear(l, i, j), Source(l, s, i), Target(q, l, j)
               PROVE  Leads(q, l, p, i, Place(q, l, j))
    BY DEF InStep
  <1>2. j # Len(l) + 1
    BY DEF Target
  <1>3. Target(r, l, j) /\ Place(q, l, j) = Place(r, l, j)
    BY <1>2 DEF Target, Place
  <1>4. Leads(r, l, p, i, Place(r, l, j))
    BY <1>3 DEF InStep
  <1> QED
    BY <1>1, <1>3, <1>4 DEF Leads

\* The remote sends `m`: where it stands follows from `m`, if `m` moves the
\* decoder, and is where it stood before otherwise.
LEMMA InStepSent ==
    ASSUME NEW r, NEW q, NEW l \in Seq(Messages), NEW p, NEW s, NEW m \in Messages,
           InStep(r, l, p, s), SameWire(r, q), m.at = AtOf(r), m.whole = r.whole,
           ~Bearing(m) /\ q.whole => r.whole /\ AtOf(q) = AtOf(r),
           Bearing(m) /\ q.whole => Feeds(r, m, AtOf(q))
    PROVE  InStep(q, Append(l, m), p, s)
  <1> DEFINE l2 == Append(l, m)
             n == Len(l)
  <1>1. /\ l2 \in Seq(Messages) /\ Len(l2) = n + 1 /\ l2[n + 1] = m
        /\ \A i \in 1 .. n : l2[i] = l[i]
    BY Appended
  <1>2. n \in Nat
    OBVIOUS
  <1>3. \A w, at : Feeds(q, w, at) = Feeds(r, w, at)
    BY SameWireSameBytes DEF Feeds
  <1> HIDE DEF l2
  <1> SUFFICES ASSUME NEW i \in 0 .. n + 1, NEW j \in 1 .. n + 2,
                      i < j, Clear(l2, i, j), Source(l2, s, i), Target(q, l2, j)
               PROVE  Leads(q, l2, p, i, Place(q, l2, j))
    BY <1>1 DEF InStep, l2
  <1>4. ASSUME i <= n
        PROVE  /\ Source(l, s, i)
               /\ \A at : Leads(r, l, p, i, at) => Leads(q, l2, p, i, at)
               /\ \A h \in 1 .. n + 1 : h <= j => Clear(l, i, h)
    <2>1. i = 0 \/ (i \in 1 .. n /\ l2[i] = l[i])
      BY <1>1, <1>2, <1>4
    <2>2. Source(l, s, i)
      BY <2>1 DEF Source
    <2>3. \A at : Leads(r, l, p, i, at) => Leads(q, l2, p, i, at)
      BY <1>3, <2>1 DEF Leads
    <2>4. ASSUME NEW h \in 1 .. n + 1, h <= j PROVE Clear(l, i, h)
      <3>1. SUFFICES ASSUME NEW k \in i + 1 .. h - 1 PROVE ~Bearing(l[k])
        BY DEF Clear
      <3>2. k \in 1 .. n /\ k \in i + 1 .. j - 1
        BY <1>2, <2>4
      <3> QED
        BY <1>1, <3>2 DEF Clear
    <2> QED
      BY <2>2, <2>3, <2>4
  <1>5. CASE j <= n
    <2>1. i <= n /\ j \in 1 .. n + 1 /\ i \in 0 .. n
      BY <1>2, <1>5
    <2>2. Target(r, l, j) /\ Place(q, l2, j) = Place(r, l, j)
      <3>1. j # n + 1 /\ j # Len(l2) + 1 /\ l2[j] = l[j]
        BY <1>1, <1>2, <1>5
      <3> QED
        BY <3>1 DEF Target, Place
    <2>3. Clear(l, i, j) /\ Source(l, s, i)
      BY <1>4, <2>1
    <2>4. Leads(r, l, p, i, Place(r, l, j))
      BY <2>1, <2>2, <2>3 DEF InStep
    <2> QED
      BY <1>4, <2>1, <2>2, <2>4
  <1>6. CASE j = n + 1
    <2>1. i <= n /\ i \in 0 .. n /\ j \in 1 .. n + 1
      BY <1>2, <1>6
    <2>2. j # Len(l2) + 1 /\ l2[j] = m
      BY <1>1, <1>2, <1>6
    <2>3. Target(r, l, j) /\ Place(q, l2, j) = Place(r, l, j)
      BY <1>6, <2>2 DEF Target, Place
    <2>4. Clear(l, i, j) /\ Source(l, s, i)
      BY <1>4, <2>1
    <2>5. Leads(r, l, p, i, Place(r, l, j))
      BY <2>1, <2>3, <2>4 DEF InStep
    <2> QED
      BY <1>4, <2>1, <2>3, <2>5
  <1>7. CASE j = n + 2
    <2>1. j = Len(l2) + 1
      BY <1>1, <1>2, <1>7
    <2>2. q.whole /\ Place(q, l2, j) = AtOf(q)
      BY <2>1 DEF Target, Place
    <2>3. CASE i = n + 1
      <3>1. l2[i] = m /\ i # 0
        BY <1>1, <1>2, <2>3
      <3>2. Bearing(m)
        BY <3>1 DEF Source
      <3> QED
        BY <1>3, <2>2, <3>1, <3>2 DEF Leads
    <2>4. CASE i <= n
      <3>1. n + 1 \in i + 1 .. j - 1
        BY <1>2, <1>7, <2>4
      <3>2. ~Bearing(m)
        BY <1>1, <3>1 DEF Clear
      <3>3. r.whole /\ AtOf(q) = AtOf(r)
        BY <2>2, <3>2
      <3>4. Target(r, l, n + 1) /\ Place(r, l, n + 1) = AtOf(r)
        BY <3>3 DEF Target, Place
      <3>5. n + 1 \in 1 .. n + 1 /\ n + 1 <= j /\ i \in 0 .. n /\ i < n + 1
        BY <1>2, <1>7, <2>4
      <3>6. Clear(l, i, n + 1) /\ Source(l, s, i)
        BY <1>4, <2>4, <3>5
      <3>7. Leads(r, l, p, i, AtOf(r))
        BY <3>4, <3>5, <3>6 DEF InStep
      <3> QED
        BY <1>4, <2>2, <2>4, <3>3, <3>7
    <2> QED
      BY <1>2, <2>3, <2>4
  <1> QED
    BY <1>2, <1>5, <1>6, <1>7

Shifted(w, l, k) ==
    /\ w \in Seq(Messages) /\ Len(w) = Len(l) - 1
    /\ \A h \in 1 .. Len(l) - 1 :
         LET m == w[h]
             old == l[Old(k, h)]
         IN  /\ m.chan = old.chan /\ m.data = old.data /\ m.at = old.at
             /\ m.whole = old.whole /\ m.overtaken = (h < k \/ old.overtaken)

\* Taking notification `k` leaves the others where they stood to each other.
LEMMA InStepShift ==
    ASSUME NEW r, NEW l \in Seq(Messages), NEW k \in 1 .. Len(l), NEW p, NEW s, NEW o,
           NEW l2, Shifted(l2, l, k),
           InStep(r, l, p, s), NEW i \in 1 .. Len(l) - 1, NEW j \in 1 .. Len(l),
           i < j, Clear(l2, i, j), Bearing(l2[i]), ~l2[i].overtaken, Target(r, l2, j)
    PROVE  Leads(r, l2, o, i, Place(r, l2, j))
  <1> DEFINE n == Len(l)
  <1>1. /\ l2 \in Seq(Messages) /\ Len(l2) = n - 1
        /\ \A h \in 1 .. n - 1 :
             LET m == l2[h]
                 old == l[Old(k, h)]
             IN  /\ m.chan = old.chan /\ m.data = old.data /\ m.at = old.at
                 /\ m.whole = old.whole /\ m.overtaken = (h < k \/ old.overtaken)
    BY DEF Shifted
  <1>2. n \in Nat
    OBVIOUS
  <1> HIDE DEF n
  <1>3. \A h \in 1 .. n - 1 : Bearing(l2[h]) = Bearing(l[Old(k, h)])
    BY <1>1 DEF Bearing
  <1>4. i # 0 /\ Bearing(l2[i]) /\ ~l2[i].overtaken
    OBVIOUS
  <1>5. i >= k /\ Old(k, i) = i + 1 /\ ~l[i + 1].overtaken /\ Bearing(l[i + 1])
    <2>1. i \in 1 .. n - 1
      BY DEF n
    <2>2. l2[i].overtaken = (i < k \/ l[Old(k, i)].overtaken)
      BY <1>1, <2>1
    <2>3. ~(i < k) /\ ~l[Old(k, i)].overtaken
      BY <1>4, <2>2, Zenon
    <2>4. Old(k, i) = i + 1
      BY <2>3 DEF Old
    <2>5. Bearing(l[i + 1])
      BY <1>3, <1>4, <2>1, <2>4
    <2>6. i >= k
      BY <2>1, <2>3
    <2> QED
      BY <2>3, <2>4, <2>5, <2>6
  <1>6. j > k /\ j \in 1 .. n /\ i \in 1 .. n - 1 /\ k \in 1 .. n
    BY <1>5 DEF n
  <1>7. Source(l, s, i + 1)
    BY <1>2, <1>5, <1>6 DEF Source
  <1>8. Clear(l, i + 1, j + 1)
    <2> SUFFICES ASSUME NEW h \in i + 2 .. j PROVE ~Bearing(l[h])
      BY <1>2, <1>6 DEF Clear
    <2>1. h - 1 \in i + 1 .. j - 1 /\ h - 1 \in 1 .. n - 1 /\ ~(h - 1 < k)
      BY <1>2, <1>5, <1>6
    <2>2. Old(k, h - 1) = h
      BY <2>1 DEF Old
    <2>3. ~Bearing(l2[h - 1])
      BY <2>1 DEF Clear
    <2> QED
      BY <1>3, <2>1, <2>2, <2>3
  <1>9. Target(r, l, j + 1) /\ Place(r, l, j + 1) = Place(r, l2, j)
    <2>1. CASE j = n
      <3>1. j = Len(l2) + 1 /\ j + 1 = Len(l) + 1
        BY <1>1, <1>2, <2>1 DEF n
      <3> QED
        BY <3>1 DEF Target, Place
    <2>2. CASE j # n
      <3>1. j \in 1 .. n - 1 /\ j # Len(l2) + 1 /\ j + 1 # Len(l) + 1 /\ Old(k, j) = j + 1
        BY <1>1, <1>2, <1>6, <2>2 DEF n, Old
      <3>2. l2[j].chan = "rx" /\ l2[j].whole
        BY <3>1 DEF Target
      <3> QED
        BY <1>1, <3>1, <3>2 DEF Target, Place
    <2> QED
      BY <2>1, <2>2
  <1>10. Leads(r, l, p, i + 1, Place(r, l, j + 1))
    <2>1. i + 1 \in 0 .. n /\ j + 1 \in 1 .. n + 1 /\ i + 1 < j + 1
      BY <1>2, <1>6
    <2> QED
      BY <1>7, <1>8, <1>9, <2>1 DEF InStep, n
  <1>11. Feeds(r, l[i + 1], Place(r, l2, j))
    BY <1>2, <1>6, <1>9, <1>10 DEF Leads
  <1>12. Feeds(r, l2[i], Place(r, l2, j))
    BY <1>1, <1>5, <1>6, <1>11 DEF Feeds
  <1> QED
    BY <1>4, <1>12 DEF Leads

\* The host takes what does not move the decoder, wherever it was.
LEMMA InStepPasses ==
    ASSUME NEW r, NEW l \in Seq(Messages), NEW k \in 1 .. Len(l), NEW p, NEW s,
           InStep(r, l, p, s), ~Bearing(l[k])
    PROVE  InStep(r, Without(l, k), p, s)
  <1> DEFINE l2 == Without(l, k)
             n == Len(l)
  <1>1. /\ l2 \in Seq(Messages) /\ Len(l2) = n - 1
        /\ \A h \in 1 .. n - 1 :
             LET m == l2[h]
                 old == l[Old(k, h)]
             IN  /\ m.chan = old.chan /\ m.data = old.data /\ m.at = old.at
                 /\ m.whole = old.whole /\ m.overtaken = (h < k \/ old.overtaken)
    BY Removed
  <1>2. n \in Nat /\ k \in 1 .. n
    OBVIOUS
  <1>3. \A h \in 1 .. n - 1 : Bearing(l2[h]) = Bearing(l[Old(k, h)])
    BY <1>1 DEF Bearing
  <1> HIDE DEF l2
  <1> SUFFICES ASSUME NEW i \in 0 .. n - 1, NEW j \in 1 .. n,
                      i < j, Clear(l2, i, j), Source(l2, s, i), Target(r, l2, j)
               PROVE  Leads(r, l2, p, i, Place(r, l2, j))
    BY <1>1, <1>2 DEF InStep, l2
  <1>4. CASE i # 0
    <2>1. i \in 1 .. n - 1 /\ Bearing(l2[i]) /\ ~l2[i].overtaken
      BY <1>2, <1>4 DEF Source
    <2>2. Shifted(l2, l, k)
      BY <1>1, Zenon DEF Shifted
    <2> QED
      BY <1>4, <2>1, <2>2, InStepShift
  <1>5. CASE i = 0
    <2> DEFINE h == IF j = n THEN n + 1 ELSE Old(k, j)
    <2>1. h \in 1 .. n + 1 /\ 0 < h
      BY <1>2 DEF Old
    <2>2. Source(l, s, 0)
      BY <1>5 DEF Source
    <2>3. Target(r, l, h) /\ Place(r, l, h) = Place(r, l2, j)
      <3>1. CASE j = n
        <4>1. j = Len(l2) + 1 /\ h = n + 1
          BY <1>1, <1>2, <3>1
        <4> QED
          BY <4>1 DEF Target, Place
      <3>2. CASE j # n
        <4>1. j \in 1 .. n - 1 /\ j # Len(l2) + 1 /\ h = Old(k, j) /\ h # n + 1
          BY <1>1, <1>2, <3>2 DEF Old
        <4>2. l2[j].chan = "rx" /\ l2[j].whole
          BY <4>1 DEF Target
        <4> QED
          BY <1>1, <4>1, <4>2 DEF Target, Place
      <3> QED
        BY <3>1, <3>2
    <2>4. Clear(l, 0, h)
      <3> SUFFICES ASSUME NEW g \in 1 .. h - 1 PROVE ~Bearing(l[g])
        BY DEF Clear
      <3>1. CASE g = k
        BY <3>1
      <3>2. CASE g # k
        <4> DEFINE f == IF g < k THEN g ELSE g - 1
        <4>1. f \in 0 + 1 .. j - 1 /\ f \in 1 .. n - 1 /\ Old(k, f) = g
          BY <1>2, <2>1, <3>2 DEF Old
        <4>2. ~Bearing(l2[f])
          BY <1>5, <4>1 DEF Clear
        <4> QED
          BY <1>3, <4>1, <4>2
      <3> QED
        BY <3>1, <3>2
    <2> HIDE DEF h
    <2>5. Leads(r, l, p, 0, Place(r, l, h))
      <3>1. 0 \in 0 .. n
        BY <1>2
      <3> QED
        BY <2>1, <2>2, <2>3, <2>4, <3>1 DEF InStep
    <2> QED
      BY <1>5, <2>3, <2>5 DEF Leads
  <1> QED
    BY <1>4, <1>5

\* The host takes a sync or a frame in its turn and is led by it.
LEMMA InStepLed ==
    ASSUME NEW r, NEW l \in Seq(Messages), l # <<>>, NEW p, NEW o, NEW s,
           InStep(r, l, p, s), Bearing(l[1]), ~l[1].overtaken,
           \A at : Feeds(r, l[1], at) => Stands(o[1], at), NEW t
    PROVE  InStep(r, Without(l, 1), o, t)
  <1> DEFINE l2 == Without(l, 1)
             n == Len(l)
  <1>1. n \in Nat \ {0} /\ 1 \in 1 .. n
    OBVIOUS
  <1>2. /\ l2 \in Seq(Messages) /\ Len(l2) = n - 1
        /\ \A h \in 1 .. n - 1 :
             LET m == l2[h]
                 old == l[Old(1, h)]
             IN  /\ m.chan = old.chan /\ m.data = old.data /\ m.at = old.at
                 /\ m.whole = old.whole /\ m.overtaken = (h < 1 \/ old.overtaken)
    BY <1>1, Removed
  <1>3. \A h \in 1 .. n - 1 : Old(1, h) = h + 1 /\ Bearing(l2[h]) = Bearing(l[h + 1])
    BY <1>2 DEF Bearing, Old
  <1> HIDE DEF l2
  <1> SUFFICES ASSUME NEW i \in 0 .. n - 1, NEW j \in 1 .. n,
                      i < j, Clear(l2, i, j), Source(l2, t, i), Target(r, l2, j)
               PROVE  Leads(r, l2, o, i, Place(r, l2, j))
    BY <1>1, <1>2 DEF InStep, l2
  <1>4. CASE i # 0
    <2>1. i \in 1 .. n - 1 /\ Bearing(l2[i]) /\ ~l2[i].overtaken
      BY <1>1, <1>4 DEF Source
    <2>2. Shifted(l2, l, 1)
      BY <1>2, Zenon DEF Shifted
    <2> QED
      BY <1>1, <1>4, <2>1, <2>2, InStepShift
  <1>5. CASE i = 0
    <2>1. Source(l, s, 1)
      BY DEF Source
    <2>2. Target(r, l, j + 1) /\ Place(r, l, j + 1) = Place(r, l2, j)
      <3>1. CASE j = n
        <4>1. j = Len(l2) + 1 /\ j + 1 = n + 1
          BY <1>1, <1>2, <3>1
        <4> QED
          BY <4>1 DEF Target, Place
      <3>2. CASE j # n
        <4>1. j \in 1 .. n - 1 /\ j # Len(l2) + 1 /\ j + 1 # n + 1
          BY <1>1, <1>2, <3>2
        <4>2. l2[j].chan = "rx" /\ l2[j].whole
          BY <4>1 DEF Target
        <4> QED
          BY <1>2, <1>3, <4>1, <4>2 DEF Target, Place
      <3> QED
        BY <3>1, <3>2
    <2>3. Clear(l, 1, j + 1)
      <3> SUFFICES ASSUME NEW h \in 2 .. j PROVE ~Bearing(l[h])
        BY <1>1 DEF Clear
      <3>1. h - 1 \in 0 + 1 .. j - 1 /\ h - 1 \in 1 .. n - 1 /\ (h - 1) + 1 = h
        BY <1>1
      <3>2. ~Bearing(l2[h - 1])
        BY <1>5, <3>1 DEF Clear
      <3> QED
        BY <1>3, <3>1, <3>2
    <2>4. Leads(r, l, p, 1, Place(r, l, j + 1))
      <3>1. 1 \in 0 .. n /\ j + 1 \in 1 .. n + 1 /\ 1 < j + 1
        BY <1>1
      <3> QED
        BY <2>1, <2>2, <2>3, <3>1 DEF InStep
    <2>5. Feeds(r, l[1], Place(r, l2, j))
      BY <2>2, <2>4 DEF Leads
    <2> QED
      BY <1>5, <2>5 DEF Leads
  <1> QED
    BY <1>4, <1>5

\* The host loses step: nothing is claimed of it until the next sync.
LEMMA InStepLost ==
    ASSUME NEW r, NEW l \in Seq(Messages), NEW k \in 1 .. Len(l), NEW p, NEW o, NEW s,
           InStep(r, l, p, s), NEW t, ~t
    PROVE  InStep(r, Without(l, k), o, t)
  <1> DEFINE l2 == Without(l, k)
             n == Len(l)
  <1>1. Len(l2) = n - 1 /\ n \in Nat /\ Shifted(l2, l, k)
    <2>1. Shifted(l2, l, k)
      BY Removed DEF Shifted
    <2> QED
      BY <2>1 DEF Shifted
  <1> HIDE DEF l2
  <1> SUFFICES ASSUME NEW i \in 0 .. n - 1, NEW j \in 1 .. n,
                      i < j, Clear(l2, i, j), Source(l2, t, i), Target(r, l2, j)
               PROVE  Leads(r, l2, o, i, Place(r, l2, j))
    BY <1>1 DEF InStep, l2
  <1>2. i # 0
    BY DEF Source
  <1>3. i \in 1 .. n - 1 /\ Bearing(l2[i]) /\ ~l2[i].overtaken
    BY <1>1, <1>2 DEF Source
  <1> QED
    BY <1>1, <1>3, InStepShift

\* The host, the link and a v1.0 remote are in step.
Chain ==
    /\ Ten(remote) => InStep(remote, link, protocol, synced)
    /\ synced => protocol # None

LEMMA ChainSent ==
    ASSUME Base, Chain, RemoteStep, SameWire(remote, remote'), NEW chan \in {"ctl", "rx"},
           NEW data \in Seq(Bytes), link' = Append(link, Note(chan, data, remote)),
           Ten(remote) /\ ~Bearing(Note(chan, data, remote)) /\ remote'.whole
             => remote.whole /\ AtOf(remote') = AtOf(remote),
           Ten(remote) /\ Bearing(Note(chan, data, remote)) /\ remote'.whole
             => Feeds(remote, Note(chan, data, remote), AtOf(remote'))
    PROVE  Chain'
  <1> DEFINE m == Note(chan, data, remote)
  <1>1. protocol' = protocol /\ synced' = synced /\ Ten(remote') = Ten(remote)
    BY SameWireSameBytes DEF RemoteStep
  <1>2. remote \in Remotes /\ link \in Seq(Messages)
    BY DEF Base, RemoteOK
  <1>3. m \in Messages /\ m.at = AtOf(remote) /\ m.whole = remote.whole
    BY <1>2, NoteIsMessage
  <1>4. ASSUME Ten(remote) PROVE InStep(remote', Append(link, m), protocol, synced)
    <2>1. InStep(remote, link, protocol, synced)
      BY <1>4 DEF Chain
    <2>2. /\ ~Bearing(m) /\ remote'.whole => remote.whole /\ AtOf(remote') = AtOf(remote)
          /\ Bearing(m) /\ remote'.whole => Feeds(remote, m, AtOf(remote'))
      BY <1>4
    <2> HIDE DEF m
    <2> QED
      BY <1>2, <1>3, <2>1, <2>2, InStepSent
  <1> QED
    BY <1>1, <1>4 DEF Chain

\* Notifications of the ctl_stream that are no AUDIO_SYNC.
LEMMA ChainSentAside ==
    ASSUME Base, Chain, RemoteStep, SameWire(remote, remote'),
           NEW data \in Seq(Bytes), data[1] # AudioSync,
           link' = Append(link, Note("ctl", data, remote)),
           remote'.whole => remote.whole /\ AtOf(remote') = AtOf(remote)
    PROVE  Chain'
  <1> DEFINE m == Note("ctl", data, remote)
  <1>1. remote \in Remotes
    BY DEF Base, RemoteOK
  <1>2. m.chan = "ctl" /\ m.data = data
    BY <1>1, NoteIsMessage
  <1>3. ~Bearing(m)
    BY <1>2 DEF Bearing
  <1> QED
    BY <1>3, ChainSent

LEMMA ChainAnswersCaps == ASSUME Base, Chain, RemoteAnswersCaps PROVE Chain'
  <1>1. remote \in Remotes /\ RemoteStep
    BY DEF Base, RemoteOK, RemoteAnswersCaps
  <1>2. /\ link' = Append(link, Note("ctl", CapsOf(remote), remote))
        /\ SameWire(remote, remote') /\ AtOf(remote') = AtOf(remote)
        /\ remote'.whole = remote.whole
    BY CapsAreSent
  <1>3. CapsOf(remote) \in Seq(Bytes) /\ CapsOf(remote)[1] # AudioSync
    BY <1>1, MessagesAreBytes, FirstBytes, OpcodesDiffer
  <1> QED
    BY <1>1, <1>2, <1>3, ChainSentAside

LEMMA ChainStarts == ASSUME Base, Chain, RemoteStarts PROVE Chain'
  <1>1. remote \in Remotes /\ RemoteStep
    BY DEF Base, RemoteOK, RemoteStarts
  <1>2. /\ link' = Append(link, Note("ctl", StartOf(remote), remote))
        /\ SameWire(remote, remote') /\ ~remote'.whole
    BY StartIsSent
  <1>3. StartOf(remote) \in Seq(Bytes) /\ StartOf(remote)[1] # AudioSync
    BY <1>1, MessagesAreBytes, FirstBytes, OpcodesDiffer
  <1> QED
    BY <1>1, <1>2, <1>3, ChainSentAside

LEMMA ChainStops == ASSUME Base, Chain, RemoteStops PROVE Chain'
  <1>1. remote \in Remotes /\ RemoteStep
    BY DEF Base, RemoteOK, RemoteStops
  <1>2. PICK data \in StopsOf(remote) :
          /\ link' = Append(link, Note("ctl", data, remote))
          /\ SameWire(remote, remote') /\ AtOf(remote') = AtOf(remote)
          /\ remote'.whole = remote.whole
    BY StopIsSent
  <1>3. data \in Seq(Bytes) /\ data[1] # AudioSync
    BY <1>1, MessagesAreBytes, FirstBytes, OpcodesDiffer
  <1> QED
    BY <1>1, <1>2, <1>3, ChainSentAside

\* After a sync the remote stands where the sync says.
LEMMA ChainSyncs == ASSUME Base, Chain, RemoteSyncs PROVE Chain'
  <1> DEFINE data == SyncOf(remote, AtOf(remote))
             m == Note("ctl", data, remote)
  <1>1. remote \in Remotes /\ RemoteStep
    BY DEF Base, RemoteOK, RemoteSyncs
  <1>2. /\ link' = Append(link, m)
        /\ SameWire(remote, remote') /\ AtOf(remote') = AtOf(remote)
    BY SyncIsSent
  <1>3. data \in Seq(Bytes) /\ data[1] = AudioSync
    BY <1>1, AtIs, MessagesAreBytes, FirstBytes
  <1> HIDE DEF data
  <1>4. m.chan = "ctl" /\ m.data = data /\ m.at = AtOf(remote)
    BY <1>1, <1>3, NoteIsMessage
  <1>5. Bearing(m) /\ Feeds(remote, m, AtOf(remote'))
    BY <1>2, <1>3, <1>4 DEF Bearing, Feeds
  <1> QED
    BY <1>1, <1>2, <1>3, <1>5, ChainSent

\* A frame that arrives leaves the remote where a decoder of it will stand.
LEMMA ChainSpeaks == ASSUME Base, Chain, NEW fate, RemoteSpeaks(fate) PROVE Chain'
  <1> DEFINE at == AtOf(remote)
             data == Spoiled(fate, FrameOf(remote, at))
             m == Note("rx", data, remote)
  <1>1. remote \in Remotes /\ Len(remote.payload) = PayloadLen /\ RemoteStep
        /\ link \in Seq(Messages)
    BY DEF Base, RemoteOK, RemoteSpeaks
  <1>2. /\ link' = IF fate = "lost" THEN link ELSE Append(link, m)
        /\ remote' \in Remotes /\ SameWire(remote, remote')
        /\ AtOf(remote') = Later(remote, at)
        /\ remote'.whole = (remote.whole /\ fate = "arrives")
    BY FrameIsSent
  <1>3. data \in Seq(Bytes)
    BY <1>1, AtIs, FrameLength DEF Spoiled
  <1>4. m.chan = "rx" /\ m.data = data /\ m.at = at /\ m.whole = remote.whole
    BY <1>1, <1>3, NoteIsMessage
  <1>5. CASE fate = "lost"
    <2>1. link' = link /\ remote'.whole = FALSE
      BY <1>2, <1>5
    <2>2. protocol' = protocol /\ synced' = synced /\ Ten(remote') = Ten(remote)
      BY <1>2, SameWireSameBytes DEF RemoteStep, RemoteSpeaks
    <2>3. ASSUME Ten(remote) PROVE InStep(remote', link, protocol, synced)
      BY <1>1, <1>2, <2>1, <2>3, InStepSilent DEF Chain
    <2> QED
      BY <2>1, <2>2, <2>3 DEF Chain
  <1>6. CASE fate # "lost"
    <2>1. Bearing(m)
      BY <1>4 DEF Bearing
    <2>2. ASSUME remote'.whole PROVE Feeds(remote, m, AtOf(remote'))
      <3>1. remote.whole /\ fate = "arrives"
        BY <1>2, <2>2
      <3>2. data = FrameOf(remote, at)
        BY <3>1 DEF Spoiled
      <3> HIDE DEF m, data
      <3> QED
        BY <1>2, <1>4, <3>1, <3>2 DEF Feeds
    <2>3. link' = Append(link, m)
      BY <1>2, <1>6
    <2> QED
      BY <1>1, <1>2, <1>3, <2>1, <2>2, <2>3, ChainSent
  <1> QED
    BY <1>5, <1>6

\* What synced says of the host, when a frame of a whole stretch is next.
LEMMA StandsAtFrame ==
    ASSUME Base, Chain, Ten(remote), synced, 1 \in 1 .. Len(link),
           link[1].chan = "rx", link[1].whole
    PROVE  Stands(protocol[1], link[1].at)
  <1>1. InStep(remote, link, protocol, synced) /\ Len(link) \in Nat \ {0}
    <2>1. link \in Seq(Messages)
      BY DEF Base
    <2>2. InStep(remote, link, protocol, synced)
      BY DEF Chain
    <2>3. Len(link) \in Nat
      BY <2>1
    <2>4. Len(link) \in Nat \ {0}
      BY <2>3
    <2> QED
      BY <2>2, <2>4
  <1>2. Source(link, synced, 0) /\ Clear(link, 0, 1)
    BY DEF Source, Clear
  <1>3. Target(remote, link, 1) /\ Place(remote, link, 1) = link[1].at
    BY <1>1 DEF Target, Place
  <1>4. 0 \in 0 .. Len(link) /\ 1 \in 1 .. Len(link) + 1 /\ 0 < 1
    BY <1>1
  <1>5. Leads(remote, link, protocol, 0, link[1].at)
    BY <1>1, <1>2, <1>3, <1>4 DEF InStep
  <1> QED
    BY <1>5 DEF Leads

LEMMA ChainHost ==
    ASSUME Base, NEW i \in 1 .. Len(link), Takes(i), protocol' # None,
           Ten(remote) => InStep(remote, Without(link, i), protocol', synced')
    PROVE  Chain'
  <1>1. remote' = remote /\ link' = Without(link, i)
    BY DEF Takes, Without
  <1> QED
    BY <1>1 DEF Chain

LEMMA ChainNegotiates ==
    ASSUME Base, Chain, NEW i \in 1 .. Len(link), Takes(i), Negotiates(i) PROVE Chain'
  <1>1. ~synced /\ synced' = synced
    BY DEF Chain, Negotiates
  <1>2. link \in Seq(Messages) /\ remote' = remote /\ link' = Without(link, i)
    BY DEF Base, Takes, Without
  <1>3. ASSUME Ten(remote) PROVE InStep(remote, Without(link, i), protocol', synced)
    <2>1. InStep(remote, link, protocol, synced)
      BY <1>3 DEF Chain
    <2> QED
      BY <1>1, <1>2, <2>1, InStepLost
  <1> QED
    BY <1>1, <1>2, <1>3 DEF Chain

LEMMA ChainHostCtl ==
    ASSUME Base, Chain, NEW i \in 1 .. Len(link), Takes(i), HostCtl(i) PROVE Chain'
  <1> DEFINE m == link[i]
             e == ParseCtl(protocol[1], m.data)
  <1>1. /\ protocol # None /\ m.chan = "ctl"
        /\ \/ /\ e.ev \in {"AUDIO_STOP", "START_SEARCH", "AUDIO_START", "CAPS_RESP", "UNKNOWN"}
              /\ protocol' = protocol /\ synced' = synced
           \/ /\ e.ev = "AUDIO_SYNC"
              /\ protocol' = Some(OnAudioSync(protocol[1], e)) /\ synced' = InTurn(i)
    BY DEF HostCtl
  <1>2. /\ remote \in Remotes /\ MessageOK(remote, protocol, m) /\ link \in Seq(Messages)
        /\ ObjectOK(remote, protocol) /\ m.at \in Ats
    BY DEF Base, RemoteOK, MessageOK, Messages
  <1>3. protocol[1] \in Protocols /\ protocol[1].version = VersionOf(remote)
    BY <1>1, <1>2 DEF ObjectOK
  <1>4. protocol' # None
    BY <1>1, SomeIsNotNone
  <1>5. ASSUME Ten(remote) PROVE InStep(remote, Without(link, i), protocol', synced')
    <2>1. InStep(remote, link, protocol, synced)
      BY <1>5 DEF Chain
    <2>2. CASE /\ e.ev # "AUDIO_SYNC"
               /\ protocol' = protocol /\ synced' = synced
      <3>1. ~Bearing(m)
        <4>1. m.data \notin {SyncOf(remote, m.at)} \/ e.ev = "AUDIO_SYNC"
          BY <1>2, <1>3, EventsAre
        <4>2. m.data \in {CapsOf(remote), StartOf(remote)} \cup StopsOf(remote)
          BY <1>1, <1>2, <2>2, <4>1 DEF MessageOK
        <4>3. m.data[1] # AudioSync
          BY <4>2, FirstBytes, OpcodesDiffer
        <4> QED
          BY <1>1, <4>3 DEF Bearing
      <3> HIDE DEF e
      <3>2. InStep(remote, Without(link, i), protocol, synced)
        BY <1>2, <2>1, <3>1, InStepPasses
      <3> QED
        BY <2>2, <3>2
    <2>3. CASE /\ e.ev = "AUDIO_SYNC"
               /\ protocol' = Some(OnAudioSync(protocol[1], e)) /\ synced' = InTurn(i)
      <3>1. CASE InTurn(i)
        <4>1. i = 1 /\ ~link[1].overtaken /\ link # <<>>
          BY <1>2, <3>1 DEF InTurn
        <4>2. m.data = SyncOf(remote, m.at)
          BY <1>1, <1>2, <1>3, <2>3, SyncsAreSyncs
        <4>3. Stands(protocol'[1], m.at)
          BY <1>2, <1>3, <1>5, <2>3, <4>2, SyncIsRead, SomeIsNotNone
        <4>4. Bearing(m)
          BY <4>2, FirstBytes DEF Bearing
        <4>5. \A at : Feeds(remote, link[1], at) => Stands(protocol'[1], at)
          BY <1>1, <4>1, <4>3 DEF Feeds
        <4> QED
          BY <1>2, <2>1, <4>1, <4>4, <4>5, InStepLed
      <3>2. CASE ~InTurn(i)
        <4>1. ~synced'
          BY <2>3, <3>2
        <4> QED
          BY <1>2, <2>1, <4>1, InStepLost
      <3> QED
        BY <3>1, <3>2
    <2> QED
      BY <1>1, <2>2, <2>3
  <1> QED
    BY <1>4, <1>5, ChainHost

LEMMA ChainHostRx ==
    ASSUME Base, Chain, NEW i \in 1 .. Len(link), Takes(i), HostRx(i) PROVE Chain'
  <1> DEFINE m == link[i]
             o == protocol[1]
             d == DecodeAudio(o, m.data)
  <1>1. /\ protocol # None /\ m.chan = "rx"
        /\ \/ d.frame # None /\ protocol' = Some(d.protocol) /\ synced' = (synced /\ InTurn(i))
           \/ protocol' = protocol /\ ~synced'
    BY DEF HostRx
  <1>2. /\ remote \in Remotes /\ Len(remote.payload) = PayloadLen /\ MessageOK(remote, protocol, m)
        /\ link \in Seq(Messages) /\ ObjectOK(remote, protocol) /\ m.at \in Ats
    BY DEF Base, RemoteOK, MessageOK, Messages
  <1>3. o \in Protocols /\ o.version = VersionOf(remote) /\ o.frame_size = SizeOf(remote)
    BY <1>1, <1>2 DEF ObjectOK
  <1>4. protocol' # None
    BY <1>1, SomeIsNotNone
  <1>5. ASSUME Ten(remote) PROVE InStep(remote, Without(link, i), protocol', synced')
    <2>1. InStep(remote, link, protocol, synced)
      BY <1>5 DEF Chain
    <2>2. CASE ~synced'
      BY <1>2, <2>1, <2>2, InStepLost
    <2>3. CASE synced /\ InTurn(i) /\ protocol' = Some(d.protocol)
      <3>1. i = 1 /\ ~link[1].overtaken /\ link # <<>>
        BY <1>2, <2>3 DEF InTurn
      <3>2. ASSUME NEW at, Feeds(remote, link[1], at) PROVE Stands(protocol'[1], at)
        <4>1. m.whole /\ m.data = FrameOf(remote, m.at) /\ at = Later(remote, m.at)
          BY <1>1, <3>1, <3>2 DEF Feeds
        <4>2. Stands(o, m.at)
          BY <1>1, <1>5, <2>3, <3>1, <4>1, StandsAtFrame
        <4> HIDE DEF m, o
        <4>3. Stands(DecodeAudio(o, FrameOf(remote, m.at)).protocol, Later(remote, m.at))
          BY <1>2, <1>3, <1>5, <4>2, FrameOfV10
        <4>4. protocol'[1] = d.protocol
          BY <2>3, SomeIsNotNone
        <4> QED
          BY <4>1, <4>3, <4>4
      <3>3. Bearing(link[1])
        BY <1>1, <3>1 DEF Bearing
      <3> QED
        BY <1>2, <2>1, <3>1, <3>2, <3>3, InStepLed
    <2>4. synced \in BOOLEAN /\ InTurn(i) \in BOOLEAN
      BY DEF Base, InTurn
    <2> QED
      BY <1>1, <2>2, <2>3, <2>4
  <1> QED
    BY <1>4, <1>5, ChainHost

LEMMA ChainInit == Init => Chain
  <1> SUFFICES ASSUME Init PROVE Chain
    OBVIOUS
  <1>1. link = <<>> /\ ~synced
    BY DEF Init
  <1>2. remote.whole = FALSE
    BY DEF Init
  <1>3. InStep(remote, link, protocol, synced)
    BY <1>1, <1>2 DEF InStep, Source
  <1> QED
    BY <1>1, <1>3 DEF Chain

LEMMA ChainStep == Base /\ Chain /\ [Next]_audioVars => Chain'
  <1> SUFFICES ASSUME Base, Chain, [Next]_audioVars PROVE Chain'
    OBVIOUS
  <1>1. CASE RemoteAnswersCaps
    BY <1>1, ChainAnswersCaps
  <1>2. CASE RemoteStarts
    BY <1>2, ChainStarts
  <1>3. CASE RemoteSyncs
    BY <1>3, ChainSyncs
  <1>4. CASE \E fate \in {"arrives", "cut", "lost"} : RemoteSpeaks(fate)
    BY <1>4, ChainSpeaks
  <1>5. CASE RemoteStops
    BY <1>5, ChainStops
  <1>6. ASSUME NEW i \in DOMAIN link, Takes(i), Negotiates(i) \/ HostCtl(i) \/ HostRx(i)
        PROVE  Chain'
    <2>1. i \in 1 .. Len(link)
      BY DEF Base
    <2> QED
      BY <1>6, <2>1, ChainNegotiates, ChainHostCtl, ChainHostRx
  <1>7. CASE HostCloses \/ UNCHANGED audioVars
    <2>1. UNCHANGED <<remote, link, protocol, synced>>
      BY <1>7 DEF HostCloses, audioVars
    <2> QED
      BY <2>1 DEF Chain
  <1> QED
    BY <1>1, <1>2, <1>3, <1>4, <1>5, <1>6, <1>7 DEF Next, Host

LEMMA HeardIsTrue ==
    ASSUME Base, Chain, NEW i \in 1 .. Len(link), Takes(i), HostRx(i) PROVE FramesAreTrue'
  <1> DEFINE m == link[i]
             o == protocol[1]
             d == DecodeAudio(o, m.data)
  <1>1. CASE heard' = None
    BY <1>1 DEF FramesAreTrue
  <1>2. CASE heard' # None
    <2>1. /\ d.frame # None /\ protocol # None /\ m.chan = "rx"
          /\ heard'[1].frame = d.frame[1] /\ heard'[1].truth = Truth(m.at)
          /\ heard'[1].exact = (o.version = "V0_4" \/ (synced /\ m.whole /\ InTurn(i)))
      BY <1>2, SomeIsNotNone DEF HostRx
    <2>2. SUFFICES ASSUME heard'[1].exact PROVE heard'[1].frame = heard'[1].truth
      BY DEF FramesAreTrue
    <2>3. o.version = "V0_4" \/ (synced /\ m.whole /\ InTurn(i))
      BY <2>1, <2>2
    <2>4. /\ remote \in Remotes /\ Len(remote.payload) = PayloadLen
          /\ MessageOK(remote, protocol, m) /\ m.at \in Ats /\ link \in Seq(Messages)
          /\ ObjectOK(remote, protocol)
      BY DEF Base, RemoteOK, MessageOK, Messages
    <2>5. o \in Protocols /\ o.version = VersionOf(remote) /\ o.frame_size = SizeOf(remote)
      BY <2>1, <2>4 DEF ObjectOK
    <2>6. Truth(m.at) = TruthOf(remote, m.at)
      BY BytesAreOf
    <2>7. m.data = FrameOf(remote, m.at)
      <3>1. Len(Cut(FrameOf(remote, m.at))) # o.frame_size
        BY <2>4, <2>5, FrameLength
      <3>2. m.data # Cut(FrameOf(remote, m.at))
        BY <2>1, <3>1, WrongLengthIsNoFrame
      <3> QED
        BY <2>1, <2>4, <3>2 DEF MessageOK
    <2>8. CASE Ten(remote)
      <3>1. synced /\ m.whole /\ i = 1
        BY <2>3, <2>5, <2>8 DEF VersionOf, InTurn
      <3>2. Stands(o, m.at)
        BY <2>1, <2>8, <3>1, StandsAtFrame
      <3> HIDE DEF m, o
      <3>3. DecodeAudio(o, FrameOf(remote, m.at)).frame = Some(TruthOf(remote, m.at))
        BY <2>4, <2>5, <2>8, <3>2, FrameOfV10
      <3> QED
        BY <2>1, <2>6, <2>7, <3>3, SomeIsNotNone
    <2>9. CASE ~Ten(remote)
      <3>1. o.codec = m.at.codec
        BY <2>1, <2>4, <2>9 DEF MessageOK
      <3> HIDE DEF m, o
      <3>2. DecodeAudio(o, FrameOf(remote, m.at)).frame = Some(TruthOf(remote, m.at))
        BY <2>4, <2>5, <2>9, <3>1, FrameOfV04
      <3> QED
        BY <2>1, <2>6, <2>7, <3>2, SomeIsNotNone
    <2> QED
      BY <2>8, <2>9
  <1> QED
    BY <1>1, <1>2

\* What was said is what is decoded, whatever is lost, cut, overtaken or
\* dropped before it: a v0.4 frame always, a v1.0 frame from the next
\* AUDIO_SYNC on (v04.rs:152-187, v10.rs:161-204, atvv.rs:233-279).
THEOREM FramesCorrect == Spec => []FramesAreTrue
  <1>1. Init => FramesAreTrue
    BY DEF Init, FramesAreTrue
  <1>2. ASSUME Base, Chain, FramesAreTrue, [Next]_audioVars PROVE FramesAreTrue'
    <2>1. CASE heard' = None
      BY <2>1 DEF FramesAreTrue
    <2>2. CASE UNCHANGED audioVars
      BY <1>2, <2>2 DEF audioVars, FramesAreTrue
    <2>3. ASSUME NEW i \in DOMAIN link, Takes(i), HostRx(i) PROVE FramesAreTrue'
      <3>1. i \in 1 .. Len(link)
        BY <1>2 DEF Base
      <3> QED
        BY <1>2, <2>3, <3>1, HeardIsTrue
    <2>4. \/ heard' = None \/ UNCHANGED audioVars
          \/ \E i \in DOMAIN link : Takes(i) /\ HostRx(i)
      BY <1>2 DEF Next, Host, RemoteAnswersCaps, RemoteStarts, RemoteSyncs, RemoteSpeaks,
                  RemoteStops, RemoteStep, Negotiates, HostCtl, HostCloses
    <2> QED
      BY <2>1, <2>2, <2>3, <2>4
  <1> QED
    BY <1>1, <1>2, BaseInit, BaseStep, ChainInit, ChainStep, PTL DEF Spec

-----------------------------------------------------------------------------
(* Counting the frames: what is on its way is not older than what the host *)
(* has seen of the stream, however the notifications overtake each other.  *)

IsStart(m) == m.chan = "ctl" /\ m.data[1] = AudioStart
SameStream(l, i, j) == \A k \in i + 1 .. j - 1 : ~IsStart(l[k])
Precedes(l, due, last, i, n) ==
    IF i = 0 THEN due <= n /\ last < n
    ELSE IF l[i].chan = "ctl" THEN l[i].at.n <= n ELSE l[i].at.n < n

\* `due` is the frame the host expects next, `last` the last it has seen.
InOrder(r, l, c, due, last) ==
    \A i \in 0 .. Len(l), j \in 1 .. Len(l) + 1 :
        i < j /\ SameStream(l, i, j) /\ Source(l, c, i) /\ (j <= Len(l) => Bearing(l[j]))
            => Precedes(l, due, last, i, Place(r, l, j).n)

LEMMA AtOfMessage ==
    ASSUME NEW l \in Seq(Messages), NEW i \in 1 .. Len(l)
    PROVE  l[i] \in Messages /\ l[i].at \in Ats /\ l[i].at.n \in Nat
  <1>1. l[i] \in Messages
    OBVIOUS
  <1>2. l[i].at \in Ats
    BY <1>1 DEF Messages
  <1> QED
    BY <1>1, <1>2 DEF Ats

\* With notification `k` gone, the one in place `j` is of the host's stream.
Comes(l, k, j) ==
    SameStream(Without(l, k), 0, j) /\ (j <= Len(l) - 1 => Bearing(Without(l, k)[j]))

\* The remote goes on in silence.
LEMMA OrderSilent ==
    ASSUME NEW r \in Remotes, NEW q \in Remotes, NEW l \in Seq(Messages), NEW c, NEW due,
           NEW last, c => due \in Int /\ last \in Int, InOrder(r, l, c, due, last), q.n >= r.n
    PROVE  InOrder(q, l, c, due, last)
  <1> DEFINE n == Len(l)
  <1>1. n \in Nat /\ r.n \in Nat /\ q.n \in Nat
    BY DEF Remotes
  <1> SUFFICES ASSUME NEW i \in 0 .. n, NEW j \in 1 .. n + 1,
                      i < j, SameStream(l, i, j), Source(l, c, i), j <= n => Bearing(l[j])
               PROVE  Precedes(l, due, last, i, Place(q, l, j).n)
    BY DEF InOrder
  <1>2. Precedes(l, due, last, i, Place(r, l, j).n)
    BY DEF InOrder
  <1>3. CASE j # n + 1
    BY <1>2, <1>3 DEF Place
  <1>4. CASE j = n + 1
    <2>1. Place(r, l, j).n = r.n /\ Place(q, l, j).n = q.n
      BY <1>4 DEF Place, AtOf
    <2>2. i # 0 => l[i].at.n \in Nat
      <3>1. i # 0 => i \in 1 .. n
        BY <1>1
      <3> QED
        BY <3>1, AtOfMessage
    <2>3. i = 0 => due \in Int /\ last \in Int
      BY DEF Source
    <2> QED
      BY <1>1, <1>2, <2>1, <2>2, <2>3 DEF Precedes
  <1> QED
    BY <1>3, <1>4

\* The remote sends `m`.
LEMMA OrderSent ==
    ASSUME NEW r \in Remotes, NEW q \in Remotes, NEW l \in Seq(Messages), NEW c, NEW due,
           NEW last, c => due \in Int /\ last \in Int, InOrder(r, l, c, due, last), NEW m \in Messages, m.at = AtOf(r),
           ~IsStart(m) => q.n >= r.n, m.chan = "rx" => q.n > r.n
    PROVE  InOrder(q, Append(l, m), c, due, last)
  <1> DEFINE l2 == Append(l, m)
             n == Len(l)
  <1>1. /\ l2 \in Seq(Messages) /\ Len(l2) = n + 1 /\ l2[n + 1] = m
        /\ \A i \in 1 .. n : l2[i] = l[i]
    BY Appended
  <1>2. n \in Nat /\ r.n \in Nat /\ q.n \in Nat /\ m.at.n = r.n
    BY DEF Remotes, AtOf
  <1> HIDE DEF l2
  <1> SUFFICES ASSUME NEW i \in 0 .. n + 1, NEW j \in 1 .. n + 2,
                      i < j, SameStream(l2, i, j), Source(l2, c, i),
                      j <= n + 1 => Bearing(l2[j])
               PROVE  Precedes(l2, due, last, i, Place(q, l2, j).n)
    BY <1>1 DEF InOrder, l2
  <1>3. CASE i <= n
    <2> DEFINE h == IF j = n + 2 THEN n + 1 ELSE j
    <2>1. i = 0 \/ (i \in 1 .. n /\ l2[i] = l[i])
      BY <1>1, <1>2, <1>3
    <2>2. Source(l, c, i)
      BY <2>1 DEF Source
    <2>3. h \in 1 .. n + 1 /\ i < h /\ h <= j /\ i \in 0 .. n
      BY <1>2, <1>3
    <2>4. SameStream(l, i, h)
      <3>1. SUFFICES ASSUME NEW k \in i + 1 .. h - 1 PROVE ~IsStart(l[k])
        BY DEF SameStream
      <3>2. k \in 1 .. n /\ k \in i + 1 .. j - 1
        BY <1>2, <2>3
      <3> QED
        BY <1>1, <3>2 DEF SameStream
    <2>5. h <= n => Bearing(l[h])
      BY <1>1, <1>2
    <2>6. Precedes(l, due, last, i, Place(r, l, h).n)
      BY <2>2, <2>3, <2>4, <2>5 DEF InOrder
    <2>7. \A z : Precedes(l, due, last, i, z) = Precedes(l2, due, last, i, z)
      BY <2>1 DEF Precedes
    <2>8. CASE j = n + 2
      <3>1. Place(r, l, h).n = r.n /\ Place(q, l2, j).n = q.n
        BY <1>1, <1>2, <2>8 DEF Place, AtOf
      <3>2. ~IsStart(m)
        <4>1. n + 1 \in i + 1 .. j - 1
          BY <1>2, <1>3, <2>8
        <4> QED
          BY <1>1, <4>1 DEF SameStream
      <3>3. Precedes(l, due, last, i, r.n) /\ q.n >= r.n
        BY <2>6, <3>1, <3>2
      <3>4. i # 0 => l[i].at.n \in Nat
        BY <2>1, AtOfMessage
      <3>5. i = 0 => due \in Int /\ last \in Int
        BY <2>2 DEF Source
      <3>6. Precedes(l, due, last, i, q.n)
        BY <1>2, <3>3, <3>4, <3>5 DEF Precedes
      <3> QED
        BY <2>7, <3>1, <3>6
    <2>9. CASE j = n + 1
      <3>1. Place(r, l, h).n = r.n /\ Place(q, l2, j).n = r.n
        BY <1>1, <1>2, <2>9 DEF Place, AtOf
      <3> QED
        BY <2>6, <2>7, <3>1
    <2>10. CASE j <= n
      <3>1. h = j /\ j # n + 1 /\ j # Len(l2) + 1 /\ l2[j] = l[j]
        BY <1>1, <1>2, <2>10
      <3>2. Place(r, l, h) = Place(q, l2, j)
        BY <3>1 DEF Place
      <3> QED
        BY <2>6, <2>7, <3>2
    <2> QED
      BY <1>2, <2>8, <2>9, <2>10
  <1>4. CASE i = n + 1
    <2>1. j = Len(l2) + 1 /\ l2[i] = m /\ i # 0
      BY <1>1, <1>2, <1>4
    <2>2. Place(q, l2, j).n = q.n
      BY <2>1 DEF Place, AtOf
    <2>3. Bearing(m)
      BY <2>1 DEF Source
    <2>4. ~IsStart(m)
      BY <2>3, OpcodesDiffer DEF Bearing, IsStart, Messages
    <2>5. m.at.n <= q.n /\ (m.chan # "ctl" => m.at.n < q.n)
      <3>1. m.chan \in {"ctl", "rx"}
        BY DEF Messages
      <3> QED
        BY <1>2, <2>4, <3>1
    <2> QED
      BY <2>1, <2>2, <2>5 DEF Precedes
  <1> QED
    BY <1>2, <1>3, <1>4

\* The host takes notification `k`: what is left keeps its order, and it
\* remains to be shown of the host.
LEMMA OrderTaken ==
    ASSUME NEW r, NEW l \in Seq(Messages), NEW k \in 1 .. Len(l), NEW c, NEW due, NEW last,
           InOrder(r, l, c, due, last), NEW c2, NEW due2, NEW last2,
           c2 => \A j \in 1 .. Len(l) :
                   Comes(l, k, j)
                     => LET n == Place(r, Without(l, k), j).n IN due2 <= n /\ last2 < n
    PROVE  InOrder(r, Without(l, k), c2, due2, last2)
  <1> DEFINE l2 == Without(l, k)
             n == Len(l)
  <1>1. /\ l2 \in Seq(Messages) /\ Len(l2) = n - 1
        /\ \A h \in 1 .. n - 1 :
             LET m == l2[h]
                 old == l[Old(k, h)]
             IN  /\ m.chan = old.chan /\ m.data = old.data /\ m.at = old.at
                 /\ m.overtaken = (h < k \/ old.overtaken)
    BY Removed
  <1>2. n \in Nat
    OBVIOUS
  <1>3. \A h \in 1 .. n - 1 : /\ Bearing(l2[h]) = Bearing(l[Old(k, h)])
                              /\ IsStart(l2[h]) = IsStart(l[Old(k, h)])
    BY <1>1 DEF Bearing, IsStart
  <1>4. c2 => \A j \in 1 .. n : SameStream(l2, 0, j) /\ (j <= n - 1 => Bearing(l2[j]))
                => due2 <= Place(r, l2, j).n /\ last2 < Place(r, l2, j).n
    BY DEF Comes
  <1> HIDE DEF l2, n
  <1> SUFFICES ASSUME NEW i \in 0 .. n - 1, NEW j \in 1 .. n,
                      i < j, SameStream(l2, i, j), Source(l2, c2, i),
                      j <= n - 1 => Bearing(l2[j])
               PROVE  Precedes(l2, due2, last2, i, Place(r, l2, j).n)
    BY <1>1, <1>2 DEF InOrder, l2
  <1>5. CASE i = 0
    <2>1. c2
      BY <1>5 DEF Source
    <2> QED
      BY <1>4, <1>5, <2>1 DEF Precedes
  <1>6. CASE i # 0
    <2>1. i \in 1 .. n - 1 /\ Bearing(l2[i]) /\ ~l2[i].overtaken
      BY <1>2, <1>6 DEF Source
    <2>2. l2[i].overtaken = (i < k \/ l[Old(k, i)].overtaken)
      BY <1>1, <2>1
    <2>3. ~(i < k) /\ ~l[Old(k, i)].overtaken
      BY <2>1, <2>2, Zenon
    <2>4. Old(k, i) = i + 1
      BY <2>3 DEF Old
    <2>5. Bearing(l[i + 1]) /\ ~l[i + 1].overtaken
      BY <1>3, <2>1, <2>3, <2>4
    <2>6. i >= k /\ j > k /\ k \in 1 .. n
      BY <1>2, <2>1, <2>3 DEF n
    <2>7. Source(l, c, i + 1)
      BY <1>2, <2>1, <2>5 DEF Source
    <2>8. SameStream(l, i + 1, j + 1)
      <3> SUFFICES ASSUME NEW h \in i + 2 .. j PROVE ~IsStart(l[h])
        BY <1>2, <2>1 DEF SameStream
      <3>1. h - 1 \in i + 1 .. j - 1 /\ h - 1 \in 1 .. n - 1 /\ ~(h - 1 < k)
        BY <1>2, <2>1, <2>6
      <3>2. Old(k, h - 1) = h
        BY <3>1 DEF Old
      <3>3. ~IsStart(l2[h - 1])
        BY <3>1 DEF SameStream
      <3> QED
        BY <1>3, <3>1, <3>2, <3>3
    <2>9. /\ j + 1 <= n => Bearing(l[j + 1])
          /\ Place(r, l, j + 1) = Place(r, l2, j)
      <3>1. CASE j = n
        <4>1. j = Len(l2) + 1 /\ j + 1 = Len(l) + 1 /\ ~(j + 1 <= n)
          BY <1>1, <1>2, <3>1 DEF n
        <4> QED
          BY <4>1 DEF Place
      <3>2. CASE j # n
        <4>1. /\ j \in 1 .. n - 1 /\ j # Len(l2) + 1 /\ j + 1 # Len(l) + 1 /\ Old(k, j) = j + 1
              /\ j <= n - 1
          BY <1>1, <1>2, <2>6, <3>2 DEF n, Old
        <4> QED
          BY <1>1, <1>3, <4>1 DEF Place
      <3> QED
        BY <3>1, <3>2
    <2>10. Precedes(l, due, last, i + 1, Place(r, l, j + 1).n)
      <3>1. i + 1 \in 0 .. n /\ j + 1 \in 1 .. n + 1 /\ i + 1 < j + 1
        BY <1>2, <2>1, <2>6
      <3> QED
        BY <2>7, <2>8, <2>9, <3>1 DEF InOrder, n
    <2>11. i + 1 # 0
      BY <1>2, <2>1
    <2> QED
      BY <1>1, <1>6, <2>1, <2>4, <2>9, <2>10, <2>11 DEF Precedes
  <1> QED
    BY <1>5, <1>6

\* What was ahead of the host stays ahead, unless a stream starts.
LEMMA OrderKept ==
    ASSUME NEW r, NEW l \in Seq(Messages), NEW k \in 1 .. Len(l), NEW c, NEW due, NEW last,
           InOrder(r, l, c, due, last), c, ~IsStart(l[k]), NEW j \in 1 .. Len(l),
           Comes(l, k, j)
    PROVE  LET n == Place(r, Without(l, k), j).n IN due <= n /\ last < n
  <1> DEFINE l2 == Without(l, k)
             n == Len(l)
             h == IF j = n THEN n + 1 ELSE Old(k, j)
  <1>1. /\ l2 \in Seq(Messages) /\ Len(l2) = n - 1
        /\ \A i \in 1 .. n - 1 :
             LET m == l2[i]
                 old == l[Old(k, i)]
             IN  m.chan = old.chan /\ m.data = old.data /\ m.at = old.at
    BY Removed
  <1>2. n \in Nat /\ k \in 1 .. n /\ j \in 1 .. n
    OBVIOUS
  <1>3. \A i \in 1 .. n - 1 : /\ Bearing(l2[i]) = Bearing(l[Old(k, i)])
                              /\ IsStart(l2[i]) = IsStart(l[Old(k, i)])
    BY <1>1 DEF Bearing, IsStart
  <1>4. SameStream(l2, 0, j) /\ (j <= n - 1 => Bearing(l2[j]))
    BY DEF Comes
  <1> HIDE DEF l2
  <1>5. h \in 1 .. n + 1 /\ 0 < h /\ 0 \in 0 .. n
    BY <1>2 DEF Old
  <1>6. SameStream(l, 0, h)
    <2> SUFFICES ASSUME NEW g \in 1 .. h - 1 PROVE ~IsStart(l[g])
      BY DEF SameStream
    <2>1. CASE g = k
      BY <2>1
    <2>2. CASE g # k
      <3> DEFINE f == IF g < k THEN g ELSE g - 1
      <3>1. f \in 0 + 1 .. j - 1 /\ f \in 1 .. n - 1 /\ Old(k, f) = g
        BY <1>2, <1>5, <2>2 DEF Old
      <3>2. ~IsStart(l2[f])
        BY <1>4, <3>1 DEF SameStream
      <3> QED
        BY <1>3, <3>1, <3>2
    <2> QED
      BY <2>1, <2>2
  <1>7. (h <= n => Bearing(l[h])) /\ Place(r, l, h) = Place(r, l2, j)
    <2>1. CASE j = n
      <3>1. j = Len(l2) + 1 /\ h = n + 1 /\ ~(h <= n)
        BY <1>1, <1>2, <2>1
      <3> QED
        BY <3>1 DEF Place
    <2>2. CASE j # n
      <3>1. /\ j \in 1 .. n - 1 /\ j <= n - 1 /\ j # Len(l2) + 1 /\ h = Old(k, j) /\ h # n + 1
        BY <1>1, <1>2, <2>2 DEF Old
      <3> QED
        BY <1>1, <1>3, <1>4, <3>1 DEF Place
    <2> QED
      BY <2>1, <2>2
  <1>8. Source(l, c, 0)
    BY DEF Source
  <1> HIDE DEF h
  <1>9. Precedes(l, due, last, 0, Place(r, l, h).n)
    BY <1>5, <1>6, <1>7, <1>8 DEF InOrder
  <1> QED
    BY <1>7, <1>9 DEF Precedes, l2

\* What follows a sync or a frame that is taken in its turn.
LEMMA OrderLed ==
    ASSUME NEW r, NEW l \in Seq(Messages), 1 \in 1 .. Len(l), NEW c, NEW due, NEW last,
           InOrder(r, l, c, due, last), Bearing(l[1]), ~l[1].overtaken, NEW j \in 1 .. Len(l),
           Comes(l, 1, j)
    PROVE  LET n == Place(r, Without(l, 1), j).n
           IN  /\ l[1].chan = "ctl" => l[1].at.n <= n
               /\ l[1].chan = "rx" => l[1].at.n < n
  <1> DEFINE l2 == Without(l, 1)
             n == Len(l)
  <1>1. /\ l2 \in Seq(Messages) /\ Len(l2) = n - 1
        /\ \A i \in 1 .. n - 1 :
             LET m == l2[i]
                 old == l[Old(1, i)]
             IN  m.chan = old.chan /\ m.data = old.data /\ m.at = old.at
    BY Removed
  <1>2. n \in Nat /\ 1 \in 1 .. n /\ j \in 1 .. n
    OBVIOUS
  <1>3. \A i \in 1 .. n - 1 : /\ Old(1, i) = i + 1
                              /\ Bearing(l2[i]) = Bearing(l[i + 1])
                              /\ IsStart(l2[i]) = IsStart(l[i + 1])
    <2> SUFFICES ASSUME NEW i \in 1 .. n - 1
                 PROVE  /\ Old(1, i) = i + 1
                        /\ Bearing(l2[i]) = Bearing(l[i + 1])
                        /\ IsStart(l2[i]) = IsStart(l[i + 1])
      OBVIOUS
    <2>1. Old(1, i) = i + 1
      BY <1>2 DEF Old
    <2>2. l2[i].chan = l[i + 1].chan /\ l2[i].data = l[i + 1].data
      BY <1>1, <2>1
    <2> HIDE DEF l2
    <2> QED
      BY <2>1, <2>2 DEF Bearing, IsStart
  <1>4. SameStream(l2, 0, j) /\ (j <= n - 1 => Bearing(l2[j]))
    BY DEF Comes
  <1> HIDE DEF l2
  <1>5. SameStream(l, 1, j + 1)
    <2> SUFFICES ASSUME NEW g \in 2 .. j PROVE ~IsStart(l[g])
      BY <1>2 DEF SameStream
    <2>1. g - 1 \in 0 + 1 .. j - 1 /\ g - 1 \in 1 .. n - 1 /\ (g - 1) + 1 = g
      BY <1>2
    <2>2. ~IsStart(l2[g - 1])
      BY <1>4, <2>1 DEF SameStream
    <2> QED
      BY <1>3, <2>1, <2>2
  <1>6. (j + 1 <= n => Bearing(l[j + 1])) /\ Place(r, l, j + 1) = Place(r, l2, j)
    <2>1. CASE j = n
      <3>1. j = Len(l2) + 1 /\ j + 1 = n + 1 /\ ~(j + 1 <= n)
        BY <1>1, <1>2, <2>1
      <3> QED
        BY <3>1 DEF Place
    <2>2. CASE j # n
      <3>1. j \in 1 .. n - 1 /\ j <= n - 1 /\ j # Len(l2) + 1 /\ j + 1 # n + 1
        BY <1>1, <1>2, <2>2
      <3> QED
        BY <1>1, <1>3, <1>4, <3>1 DEF Place
    <2> QED
      BY <2>1, <2>2
  <1>7. Source(l, c, 1)
    BY DEF Source
  <1>8. Precedes(l, due, last, 1, Place(r, l, j + 1).n)
    <2>1. 1 \in 0 .. n /\ j + 1 \in 1 .. n + 1 /\ 1 < j + 1
      BY <1>2
    <2> QED
      BY <1>5, <1>6, <1>7, <2>1 DEF InOrder
  <1>9. Place(r, l, j + 1).n = Place(r, l2, j).n
    BY <1>6
  <1>10. \/ l[1].chan = "ctl" /\ l[1].at.n <= Place(r, l2, j).n
         \/ l[1].chan # "ctl" /\ l[1].at.n < Place(r, l2, j).n
    BY <1>8, <1>9 DEF Precedes
  <1> HIDE DEF n
  <1> QED
    BY <1>10 DEF l2


-----------------------------------------------------------------------------
(* What is warned of.  The host numbers a stream modulo 2^16; the frame it *)
(* took last was number n, of which `unreported` more are missing than it  *)
(* has warned of.                                                          *)

\* The frames that number `w` skips after last_seq.
Skips(w, ls) == WrappingSub(w, WrappingAdd(ls[1], 1))
Told(a) == a.n - a.unreported
Due(r, p, a, ls) ==
    IF a.n = Fresh THEN 0 ELSE Told(a) + 1 + (IF Ten(r) THEN Skips(p[1].frame_seq, ls) ELSE 0)
Counted(r, a, ls) ==
    IF a.n = Fresh
      THEN ls = None
      ELSE /\ a.n \in Nat /\ a.unreported \in Nat /\ a.unreported <= a.n
           /\ ls = Some(SeqOf(Told(a)))
           /\ ~Ten(r) => a.unreported = 0

LEMMA SkipsDistance ==
    ASSUME NEW b \in Nat, NEW n \in Nat, b < n, n - b <= 65536
    PROVE  Skips(SeqOf(n), Some(SeqOf(b))) = n - b - 1
  <1>1. Some(SeqOf(b))[1] = SeqOf(b)
    BY SomeIsNotNone
  <1>2. WrappingSub(SeqOf(n), WrappingAdd(SeqOf(b), 1)) = n - b - 1
    BY Wires, WordsAre, SMT DEF WrappingSub, WrappingAdd, SeqOf
  <1> QED
    BY <1>1, <1>2 DEF Skips

LEMMA SkipsTo ==
    ASSUME NEW b \in Nat, NEW w \in Words
    PROVE  /\ Skips(w, Some(SeqOf(b))) \in Nat
           /\ SeqOf(b + 1 + Skips(w, Some(SeqOf(b)))) = w
  <1>1. Some(SeqOf(b))[1] = SeqOf(b)
    BY SomeIsNotNone
  <1>2. /\ WrappingSub(w, WrappingAdd(SeqOf(b), 1)) \in Nat
        /\ SeqOf(b + 1 + WrappingSub(w, WrappingAdd(SeqOf(b), 1))) = w
    BY Wires, WordsAre, SMT DEF WrappingSub, WrappingAdd, SeqOf
  <1> QED
    BY <1>1, <1>2 DEF Skips

LEMMA SkipsNone ==
    ASSUME NEW w \in Words
    PROVE  Skips(WrappingAdd(w, 1), Some(w)) = 0 /\ WrappingAdd(w, 1) \in Words
  <1>1. Some(w)[1] = w
    BY SomeIsNotNone
  <1>2. /\ WrappingSub(WrappingAdd(w, 1), WrappingAdd(w, 1)) = 0
        /\ WrappingAdd(w, 1) \in Words
    BY WordsAre, SMT DEF WrappingSub, WrappingAdd
  <1> QED
    BY <1>1, <1>2 DEF Skips

LEMMA DueType ==
    ASSUME NEW r, NEW p, NEW a, NEW ls, Counted(r, a, ls), p[1].frame_seq \in Words
    PROVE  Due(r, p, a, ls) \in Nat /\ a.n \in Int
  <1>1. CASE a.n = Fresh
    BY <1>1 DEF Due, Fresh
  <1>2. CASE a.n # Fresh
    <2>1. a.n \in Nat /\ Told(a) \in Nat /\ ls = Some(SeqOf(Told(a)))
      BY <1>2 DEF Counted, Told
    <2>2. Skips(p[1].frame_seq, ls) \in Nat
      BY <2>1, SkipsTo
    <2> QED
      BY <1>2, <2>1, <2>2 DEF Due
  <1> QED
    BY <1>1, <1>2

\* The next frame of a stream, the k-th, is taken under the number w.
LEMMA FrameReported ==
    ASSUME NEW r, NEW p, NEW a, NEW ls, Counted(r, a, ls), a.n # Fresh,
           p[1].frame_seq \in Words, NEW k \in Nat, k <= 65536, a.n < k, Due(r, p, a, ls) <= k,
           NEW w \in Words, Ten(r) => w = p[1].frame_seq, ~Ten(r) => w = SeqOf(k)
    PROVE  LET u == (a.unreported + (k - a.n - 1)) - Skips(w, ls)
           IN  /\ u \in Nat /\ u <= k /\ w = SeqOf(k - u)
               /\ ~Ten(r) => u = 0
               /\ w = SeqOf(k) => u = 0
  <1> DEFINE b == Told(a)
             s == Skips(w, ls)
  <1>1. /\ a.n \in Nat /\ a.unreported \in Nat /\ b \in Nat /\ b <= a.n
        /\ b = a.n - a.unreported /\ ls = Some(SeqOf(b))
    BY DEF Counted, Told
  <1>2. s \in Nat /\ SeqOf(b + 1 + s) = w
    BY <1>1, SkipsTo
  <1>3. w = SeqOf(k) => s = k - b - 1
    <2>1. b < k /\ k - b <= 65536
      BY <1>1
    <2> QED
      BY <1>1, <2>1, SkipsDistance
  <1>4. b + 1 + s <= k
    <2>1. CASE Ten(r)
      BY <2>1 DEF Due
    <2>2. CASE ~Ten(r)
      BY <1>1, <1>3, <2>2
    <2> QED
      BY <2>1, <2>2
  <1> DEFINE u == (a.unreported + (k - a.n - 1)) - s
  <1>5. u = k - (b + 1 + s)
    BY <1>1, <1>2
  <1> HIDE DEF b, s
  <1>6. u \in Nat /\ u <= k /\ k - u = b + 1 + s
    BY <1>1, <1>2, <1>4, <1>5
  <1>7. w = SeqOf(k) => u = 0
    BY <1>1, <1>3, <1>5
  <1> QED
    BY <1>2, <1>6, <1>7 DEF s

\* After it the host expects frame k + 1 at the latest.
LEMMA FrameTaken ==
    ASSUME NEW r, NEW p, NEW k \in Nat, NEW u \in Nat, u <= k, ~Ten(r) => u = 0,
           NEW a, a.n = k, a.unreported = u, NEW w \in Words, w = SeqOf(k - u),
           Ten(r) => p[1].frame_seq = WrappingAdd(w, 1)
    PROVE  Counted(r, a, Some(w)) /\ Due(r, p, a, Some(w)) <= k + 1 /\ a.n # Fresh
  <1>1. a.n # Fresh /\ Told(a) = k - u
    BY DEF Fresh, Told
  <1>2. Counted(r, a, Some(w))
    BY <1>1 DEF Counted
  <1>3. Ten(r) => Skips(p[1].frame_seq, Some(w)) = 0
    BY SkipsNone
  <1>4. Due(r, p, a, Some(w)) = k - u + 1
    BY <1>1, <1>3 DEF Due
  <1> QED
    BY <1>1, <1>2, <1>4

\* An AUDIO_SYNC of v1.0 that names the k-th frame.
LEMMA SyncTaken ==
    ASSUME NEW r, NEW p, NEW o, NEW a, NEW ls, Counted(r, a, ls), NEW k \in Nat, k <= 65536,
           a.n < k, p[1].frame_seq \in Words,
           Ten(r) => o[1].frame_seq = SeqOf(k), Due(r, p, a, ls) <= k, ~Ten(r) => o = p
    PROVE  Due(r, o, a, ls) <= k
  <1>1. CASE a.n = Fresh
    BY <1>1 DEF Due
  <1>2. CASE a.n # Fresh
    <2>1. CASE ~Ten(r)
      BY <2>1
    <2>2. CASE Ten(r)
      <3>1. /\ a.n \in Nat /\ Told(a) \in Nat /\ Told(a) <= a.n /\ ls = Some(SeqOf(Told(a)))
        BY <1>2 DEF Counted, Told
      <3>2. Skips(SeqOf(k), ls) = k - Told(a) - 1
        <4>1. Told(a) < k /\ k - Told(a) <= 65536
          BY <3>1
        <4> QED
          BY <3>1, <4>1, SkipsDistance
      <3>3. Due(r, o, a, ls) = Told(a) + 1 + Skips(SeqOf(k), ls)
        BY <1>2, <2>2 DEF Due
      <3> HIDE DEF Told
      <3> QED
        BY <3>1, <3>2, <3>3
    <2> QED
      BY <2>1, <2>2
  <1> QED
    BY <1>1, <1>2

LEMMA OrderStopped ==
    ASSUME NEW r, NEW l, NEW c, NEW due, NEW last, InOrder(r, l, c, due, last),
           NEW c2, ~c2, NEW due2, NEW last2
    PROVE  InOrder(r, l, c2, due2, last2)
  BY DEF InOrder, Source, Precedes

LEMMA PlaceIsNat ==
    ASSUME NEW r \in Remotes, NEW l \in Seq(Messages), NEW k \in 1 .. Len(l), NEW j \in 1 .. Len(l)
    PROVE  Place(r, Without(l, k), j).n \in Nat
  <1> DEFINE l2 == Without(l, k)
  <1>1. l2 \in Seq(Messages) /\ Len(l2) = Len(l) - 1
    BY Removed
  <1> HIDE DEF l2
  <1>2. CASE j = Len(l2) + 1
    BY <1>2 DEF Place, AtOf, Remotes, l2
  <1>3. CASE j # Len(l2) + 1
    <2>1. j \in 1 .. Len(l2)
      BY <1>1, <1>3
    <2> QED
      BY <1>1, <1>3, <2>1, AtOfMessage DEF Place, l2
  <1> QED
    BY <1>2, <1>3

-----------------------------------------------------------------------------
(* The account in every state.                                             *)

Keeps(r, l, p, counting, a, ls) ==
    /\ counting => Counted(r, a[1], ls)
    /\ InOrder(r, l, counting, Due(r, p, a[1], ls), a[1].n)
    /\ \A i \in 1 .. Len(l) : l[i].at.n <= MaxFrames

Counting == streaming /\ account # None
Accounted == Keeps(remote, link, protocol, Counting, account, lastSeq)

LEMMA CountingType ==
    ASSUME Base, Accounted, Counting
    PROVE  /\ Counted(remote, account[1], lastSeq)
           /\ protocol[1].frame_seq \in Words
           /\ Due(remote, protocol, account[1], lastSeq) \in Nat /\ account[1].n \in Int
  <1>1. Counted(remote, account[1], lastSeq)
    BY DEF Accounted, Keeps
  <1>2. protocol[1] \in Protocols
    BY DEF Base, ObjectOK, Counting
  <1>3. protocol[1].frame_seq \in Words
    BY <1>2 DEF Protocols
  <1> QED
    BY <1>1, <1>3, DueType

LEMMA SameWireSameAccount ==
    ASSUME NEW r, NEW q, SameWire(r, q), NEW p, NEW a, NEW ls
    PROVE  Due(q, p, a, ls) = Due(r, p, a, ls) /\ (Counted(r, a, ls) => Counted(q, a, ls))
  BY SameWireSameBytes DEF Due, Counted

\* What every step of the remote that sends something has in common.
LEMMA AccountedSent ==
    ASSUME Base, Accounted, RemoteStep, remote' \in Remotes, SameWire(remote, remote'),
           NEW chan \in {"ctl", "rx"}, NEW data \in Seq(Bytes),
           link' = Append(link, Note(chan, data, remote)),
           ~IsStart(Note(chan, data, remote)) => remote'.n >= remote.n,
           chan = "rx" => remote'.n > remote.n
    PROVE  Accounted'
  <1> DEFINE m == Note(chan, data, remote)
             due == Due(remote, protocol, account[1], lastSeq)
             last == account[1].n
  <1>1. /\ protocol' = protocol /\ streaming' = streaming /\ account' = account
        /\ lastSeq' = lastSeq
    BY DEF RemoteStep
  <1>2. remote \in Remotes /\ link \in Seq(Messages) /\ remote.n <= MaxFrames
    <2>1. remote \in Remotes /\ link \in Seq(Messages) /\ RemoteOK(remote, protocol)
      BY DEF Base, RemoteOK
    <2>2. remote.n \in Nat /\ remote.frames \in Nat /\ MaxFrames \in Nat
      BY <2>1, Wires DEF Remotes
    <2> QED
      BY <2>1, <2>2 DEF RemoteOK
  <1>3. m \in Messages /\ m.at = AtOf(remote) /\ m.chan = chan
    BY <1>2, NoteIsMessage
  <1>4. Counting => due \in Int /\ last \in Int
    BY CountingType
  <1>5. InOrder(remote, link, Counting, due, last) /\ \A i \in 1 .. Len(link) : link[i].at.n <= MaxFrames
    BY DEF Accounted, Keeps
  <1> HIDE DEF due, last
  <1>6. InOrder(remote', Append(link, m), Counting, due, last)
    <2>1. ~IsStart(m) => remote'.n >= remote.n
      OBVIOUS
    <2> HIDE DEF m
    <2> QED
      BY <1>2, <1>3, <1>4, <1>5, <2>1, OrderSent
  <1>7. \A i \in 1 .. Len(link') : link'[i].at.n <= MaxFrames
    <2>1. m.at.n <= MaxFrames
      BY <1>2, <1>3 DEF AtOf
    <2>2. /\ link' = Append(link, m)
      OBVIOUS
    <2> HIDE DEF m
    <2>3. /\ Len(link') = Len(link) + 1 /\ link'[Len(link) + 1] = m
          /\ \A i \in 1 .. Len(link) : link'[i] = link[i]
      BY <1>2, <1>3, <2>2, Appended
    <2>4. \A i \in 1 .. Len(link') : i \in 1 .. Len(link) \/ i = Len(link) + 1
      BY <1>2, <2>3
    <2> QED
      BY <1>5, <2>1, <2>3, <2>4
  <1>8. /\ Due(remote', protocol', account'[1], lastSeq') = due /\ account'[1].n = last
        /\ Counting' = Counting
        /\ Counting => Counted(remote', account'[1], lastSeq')
    <2>1. Counting' = Counting
      BY <1>1 DEF Counting
    <2>2. Due(remote', protocol, account[1], lastSeq) = due
      BY SameWireSameAccount DEF due
    <2>3. Counting => Counted(remote', account[1], lastSeq)
      BY SameWireSameAccount, CountingType
    <2> QED
      BY <1>1, <2>1, <2>2, <2>3 DEF last
  <1> QED
    BY <1>6, <1>7, <1>8 DEF Accounted, Keeps

\* Notifications of the ctl_stream other than AUDIO_START.
LEMMA AccountedSentAside ==
    ASSUME Base, Accounted, RemoteStep, remote' \in Remotes, SameWire(remote, remote'),
           AtOf(remote') = AtOf(remote), NEW data \in Seq(Bytes),
           link' = Append(link, Note("ctl", data, remote))
    PROVE  Accounted'
  <1>1. remote'.n = remote.n /\ remote.n \in Nat
    BY DEF AtOf, Base, RemoteOK, Remotes
  <1> QED
    BY <1>1, AccountedSent

LEMMA AccountedRemote ==
    ASSUME Base, Accounted,
           \/ RemoteAnswersCaps \/ RemoteStarts \/ RemoteSyncs \/ RemoteStops
           \/ \E fate : RemoteSpeaks(fate)
    PROVE  Accounted'
  <1>1. remote \in Remotes /\ Len(remote.payload) = PayloadLen /\ AtOf(remote) \in Ats
        /\ link \in Seq(Messages)
    BY AtIs DEF Base, RemoteOK
  <1>2. CASE RemoteAnswersCaps
    <2>1. CapsOf(remote) \in Seq(Bytes) /\ RemoteStep
      BY <1>1, <1>2, MessagesAreBytes DEF RemoteAnswersCaps
    <2> QED
      BY <1>2, <2>1, CapsAreSent, AccountedSentAside
  <1>3. CASE RemoteStarts
    <2>1. StartOf(remote) \in Seq(Bytes) /\ RemoteStep
      BY <1>1, <1>3, MessagesAreBytes DEF RemoteStarts
    <2>2. Note("ctl", StartOf(remote), remote).data = StartOf(remote)
          /\ Note("ctl", StartOf(remote), remote).chan = "ctl"
      BY <1>1, <2>1, NoteIsMessage
    <2>3. IsStart(Note("ctl", StartOf(remote), remote))
      BY <2>2, FirstBytes DEF IsStart
    <2> QED
      BY <1>3, <2>1, <2>3, StartIsSent, AccountedSent
  <1>4. CASE RemoteSyncs
    <2>1. SyncOf(remote, AtOf(remote)) \in Seq(Bytes) /\ RemoteStep
      BY <1>1, <1>4, MessagesAreBytes DEF RemoteSyncs
    <2> QED
      BY <1>4, <2>1, SyncIsSent, AccountedSentAside
  <1>5. CASE RemoteStops
    <2>1. PICK data \in StopsOf(remote) :
             /\ link' = Append(link, Note("ctl", data, remote))
             /\ remote' \in Remotes /\ SameWire(remote, remote')
             /\ AtOf(remote') = AtOf(remote)
      BY <1>5, StopIsSent
    <2>2. data \in Seq(Bytes) /\ RemoteStep
      BY <1>1, <1>5, <2>1, MessagesAreBytes DEF RemoteStops
    <2> QED
      BY <2>1, <2>2, AccountedSentAside
  <1>6. ASSUME NEW fate, RemoteSpeaks(fate) PROVE Accounted'
    <2> DEFINE data == Spoiled(fate, FrameOf(remote, AtOf(remote)))
    <2>1. /\ link' = IF fate = "lost" THEN link ELSE Append(link, Note("rx", data, remote))
          /\ remote' \in Remotes /\ SameWire(remote, remote')
          /\ AtOf(remote') = Later(remote, AtOf(remote))
      BY <1>6, FrameIsSent
    <2>2. data \in Seq(Bytes) /\ RemoteStep
      BY <1>1, <1>6, FrameLength DEF Spoiled, RemoteSpeaks
    <2> HIDE DEF data
    <2>3. remote'.n = remote.n + 1 /\ remote.n \in Nat
      BY <1>1, <2>1 DEF AtOf, Later, Remotes
    <2>4. CASE fate # "lost"
      BY <2>1, <2>2, <2>3, <2>4, AccountedSent
    <2>5. CASE fate = "lost"
      <3> DEFINE due == Due(remote, protocol, account[1], lastSeq)
                 last == account[1].n
      <3>1. /\ protocol' = protocol /\ streaming' = streaming /\ account' = account
            /\ lastSeq' = lastSeq /\ link' = link
        BY <2>1, <2>2, <2>5 DEF RemoteStep
      <3>2. Counting' = Counting
        BY <3>1 DEF Counting
      <3>3. /\ Due(remote', protocol, account[1], lastSeq) = due
            /\ Counting => Counted(remote', account[1], lastSeq)
        BY <2>1, SameWireSameAccount, CountingType
      <3>4. Counting => due \in Int /\ last \in Int
        BY CountingType
      <3>5. InOrder(remote, link, Counting, due, last)
            /\ \A i \in 1 .. Len(link) : link[i].at.n <= MaxFrames
        BY DEF Accounted, Keeps
      <3> HIDE DEF due, last
      <3>6. InOrder(remote', link, Counting, due, last)
        BY <1>1, <2>1, <2>3, <3>4, <3>5, OrderSilent
      <3> QED
        BY <3>1, <3>2, <3>3, <3>5, <3>6 DEF Accounted, Keeps, last
    <2> QED
      BY <2>4, <2>5
  <1> QED
    BY <1>2, <1>3, <1>4, <1>5, <1>6

\* What every step that takes a notification has in common.
LEMMA AccountedTaken ==
    ASSUME Base, Accounted, NEW i \in 1 .. Len(link), Takes(i),
           Counting' =>
             /\ Counted(remote, account'[1], lastSeq')
             /\ \A j \in 1 .. Len(link) :
                  Comes(link, i, j)
                    => LET n == Place(remote, Without(link, i), j).n
                       IN  Due(remote, protocol', account'[1], lastSeq') <= n /\ account'[1].n < n
    PROVE  Accounted'
  <1> DEFINE due == Due(remote, protocol', account'[1], lastSeq')
             last == account'[1].n
             counting == Counting'
  <1>1. remote' = remote /\ link' = Without(link, i)
    BY DEF Takes, Without
  <1>2. link \in Seq(Messages) /\ \A j \in 1 .. Len(link) : link[j].at.n <= MaxFrames
    BY DEF Base, Accounted, Keeps
  <1>3. counting => \A j \in 1 .. Len(link) :
                      Comes(link, i, j)
                        => LET n == Place(remote, Without(link, i), j).n IN due <= n /\ last < n
    OBVIOUS
  <1>4. InOrder(remote, link, Counting, Due(remote, protocol, account[1], lastSeq), account[1].n)
    BY DEF Accounted, Keeps
  <1> HIDE DEF due, last, counting
  <1>5. InOrder(remote, Without(link, i), counting, due, last)
    BY <1>2, <1>3, <1>4, OrderTaken
  <1>6. \A j \in 1 .. Len(link') : link'[j].at.n <= MaxFrames
    <2> DEFINE l2 == Without(link, i)
    <2>1. /\ Len(l2) = Len(link) - 1
          /\ \A j \in 1 .. Len(link) - 1 :
               Old(i, j) \in 1 .. Len(link) /\ l2[j].at = link[Old(i, j)].at
      <3>1. link \in Seq(Messages) /\ i \in 1 .. Len(link)
        BY <1>2
      <3> QED
        BY <3>1, Removed
    <2> HIDE DEF l2
    <2>2. \A j \in 1 .. Len(l2) : l2[j].at.n <= MaxFrames
      BY <1>2, <2>1
    <2> QED
      BY <1>1, <2>2 DEF l2
  <1> QED
    BY <1>1, <1>5, <1>6 DEF Accounted, Keeps, due, last, counting

\* A notification that changes nothing of the account.
LEMMA AccountedAside ==
    ASSUME Base, Accounted, NEW i \in 1 .. Len(link), Takes(i), ~IsStart(link[i]),
           UNCHANGED <<protocol, streaming, account, lastSeq>>
    PROVE  Accounted'
  <1> DEFINE due == Due(remote, protocol, account[1], lastSeq)
             last == account[1].n
  <1>1. link \in Seq(Messages)
    BY DEF Base
  <1>2. Counting' = Counting
    BY DEF Counting
  <1>3. InOrder(remote, link, Counting, due, last)
    BY DEF Accounted, Keeps
  <1>4. ASSUME Counting
        PROVE  \A j \in 1 .. Len(link) :
                 Comes(link, i, j)
                   => LET n == Place(remote, Without(link, i), j).n IN due <= n /\ last < n
    <2> HIDE DEF due, last
    <2> QED
      BY <1>1, <1>3, <1>4, OrderKept
  <1>5. Counting => Counted(remote, account[1], lastSeq)
    BY CountingType
  <1> QED
    BY <1>2, <1>4, <1>5, AccountedTaken

\* What a notification of the host's stream that is next in turn promises.
LEMMA NextInTurn ==
    ASSUME Base, Accounted, Counting, 1 \in 1 .. Len(link), Bearing(link[1])
    PROVE  /\ Due(remote, protocol, account[1], lastSeq) <= link[1].at.n
           /\ account[1].n < link[1].at.n
  <1> DEFINE due == Due(remote, protocol, account[1], lastSeq)
             last == account[1].n
  <1>1. InOrder(remote, link, Counting, due, last) /\ Len(link) \in Nat
    BY DEF Accounted, Keeps, Base
  <1> HIDE DEF due, last
  <1>2. SameStream(link, 0, 1) /\ Source(link, Counting, 0) /\ Place(remote, link, 1) = link[1].at
    BY <1>1 DEF SameStream, Source, Place
  <1>3. 0 \in 0 .. Len(link) /\ 1 \in 1 .. Len(link) + 1 /\ 0 < 1
    BY <1>1
  <1>4. Precedes(link, due, last, 0, link[1].at.n)
    BY <1>1, <1>2, <1>3 DEF InOrder
  <1> QED
    BY <1>4 DEF Precedes, due, last

\* The remote sends no more frames than the u16 numbers tell apart.
FewFrames == MaxFrames <= 65536

LEMMA FewAreFew == ASSUME FewFrames, NEW k \in Nat, k <= MaxFrames PROVE k <= 65536
  <1>1. MaxFrames \in Nat
    BY Wires
  <1> QED
    BY <1>1, SMT DEF FewFrames

\* What is known of a notification on its way.
LEMMA OnItsWay ==
    ASSUME Base, Accounted, NEW i \in 1 .. Len(link)
    PROVE  /\ remote \in Remotes /\ link \in Seq(Messages) /\ ObjectOK(remote, protocol)
           /\ MessageOK(remote, protocol, link[i]) /\ link[i].data \in Seq(Bytes)
           /\ link[i].at \in Ats /\ link[i].at.n \in Nat /\ link[i].at.n <= MaxFrames
  <1>1. /\ remote \in Remotes /\ link \in Seq(Messages) /\ ObjectOK(remote, protocol)
        /\ MessageOK(remote, protocol, link[i])
    BY DEF Base, RemoteOK
  <1>2. link[i] \in Messages /\ link[i].at \in Ats /\ link[i].at.n \in Nat
    BY <1>1, AtOfMessage
  <1>3. link[i].at.n <= MaxFrames
    BY DEF Accounted, Keeps
  <1>4. link[i].data \in Seq(Bytes)
    BY <1>2 DEF Messages
  <1> QED
    BY <1>1, <1>2, <1>3, <1>4

LEMMA AccountedNegotiates ==
    ASSUME Base, Accounted, NEW i \in 1 .. Len(link), Takes(i), Negotiates(i) PROVE Accounted'
  <1>1. ~Counting'
    BY DEF Base, Negotiates, Counting
  <1> QED
    BY <1>1, AccountedTaken

LEMMA AccountedHostCtl ==
    ASSUME Base, Accounted, FewFrames, NEW i \in 1 .. Len(link), Takes(i), HostCtl(i)
    PROVE  Accounted'
  <1> DEFINE m == link[i]
             o == protocol[1]
             e == ParseCtl(o, m.data)
  <1>1. /\ protocol # None /\ m.chan = "ctl"
    BY DEF HostCtl
  <1>2. /\ remote \in Remotes /\ MessageOK(remote, protocol, m) /\ link \in Seq(Messages)
        /\ ObjectOK(remote, protocol) /\ m.at \in Ats /\ m.at.n \in Nat /\ m.at.n <= MaxFrames
    BY OnItsWay
  <1>3. o \in Protocols /\ o.version = VersionOf(remote) /\ protocol = Some(o)
    BY <1>1, <1>2 DEF ObjectOK
  <1>4. CASE e.ev \in {"AUDIO_STOP", "START_SEARCH"} /\ ClosesMic
    <2>1. ~Counting'
      BY <1>4 DEF ClosesMic, Counting
    <2> QED
      BY <2>1, AccountedTaken
  <1>5. CASE /\ e.ev = "AUDIO_START" /\ StartsStreaming /\ protocol' = protocol
             /\ account' = IF InTurn(i) THEN Some([n |-> Fresh, unreported |-> 0]) ELSE None
    <2>1. CASE ~InTurn(i)
      <3>1. ~Counting'
        BY <1>5, <2>1 DEF Counting
      <3> QED
        BY <3>1, AccountedTaken
    <2>2. CASE InTurn(i)
      <3> DEFINE a == [n |-> Fresh, unreported |-> 0]
      <3>1. account' = Some(a) /\ a.n = Fresh
        BY <1>5, <2>2
      <3> HIDE DEF a
      <3>2. account'[1].n = Fresh /\ lastSeq' = None
        BY <1>5, <3>1, SomeIsNotNone DEF StartsStreaming
      <3>3. Counted(remote, account'[1], lastSeq') /\ Due(remote, protocol', account'[1], lastSeq') = 0
        BY <3>2 DEF Counted, Due
      <3>4. \A j \in 1 .. Len(link) : Place(remote, Without(link, i), j).n \in Nat
        BY <1>2, PlaceIsNat
      <3>5. \A n \in Nat : 0 <= n /\ Fresh < n
        BY DEF Fresh
      <3> QED
        BY <3>2, <3>3, <3>4, <3>5, AccountedTaken
    <2> QED
      BY <2>1, <2>2
  <1>6. CASE /\ e.ev = "AUDIO_SYNC" /\ protocol' = Some(OnAudioSync(o, e))
             /\ account' = (IF InTurn(i) THEN account ELSE None)
             /\ UNCHANGED <<streaming, lastSeq>>
    <2>1. CASE ~InTurn(i)
      <3>1. ~Counting'
        BY <1>6, <2>1 DEF Counting
      <3> QED
        BY <3>1, AccountedTaken
    <2>2. CASE InTurn(i)
      <3> DEFINE due == Due(remote, protocol, account[1], lastSeq)
                 last == account[1].n
                 due2 == Due(remote, protocol', account[1], lastSeq)
      <3>1. i = 1 /\ ~link[1].overtaken /\ account' = account /\ Counting' = Counting
            /\ lastSeq' = lastSeq
        BY <1>6, <2>2 DEF InTurn, Counting
      <3>2. m.data = SyncOf(remote, m.at)
        BY <1>1, <1>2, <1>3, <1>6, SyncsAreSyncs
      <3>3. Bearing(link[1])
        <4>1. link[1].data = SyncOf(remote, link[1].at)
          BY <3>1, <3>2
        <4>2. link[1].data[1] = AudioSync
          <5>1. SyncOf(remote, link[1].at)[1] = AudioSync
            BY FirstBytes
          <5> QED
            BY <4>1, <5>1
        <4> QED
          BY <4>2 DEF Bearing
      <3>4. Ten(remote) => protocol'[1].frame_seq = SeqOf(m.at.n)
        <4>1. Ten(remote) => Stands(OnAudioSync(o, e), m.at)
          BY <1>2, <1>3, <3>2, SyncIsRead
        <4> HIDE DEF e
        <4> QED
          BY <1>6, <4>1, SomeIsNotNone DEF Stands
      <3>5. ~Ten(remote) => protocol' = protocol
        BY <1>3, <1>6 DEF OnAudioSync, VersionOf
      <3>6. ASSUME Counting, NEW j \in 1 .. Len(link), Comes(link, i, j)
            PROVE  LET n == Place(remote, Without(link, i), j).n IN due2 <= n /\ last < n
        <4>1. /\ Counted(remote, account[1], lastSeq) /\ protocol[1].frame_seq \in Words
              /\ due \in Nat /\ last \in Int
          BY <3>6, CountingType
        <4>2. due <= m.at.n /\ last < m.at.n
          BY <3>1, <3>3, <3>6, NextInTurn
        <4>3. due2 <= m.at.n
          <5> DEFINE n == m.at.n
          <5>1. /\ n \in Nat /\ n <= 65536 /\ last < n /\ due <= n
                /\ Ten(remote) => protocol'[1].frame_seq = SeqOf(n)
            <6>1. n \in Nat /\ n <= MaxFrames
              BY <1>2
            <6> HIDE DEF n
            <6>2. n <= 65536
              BY <6>1, FewAreFew
            <6> QED
              BY <3>4, <4>2, <6>1, <6>2 DEF n
          <5> HIDE DEF n
          <5>2. Due(remote, protocol', account[1], lastSeq) <= n
            BY <3>5, <4>1, <5>1, SyncTaken DEF due, last
          <5> QED
            BY <5>2 DEF n, due2
        <4>4. due2 \in Int
          <5>1. protocol'[1].frame_seq \in Words
            BY <1>2, <3>4, <3>5, <4>1, SeqsAreWords
          <5> QED
            BY <4>1, <5>1, DueType
        <4>5. InOrder(remote, link, Counting, due, last)
          BY DEF Accounted, Keeps
        <4>6. m.at.n <= Place(remote, Without(link, 1), j).n
          <5> HIDE DEF due, last
          <5>1. Comes(link, 1, j) /\ 1 \in 1 .. Len(link) /\ ~link[1].overtaken /\ link[1] = m
            BY <3>1, <3>6
          <5>2. link[1].chan = "ctl" => link[1].at.n <= Place(remote, Without(link, 1), j).n
            BY <1>2, <3>3, <4>5, <5>1, OrderLed
          <5> QED
            BY <1>1, <5>1, <5>2
        <4>7. Place(remote, Without(link, 1), j).n \in Nat
          BY <1>2, <3>1, PlaceIsNat
        <4> HIDE DEF due2, last, m
        <4> QED
          BY <1>2, <3>1, <4>1, <4>2, <4>3, <4>4, <4>6, <4>7
      <3>7. Counting => Counted(remote, account[1], lastSeq)
        BY CountingType
      <3> QED
        BY <3>1, <3>6, <3>7, AccountedTaken
    <2> QED
      BY <2>1, <2>2
  <1>7. CASE /\ e.ev \in {"CAPS_RESP", "UNKNOWN"}
             /\ UNCHANGED <<protocol, account, streaming, lastSeq>>
    <2>1. m.data # StartOf(remote)
      BY <1>2, <1>3, <1>7, EventsAre
    <2>2. m.data[1] # AudioStart
      <3>1. StopsOf(remote) \subseteq {d \in StopsOf(remote) : d[1] # AudioStart}
        <4>1. AudioStop # AudioStart /\ StartSearch # AudioStart
          BY DEF AudioStop, AudioStart, StartSearch
        <4> QED
          BY <4>1, FirstBytes
      <3>2. CapsOf(remote)[1] # AudioStart /\ \A at : SyncOf(remote, at)[1] # AudioStart
        BY FirstBytes, OpcodesDiffer
      <3> QED
        BY <1>1, <1>2, <2>1, <3>1, <3>2 DEF MessageOK
    <2>3. ~IsStart(m)
      BY <2>2 DEF IsStart
    <2> QED
      BY <1>7, <2>3, AccountedAside
  <1> QED
    BY <1>4, <1>5, <1>6, <1>7 DEF HostCtl

\* v1.0 frames are numbered by the host.
LEMMA NumberV10 ==
    ASSUME NEW p \in Protocols, p.version = "V1_0", NEW data, DecodeAudio(p, data).frame # None
    PROVE  /\ DecodeAudio(p, data).frame[1].seq = p.frame_seq
           /\ DecodeAudio(p, data).protocol.frame_seq = WrappingAdd(p.frame_seq, 1)
  <1> DEFINE decoded == DecodeBytes(p.decoder, data)
             frame == [seq |-> p.frame_seq, codec |-> p.codec, samples |-> decoded.samples]
             moved == [p EXCEPT !.decoder = decoded.decoder]
             next == [moved EXCEPT !.frame_seq = WrappingAdd(p.frame_seq, 1)]
  <1>1. DecodeAudio(p, data) = [frame |-> Some(frame), protocol |-> next]
    BY DEF DecodeAudio, DecodeV10, NoFrame
  <1> HIDE DEF decoded
  <1>2. frame.seq = p.frame_seq /\ "frame_seq" \in DOMAIN moved
    BY DEF Protocols
  <1> HIDE DEF frame, moved
  <1>3. next.frame_seq = WrappingAdd(p.frame_seq, 1)
    BY <1>2
  <1> HIDE DEF next
  <1> QED
    BY <1>1, <1>2, <1>3, SomeIsNotNone

LEMMA WarningIs ==
    ASSUME NEW w \in Words, lastSeq # None
    PROVE  (IF GapReport(w) = None THEN 0 ELSE GapReport(w)[1]) = Skips(w, lastSeq)
  <1> DEFINE expected == WrappingAdd(lastSeq[1], 1)
  <1>1. GapReport(w) = IF w = expected THEN None ELSE Some(WrappingSub(w, expected))
    BY DEF GapReport
  <1>2. WrappingSub(w, w) = 0
    BY WordsAre, SMT DEF WrappingSub
  <1>3. Skips(w, lastSeq) = WrappingSub(w, expected)
    BY DEF Skips
  <1> HIDE DEF expected
  <1> QED
    BY <1>1, <1>2, <1>3, SomeIsNotNone

\* What becomes of the account of a frame that is forwarded: of the frames up
\* to it, `u` are missing and not warned of.
LEMMA FrameForwarded ==
    ASSUME Base, Chain, Accounted, FewFrames, NEW i \in 1 .. Len(link), Takes(i),
           HostRx(i), heard' # None
    PROVE  LET k == link[i].at.n
               u == heard'[1].unreported
               w == DecodeAudio(protocol[1], link[i].data).frame[1].seq
           IN  /\ u \in Nat /\ (heard'[1].exact => u = 0)
               /\ Counting' => /\ InTurn(i) /\ account' = Some([n |-> k, unreported |-> u])
                               /\ u <= k /\ w = SeqOf(k - u) /\ (~Ten(remote) => u = 0)
  <1> DEFINE m == link[i]
             o == protocol[1]
             d == DecodeAudio(o, m.data)
             w == d.frame[1].seq
             k == m.at.n
             u == Unreported(i, GapReport(w))
             exact == o.version = "V0_4" \/ (synced /\ m.whole /\ InTurn(i))
  <1>1. /\ d.frame # None /\ streaming /\ protocol # None /\ m.chan = "rx"
        /\ heard' = Some([frame |-> d.frame[1], truth |-> Truth(m.at), exact |-> exact,
                          unreported |-> u])
        /\ account' = IF InTurn(i) /\ (exact \/ (account # None /\ account[1].n # Fresh))
                        THEN Some([n |-> k, unreported |-> u])
                        ELSE None
    BY DEF HostRx
  <1>2. /\ remote \in Remotes /\ MessageOK(remote, protocol, m) /\ link \in Seq(Messages)
        /\ ObjectOK(remote, protocol) /\ m.data \in Seq(Bytes)
        /\ k \in Nat /\ k <= MaxFrames
    BY OnItsWay
  <1>3. o \in Protocols /\ o.version = VersionOf(remote)
    BY <1>1, <1>2 DEF ObjectOK
  <1>4. /\ heard'[1].exact = exact /\ heard'[1].unreported = u
        /\ heard'[1].frame = d.frame[1] /\ heard'[1].truth = Truth(m.at)
    <2> DEFINE f == [frame |-> d.frame[1], truth |-> Truth(m.at), exact |-> exact,
                     unreported |-> u]
    <2>1. /\ f.exact = exact /\ f.unreported = u /\ f.frame = d.frame[1] /\ f.truth = Truth(m.at)
          /\ heard' = Some(f)
      <3> HIDE DEF d, u, exact, m
      <3> QED
        BY <1>1
    <2> HIDE DEF f
    <2>2. heard'[1] = f
      BY <2>1, SomeIsNotNone
    <2> QED
      BY <2>1, <2>2
  <1>5. exact => w = SeqOf(k)
    <2>1. FramesAreTrue'
      BY HeardIsTrue
    <2>2. exact => d.frame[1] = Truth(m.at)
      <3> HIDE DEF d, u, exact, m
      <3> QED
        BY <1>4, <2>1 DEF FramesAreTrue
    <2>3. Truth(m.at).seq = SeqOf(k)
      BY DEF Truth
    <2> HIDE DEF d, exact
    <2> QED
      BY <2>2, <2>3
  <1>6. w \in Words /\ (Ten(remote) => w = o.frame_seq) /\ (~Ten(remote) => exact)
    BY <1>1, <1>2, <1>3, FrameType, NumberV10 DEF VersionOf
  <1>7. Counting => streaming /\ account # None
    BY DEF Counting
  <1> HIDE DEF d, w, exact, k
  <1>8. CASE account = None \/ ~InTurn(i) \/ account[1].n = Fresh
    <2>1. u = 0
      <3>1. CASE account = None \/ ~InTurn(i)
        BY <3>1 DEF Unreported
      <3>2. CASE account # None /\ InTurn(i) /\ account[1].n = Fresh
        <4>1. Counting
          BY <1>1, <3>2 DEF Counting
        <4>2. lastSeq = None
          BY <3>2, <4>1, CountingType DEF Counted
        <4>3. GapReport(w) = None
          BY <4>2 DEF GapReport
        <4>4. Unreported(i, None) = 0
          BY <3>2 DEF Unreported
        <4> QED
          BY <4>3, <4>4 DEF u
      <3> QED
        BY <1>8, <3>1, <3>2
    <2>2. Counting' => InTurn(i) /\ exact /\ account' = Some([n |-> k, unreported |-> u])
      BY <1>1, <1>8 DEF Counting
    <2>3. Counting' => u <= k /\ w = SeqOf(k - u)
      BY <1>2, <1>5, <2>1, <2>2
    <2> QED
      BY <1>4, <2>1, <2>2, <2>3 DEF m, k, w, d
  <1>9. CASE account # None /\ InTurn(i) /\ account[1].n # Fresh
    <2>1. Counting /\ i = 1
      BY <1>1, <1>9 DEF Counting, InTurn
    <2>2. /\ Counted(remote, account[1], lastSeq) /\ o.frame_seq \in Words
      BY <2>1, CountingType
    <2>3. Due(remote, protocol, account[1], lastSeq) <= k /\ account[1].n < k
      <3>1. Bearing(link[1])
        BY <1>1, <2>1 DEF Bearing
      <3> QED
        BY <2>1, <3>1, NextInTurn DEF k
    <2>4. lastSeq # None
      BY <1>9, <2>2, SomeIsNotNone DEF Counted
    <2>5. u = (account[1].unreported + (k - account[1].n - 1)) - Skips(w, lastSeq)
      <3> DEFINE missed == account[1].unreported + (link[i].at.n - account[1].n - 1)
                 lost == IF account[1].n = Fresh THEN 0 ELSE missed
                 warned == IF GapReport(w) = None THEN 0 ELSE GapReport(w)[1]
      <3>1. Unreported(i, GapReport(w)) = IF account = None \/ ~InTurn(i) THEN 0 ELSE lost - warned
        BY DEF Unreported
      <3>2. lost = missed
        BY <1>9
      <3>3. warned = Skips(w, lastSeq)
        BY <1>6, <2>4, WarningIs
      <3>4. missed = account[1].unreported + (k - account[1].n - 1)
        BY DEF k, m
      <3> HIDE DEF missed, lost, warned
      <3>5. u = missed - warned
        BY <1>9, <3>1, <3>2, Zenon DEF u
      <3> HIDE DEF u
      <3>6. u = missed - Skips(w, lastSeq)
        BY <3>3, <3>5
      <3> QED
        BY <3>4, <3>6
    <2> HIDE DEF u
    <2>6. k <= 65536 /\ (~Ten(remote) => w = SeqOf(k))
      <3>1. k <= 65536
        BY <1>2, FewAreFew
      <3> QED
        BY <1>5, <1>6, <3>1
    <2>7. /\ u \in Nat /\ u <= k /\ w = SeqOf(k - u)
          /\ ~Ten(remote) => u = 0
          /\ w = SeqOf(k) => u = 0
      BY <1>2, <1>6, <1>9, <2>2, <2>3, <2>5, <2>6, FrameReported
    <2>8. account' = Some([n |-> k, unreported |-> u])
      BY <1>1, <1>9
    <2> QED
      BY <1>4, <1>5, <1>9, <2>7, <2>8 DEF m, k, w, d
  <1> QED
    BY <1>8, <1>9

LEMMA AccountedHostRx ==
    ASSUME Base, Chain, Accounted, FewFrames, NEW i \in 1 .. Len(link), Takes(i),
           HostRx(i)
    PROVE  Accounted'
  <1> DEFINE m == link[i]
             d == DecodeAudio(protocol[1], m.data)
             w == d.frame[1].seq
             k == m.at.n
             u == heard'[1].unreported
  <1>1. m.chan = "rx" /\ protocol # None
    BY DEF HostRx
  <1>2. CASE heard' = None
    <2>1. UNCHANGED <<protocol, streaming, account, lastSeq>>
      BY <1>2, SomeIsNotNone DEF HostRx
    <2>2. ~IsStart(m)
      BY <1>1 DEF IsStart
    <2> QED
      BY <2>1, <2>2, AccountedAside
  <1>3. CASE heard' # None
    <2>1. /\ protocol' = Some(d.protocol) /\ lastSeq' = Some(w) /\ d.frame # None
      BY <1>3 DEF HostRx
    <2>2. /\ u \in Nat
          /\ Counting' => /\ InTurn(i) /\ account' = Some([n |-> k, unreported |-> u])
                          /\ u <= k /\ w = SeqOf(k - u) /\ (~Ten(remote) => u = 0)
      BY <1>3, FrameForwarded
    <2>3. /\ link \in Seq(Messages) /\ k \in Nat /\ remote \in Remotes /\ m.data \in Seq(Bytes)
          /\ protocol[1] \in Protocols /\ protocol[1].version = VersionOf(remote)
      <3>1. /\ link \in Seq(Messages) /\ k \in Nat /\ remote \in Remotes
            /\ m.data \in Seq(Bytes) /\ ObjectOK(remote, protocol)
        BY OnItsWay
      <3> QED
        BY <1>1, <3>1 DEF ObjectOK
    <2>4. w \in Words /\ protocol'[1] = d.protocol
      BY <2>1, <2>3, FrameType, SomeIsNotNone
    <2>5. Ten(remote) => protocol'[1].frame_seq = WrappingAdd(w, 1)
      BY <2>1, <2>3, <2>4, NumberV10 DEF VersionOf
    <2>6. InOrder(remote, link, Counting, Due(remote, protocol, account[1], lastSeq), account[1].n)
      BY DEF Accounted, Keeps
    <2> HIDE DEF d, w, u
    <2>7. ASSUME Counting'
          PROVE  /\ Counted(remote, account'[1], lastSeq')
                 /\ Due(remote, protocol', account'[1], lastSeq') <= k + 1
                 /\ Due(remote, protocol', account'[1], lastSeq') \in Nat
                 /\ account'[1].n = k /\ i = 1 /\ ~link[1].overtaken
      <3> DEFINE a == [n |-> k, unreported |-> u]
      <3>1. account' = Some(a) /\ a.n = k /\ a.unreported = u
        BY <2>2, <2>7
      <3> HIDE DEF a
      <3>2. account'[1] = a
        BY <3>1, SomeIsNotNone
      <3>3. u <= k /\ w = SeqOf(k - u) /\ (~Ten(remote) => u = 0) /\ InTurn(i)
        BY <2>2, <2>7
      <3> HIDE DEF k, m
      <3>4. Counted(remote, a, Some(w)) /\ Due(remote, protocol', a, Some(w)) <= k + 1
        <4>1. /\ k \in Nat /\ u \in Nat /\ u <= k /\ (~Ten(remote) => u = 0) /\ w \in Words
              /\ w = SeqOf(k - u)
          BY <2>2, <2>3, <2>4, <3>3
        <4>2. ASSUME NEW p, Ten(remote) => p[1].frame_seq = WrappingAdd(w, 1)
              PROVE  Counted(remote, a, Some(w)) /\ Due(remote, p, a, Some(w)) <= k + 1
          <5>1. a.n = k /\ a.unreported = u
            BY <3>1
          <5> HIDE DEF a, u, w, k
          <5> QED
            BY <4>1, <4>2, <5>1, FrameTaken
        <4> QED
          BY <2>5, <4>2
      <3>5. Due(remote, protocol', a, Some(w)) \in Nat
        <4>1. d.protocol \in Protocols
          BY <2>1, <2>3, FrameType DEF d
        <4>2. protocol'[1].frame_seq \in Words
          BY <2>4, <4>1 DEF Protocols
        <4> QED
          BY <3>4, <4>2, DueType
      <3> QED
        BY <2>1, <3>1, <3>2, <3>3, <3>4, <3>5 DEF InTurn
    <2>8. ASSUME Counting', NEW j \in 1 .. Len(link), Comes(link, i, j)
          PROVE  LET n == Place(remote, Without(link, i), j).n
                 IN  Due(remote, protocol', account'[1], lastSeq') <= n /\ account'[1].n < n
      <3>1. i = 1 /\ ~link[1].overtaken /\ account'[1].n = k
            /\ Due(remote, protocol', account'[1], lastSeq') <= k + 1
            /\ Due(remote, protocol', account'[1], lastSeq') \in Nat
        BY <2>7, <2>8
      <3>2. Bearing(link[1]) /\ link[1].chan = "rx" /\ k = link[1].at.n
        BY <1>1, <3>1 DEF Bearing
      <3>3. k < Place(remote, Without(link, 1), j).n
        BY <2>3, <2>6, <2>8, <3>1, <3>2, OrderLed
      <3>4. Place(remote, Without(link, 1), j).n \in Nat
        BY <2>3, <3>1, PlaceIsNat
      <3> HIDE DEF k, m
      <3> QED
        BY <2>3, <3>1, <3>3, <3>4
    <2> QED
      BY <2>7, <2>8, AccountedTaken
  <1> QED
    BY <1>2, <1>3

LEMMA AccountedInit == Init => Accounted
  <1> SUFFICES ASSUME Init PROVE Accounted
    OBVIOUS
  <1>1. link = <<>> /\ ~Counting
    BY DEF Init, Counting
  <1> QED
    BY <1>1 DEF Accounted, Keeps, InOrder, Source

LEMMA AccountedStep ==
    ASSUME Base, Chain, Accounted, FewFrames, [Next]_audioVars PROVE Accounted'
  <1>1. CASE \/ RemoteAnswersCaps \/ RemoteStarts \/ RemoteSyncs \/ RemoteStops
             \/ \E fate \in {"arrives", "cut", "lost"} : RemoteSpeaks(fate)
    BY <1>1, AccountedRemote
  <1>2. ASSUME NEW i \in DOMAIN link, Takes(i), Negotiates(i) \/ HostCtl(i) \/ HostRx(i)
        PROVE  Accounted'
    <2>1. i \in 1 .. Len(link)
      BY DEF Base
    <2> QED
      BY <1>2, <2>1, AccountedNegotiates, AccountedHostCtl, AccountedHostRx
  <1>3. CASE HostCloses
    <2>1. /\ ~Counting' /\ remote' = remote /\ link' = link
      BY <1>3 DEF HostCloses, ClosesMic, Counting
    <2>2. /\ InOrder(remote, link, Counting, Due(remote, protocol, account[1], lastSeq),
                     account[1].n)
          /\ \A i \in 1 .. Len(link) : link[i].at.n <= MaxFrames
      BY DEF Accounted, Keeps
    <2>3. InOrder(remote, link, Counting', Due(remote, protocol', account'[1], lastSeq'),
                  account'[1].n)
      BY <2>1, <2>2, OrderStopped
    <2> QED
      BY <2>1, <2>2, <2>3 DEF Accounted, Keeps
  <1>4. CASE UNCHANGED audioVars
    BY <1>4 DEF audioVars, Accounted, Keeps, Counting
  <1> QED
    BY <1>1, <1>2, <1>3, <1>4 DEF Next, Host

\* The gap detection warns of every missing frame and of no other, through
\* wrapped numbers, restarted streams, AUDIO_SYNCs and overtaking notifications
\* (atvv.rs:261-272).  Numbers are u16: the remote must not have sent more
\* frames than they can tell apart.
THEOREM GapsCorrect ==
    ASSUME FewFrames PROVE Spec => []GapsAreReported
  <1>1. Init => GapsAreReported
    BY DEF Init, GapsAreReported
  <1>2. ASSUME Base, Chain, Accounted, GapsAreReported, [Next]_audioVars PROVE GapsAreReported'
    <2>1. CASE heard' = None
      BY <2>1 DEF GapsAreReported
    <2>2. CASE UNCHANGED audioVars
      BY <1>2, <2>2 DEF audioVars, GapsAreReported
    <2>3. ASSUME NEW i \in DOMAIN link, Takes(i), HostRx(i), heard' # None
          PROVE  GapsAreReported'
      <3>1. i \in 1 .. Len(link)
        BY <1>2 DEF Base
      <3>2. heard'[1].unreported \in Nat /\ (heard'[1].exact => heard'[1].unreported = 0)
        <4>1. Base /\ Chain /\ Accounted /\ Takes(i) /\ HostRx(i) /\ heard' # None
          BY <1>2, <2>3
        <4> QED
          BY <3>1, <4>1, FrameForwarded
      <3> QED
        BY <3>2 DEF GapsAreReported
    <2>4. \/ heard' = None \/ UNCHANGED audioVars
          \/ \E i \in DOMAIN link : Takes(i) /\ HostRx(i)
      BY <1>2 DEF Next, Host, RemoteAnswersCaps, RemoteStarts, RemoteSyncs, RemoteSpeaks,
                  RemoteStops, RemoteStep, Negotiates, HostCtl, HostCloses
    <2> QED
      BY <2>1, <2>2, <2>3, <2>4
  <1>3. ASSUME Base, Chain, Accounted, [Next]_audioVars PROVE Accounted'
    BY <1>3, AccountedStep
  <1> QED
    BY <1>1, <1>2, <1>3, BaseInit, BaseStep, ChainInit, ChainStep, AccountedInit, PTL DEF Spec
=============================================================================
