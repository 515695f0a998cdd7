----------------------------- MODULE Protocol ------------------------------
(***************************************************************************)
(* The Protocol objects of src/src/protocol for ATVV v0.4 and v1.0: what   *)
(* the bytes of a notification mean, how a codec is agreed on, and how     *)
(* audio notifications become frames.  A notification is a sequence of     *)
(* bytes; data[1] is the source's data[0].  Option<T> is <<>> or <<x>>.    *)
(***************************************************************************)
EXTENDS Adpcm

None == <<>>
Some(x) == <<x>>

MaxWord == 65535
Words == 0 .. MaxWord       \* u16

U16(data, i) == 256 * data[i] + data[i + 1]     \* from_be_bytes
I16(data, i) == LET u == U16(data, i) IN IF u > MaxSample THEN u - 65536 ELSE u
WrappingAdd(x, y) == (x + y) % 65536            \* u16
WrappingSub(x, y) == (x - y) % 65536

Versions == {"V0_4", "V1_0"}
WireValue(version) == IF version = "V0_4" THEN 4 ELSE 256
FromWire(value) ==
    LET known == {v \in Versions : WireValue(v) = value}
    IN  IF known = {} THEN None ELSE Some(CHOOSE v \in known : TRUE)

Codecs == {"Adpcm8kHz", "Adpcm16kHz"}
CodecByte(codec) == IF codec = "Adpcm8kHz" THEN 1 ELSE 2
CodecOf(byte) == IF byte = 2 THEN "Adpcm16kHz" ELSE "Adpcm8kHz"    \* try_from, or 8 kHz
CodecsOf(bits) == {c \in Codecs : (bits \div CodecByte(c)) % 2 = 1}
InteractionModelOf(byte) == IF byte \in {1, 3} THEN byte ELSE 0    \* try_from, or OnRequest

MicOpen == 12           \* TxOpcode
AudioStop == 0          \* CtlOpcode
AudioStart == 4
StartSearch == 8
AudioSync == 10
CapsResp == 11
MicOpenError == 12

-----------------------------------------------------------------------------
(* Capabilities.                                                           *)

VersionOr(data, default) ==
    LET version == FromWire(U16(data, 2)) IN IF version = None THEN default ELSE version[1]

\* Mutant: a v0.4 response is read with the layout of v1.0.
ParsePayloadV04AsV10(data) ==
    IF Len(data) < 9
      THEN None
      ELSE Some([version |-> VersionOr(data, "V0_4"), codecs |-> CodecsOf(data[4]), model |-> 0,
                 frame_size |-> U16(data, 6)])

ParsePayloadV04(data) ==
    IF Len(data) < 9
      THEN None
      ELSE Some([version |-> VersionOr(data, "V0_4"), codecs |-> CodecsOf(data[5]), model |-> 0,
                 frame_size |-> U16(data, 6)])

ParsePayloadV10(data) ==
    IF Len(data) < 7
      THEN None
      ELSE Some([version |-> VersionOr(data, "V1_0"), codecs |-> CodecsOf(data[4]),
                 model |-> InteractionModelOf(data[5]), frame_size |-> U16(data, 6)])

ParseCapsResp(data) ==
    IF Len(data) < 3 \/ data[1] # CapsResp
      THEN None
      ELSE LET version == FromWire(U16(data, 2))
           IN  CASE version = Some("V0_4") -> ParsePayloadV04(data)
                 [] version = Some("V1_0") -> ParsePayloadV10(data)
                 [] OTHER -> None

\* The best codec both sides have, or None for the error.
NegotiateCodec(codecs) ==
    CASE "Adpcm16kHz" \in codecs -> Some("Adpcm16kHz")
      [] "Adpcm16kHz" \notin codecs /\ "Adpcm8kHz" \in codecs -> Some("Adpcm8kHz")
      [] OTHER -> None

\* A protocol object.  frame_seq and model are v1.0's.
Protocols ==
    [version : Versions, codec : Codecs, model : {0, 1, 3}, frame_size : Words,
     decoder : Decoders, frame_seq : Words]

NewProtocol(version) ==
    [version |-> version, codec |-> None, model |-> 0,
     frame_size |-> IF version = "V0_4" THEN 134 ELSE 20,
     decoder |-> NewDecoder, frame_seq |-> 0]

OnCapsResp(p, caps) ==
    LET codec == NegotiateCodec(caps.codecs)
    IN  IF codec = None
          THEN None
          ELSE Some([p EXCEPT !.codec = codec[1],
                              !.model = caps.model,
                              !.frame_size = caps.frame_size])

CreateProtocol(caps) == OnCapsResp(NewProtocol(caps.version), caps)

MicOpenBytes(p) ==
    IF p.version = "V0_4" THEN <<MicOpen, 0, CodecByte(p.codec)>> ELSE <<MicOpen, 0>>

-----------------------------------------------------------------------------
(* CTL notifications.                                                      *)

Unknown == [ev |-> "UNKNOWN"]

\* What the two versions have in common: opcodes without a payload they read.
ParseCtlPlain(data, caps) ==
    CASE data[1] = StartSearch -> [ev |-> "START_SEARCH"]
      [] data[1] = CapsResp /\ caps # None -> [ev |-> "CAPS_RESP", caps |-> caps[1]]
      [] data[1] = MicOpenError /\ Len(data) >= 3 ->
            [ev |-> "MIC_OPEN_ERROR", code |-> U16(data, 2)]
      [] OTHER -> Unknown

ParseCtlV04(p, data) ==
    CASE data[1] = AudioStop -> [ev |-> "AUDIO_STOP", reason |-> 0]
      [] data[1] = AudioStart -> [ev |-> "AUDIO_START", codec |-> p.codec, stream |-> 0]
      [] data[1] = AudioSync /\ Len(data) >= 3 -> [ev |-> "AUDIO_SYNC", seq |-> U16(data, 2)]
      [] OTHER -> ParseCtlPlain(data, ParsePayloadV04(data))

ParseCtlV10(p, data) ==
    CASE data[1] = AudioStop ->
            [ev |-> "AUDIO_STOP", reason |-> IF Len(data) >= 2 THEN data[2] ELSE 0]
      [] data[1] = AudioStart /\ Len(data) >= 4 ->
            [ev |-> "AUDIO_START", codec |-> CodecOf(data[3]), stream |-> data[4]]
      [] data[1] = AudioSync /\ Len(data) >= 7 ->
            [ev |-> "AUDIO_SYNC", codec |-> CodecOf(data[2]), seq |-> U16(data, 3),
             predictor |-> I16(data, 5), step_index |-> data[7]]
      [] OTHER -> ParseCtlPlain(data, ParsePayloadV10(data))

ParseCtl(p, data) ==
    CASE data = <<>> -> Unknown
      [] data # <<>> /\ p.version = "V0_4" -> ParseCtlV04(p, data)
      [] OTHER -> ParseCtlV10(p, data)

\* Mutant: AUDIO_SYNC sets the frame number and leaves the decoder alone.
OnAudioSyncSeqOnly(p, sync) ==
    IF p.version = "V0_4" THEN p ELSE [p EXCEPT !.frame_seq = sync.seq]

\* v0.4 only logs the frame number.
OnAudioSync(p, sync) ==
    IF p.version = "V0_4"
      THEN p
      ELSE [p EXCEPT !.decoder = Reset(sync.predictor, sync.step_index),
                     !.frame_seq = sync.seq,
                     !.codec = sync.codec]

-----------------------------------------------------------------------------
(* Audio notifications: the frame, if it is one, and the object after it.  *)

NoFrame(p) == [frame |-> None, protocol |-> p]

\* Every frame carries the decoder's state, which is also its first sample.
DecodeV04(p, data) ==
    IF Len(data) # p.frame_size \/ Len(data) < 6
      THEN NoFrame(p)
      ELSE LET predictor == I16(data, 4)
               decoded == DecodeBytes(Reset(predictor, data[6]), SubSeq(data, 7, Len(data)))
           IN  [frame |-> Some([seq |-> U16(data, 1), codec |-> p.codec,
                                samples |-> <<predictor>> \o decoded.samples]),
                protocol |-> [p EXCEPT !.decoder = decoded.decoder]]

\* Frames have no header; the decoder goes on from the frame before.
DecodeV10(p, data) ==
    IF Len(data) # p.frame_size
      THEN NoFrame(p)
      ELSE LET decoded == DecodeBytes(p.decoder, data)
           IN  [frame |-> Some([seq |-> p.frame_seq, codec |-> p.codec,
                                samples |-> decoded.samples]),
                protocol |-> [p EXCEPT !.decoder = decoded.decoder,
                                       !.frame_seq = WrappingAdd(p.frame_seq, 1)]]

DecodeAudio(p, data) ==
    IF p.version = "V0_4" THEN DecodeV04(p, data) ELSE DecodeV10(p, data)
=============================================================================
