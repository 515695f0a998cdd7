---------------------------- MODULE AudioStream ----------------------------
(***************************************************************************)
(* From the remote's microphone to the samples of a frame: capabilities,   *)
(* then streams of audio notifications, decoded by the Protocol object of  *)
(* the session (src/src/atvv.rs:180-279) and filtered (src/src/main.rs:    *)
(* 434-443, src/src/pw.rs:132-136).                                        *)
(*                                                                         *)
(* CTL and RX notifications are two streams.  The session polls them in    *)
(* random order, so one may overtake the other; within a stream the order  *)
(* is kept.  The remote is external: it encodes, numbers its frames from   *)
(* every AUDIO_START on, and loses some of them on the air.                *)
(***************************************************************************)
EXTENDS Protocol

CONSTANTS
    WireVersions,   \* the versions a remote may answer with, as on the wire
    CodecBits,      \* the codec bitmasks a remote may answer with
    StartIndexes,   \* the step indexes an encoder may start a stream with
    FirstSeq,       \* the number of a stream's first frame; 0 in the field
    PayloadBytes,   \* the ADPCM byte a remote says all the time; its encoder moves on
    PayloadLen,     \* bytes of ADPCM data in a frame, whose size is a u16
    Gain,           \* --gain as a factor
    MaxStreams,     \* bound: streams the remote starts
    MaxFrames,      \* bound: frames it encodes, in all streams together
    MaxSyncs,       \* bound: AUDIO_SYNCs it sends
    MaxInFlight     \* bound: notifications on their way

Fresh == -1         \* a stream no frame of which has been forwarded yet

ASSUME WireAssumption ==
    /\ WireVersions \subseteq Words /\ CodecBits \subseteq Bytes
    /\ StartIndexes \subseteq 0 .. MaxStepIndex /\ FirstSeq \in Words
    /\ PayloadBytes \subseteq Bytes /\ Gain \in Nat \ {0}
    /\ PayloadLen \in Nat \ {0} /\ PayloadLen + 6 \in Words
ASSUME BoundsAssumption == {MaxStreams, MaxFrames, MaxSyncs, MaxInFlight} \subseteq Nat

VARIABLES
    remote,     \* the remote: what it is, and its encoder
    link,       \* notifications on their way, in the order they were sent
    protocol,   \* session_protocol: None until CAPS_RESP, or Some(Protocols)
    refused,    \* create_protocol found no common codec
    streaming,  \* state == State::Streaming
    lastSeq,    \* last_seq
    heard,      \* what became of the frame the last step forwarded, or None
    synced,     \* history: the decoder stands where the encoder stood (v1.0)
    account     \* history: the frames missing and reported since a true one

audioVars == <<remote, link, protocol, refused, streaming, lastSeq, heard, synced, account>>

Init ==
    /\ \E v \in WireVersions, bits \in CodecBits, codec \in Codecs,
          si \in StartIndexes, byte \in PayloadBytes :
         /\ IF v # 4 /\ CodecsOf(bits) # {} THEN codec \in CodecsOf(bits) ELSE codec = "Adpcm8kHz"
         /\ remote = [version |-> v, codecs |-> bits, codec |-> codec, start |-> si,
                      payload |-> [i \in 1 .. PayloadLen |-> byte],
                      answered |-> FALSE, on |-> FALSE, encoder |-> NewDecoder,
                      n |-> 0, whole |-> FALSE,
                      streams |-> 0, frames |-> 0, syncs |-> 0]
    /\ link = <<>>
    /\ protocol = None /\ refused = FALSE
    /\ streaming = FALSE /\ lastSeq = None
    /\ heard = None /\ synced = FALSE /\ account = None

-----------------------------------------------------------------------------
(* The remote.                                                             *)

Hi(x) == (x % 65536) \div 256     \* to_be_bytes
Lo(x) == x % 256
Wire10 == remote.version # 4
FrameSize == IF Wire10 THEN PayloadLen ELSE PayloadLen + 6

\* Where the remote is in its stream, which every notification is sent from.
At == [n |-> remote.n, encoder |-> remote.encoder, codec |-> remote.codec]
SeqOf(n) == (FirstSeq + n) % 65536

\* The encoder after every nibble: IMA ADPCM as the remote computes it.
SpokenNibble(payload, i) ==
    LET byte == payload[((i - 1) \div 2) + 1] IN IF i % 2 = 1 THEN byte \div 16 ELSE byte % 16
Encodes(d, nibble) ==
    LET step == StepTable[d.step_index + 1]
        m == nibble % 8
        amount == step \div 8 + (m \div 4) * step
                  + ((m \div 2) % 2) * (step \div 2) + (m % 2) * (step \div 4)
    IN  [predictor |-> Clamp(IF nibble < 8 THEN d.predictor + amount ELSE d.predictor - amount,
                             MinSample, MaxSample),
         step_index |-> Clamp(d.step_index + IndexTable[m + 1], 0, 88)]
Spoken(encoder, payload) ==
    LET at[i \in 0 .. 2 * Len(payload)] ==
            IF i = 0 THEN encoder ELSE Encodes(at[i - 1], SpokenNibble(payload, i))
    IN  at

\* The frame that was said, number, codec and samples.
Truth(at) ==
    LET spoken == Spoken(at.encoder, remote.payload)
        said == [i \in 1 .. 2 * PayloadLen |-> spoken[i].predictor]
    IN  [seq |-> SeqOf(at.n), codec |-> at.codec,
         samples |-> IF Wire10 THEN said ELSE <<at.encoder.predictor>> \o said]

\* What goes over the air.
CapsBytes ==
    IF Wire10
      THEN <<CapsResp, Hi(remote.version), Lo(remote.version), remote.codecs, 1,
             Hi(FrameSize), Lo(FrameSize)>>
      ELSE <<CapsResp, Hi(remote.version), Lo(remote.version), 0, remote.codecs,
             Hi(FrameSize), Lo(FrameSize), 0, 1>>
StartBytes == IF Wire10 THEN <<AudioStart, 0, CodecByte(remote.codec), 0>> ELSE <<AudioStart>>
SyncBytes(at) ==
    IF Wire10
      THEN <<AudioSync, CodecByte(at.codec), Hi(SeqOf(at.n)), Lo(SeqOf(at.n)),
             Hi(at.encoder.predictor), Lo(at.encoder.predictor), at.encoder.step_index>>
      ELSE <<AudioSync, Hi(SeqOf(at.n)), Lo(SeqOf(at.n))>>
FrameBytes(at) ==
    IF Wire10
      THEN remote.payload
      ELSE <<Hi(SeqOf(at.n)), Lo(SeqOf(at.n)), 0,
             Hi(at.encoder.predictor), Lo(at.encoder.predictor), at.encoder.step_index>>
           \o remote.payload
StopBytes == IF Wire10 THEN {<<AudioStop, 2>>} ELSE {<<AudioStop>>, <<StartSearch>>}
Cut(data) == SubSeq(data, 1, Len(data) - 1)

Sends(chan, data) ==
    /\ Len(link) < MaxInFlight
    /\ link' = Append(link, [chan |-> chan, data |-> data, at |-> At,
                             whole |-> remote.whole, overtaken |-> FALSE])

RemoteStep ==
    UNCHANGED <<protocol, refused, streaming, lastSeq, synced, account>> /\ heard' = None

\* The answer to GET_CAPS, and once more if the first came late.
RemoteAnswersCaps ==
    /\ ~remote.answered /\ remote.streams = 0
    /\ remote' = [remote EXCEPT !.answered = (protocol # None)]
    /\ Sends("ctl", CapsBytes)
    /\ RemoteStep

\* A v0.4 remote encodes as MIC_OPEN says, a v1.0 remote as it likes.
RemoteStarts ==
    /\ protocol # None
    /\ remote.streams < MaxStreams
    /\ remote' = [remote EXCEPT !.on = TRUE, !.streams = @ + 1, !.n = 0, !.whole = FALSE,
                                !.codec = IF Wire10 THEN @
                                                    ELSE CodecOf(MicOpenBytes(protocol[1])[3]),
                                !.encoder = [predictor |-> 0, step_index |-> remote.start]]
    /\ Sends("ctl", StartBytes)
    /\ RemoteStep

RemoteSyncs ==
    /\ remote.on
    /\ remote.syncs < MaxSyncs
    /\ remote' = [remote EXCEPT !.syncs = @ + 1, !.whole = TRUE]
    /\ Sends("ctl", SyncBytes(At))
    /\ RemoteStep

\* A frame is encoded; it arrives whole, cut short by the link, or not at all.
RemoteSpeaks(fate) ==
    /\ remote.on
    /\ remote.frames < MaxFrames
    /\ remote' = [remote EXCEPT !.frames = @ + 1, !.n = @ + 1,
                                !.encoder = Spoken(@, remote.payload)[2 * PayloadLen],
                                !.whole = @ /\ fate = "arrives"]
    /\ IF fate = "lost"
         THEN UNCHANGED link
         ELSE Sends("rx", IF fate = "cut" THEN Cut(FrameBytes(At)) ELSE FrameBytes(At))
    /\ RemoteStep

\* The button is let go of: AUDIO_STOP, in v1.0 with a reason, or, from some
\* v0.4 remotes, another START_SEARCH.
RemoteStops ==
    /\ remote.on
    /\ remote' = [remote EXCEPT !.on = FALSE]
    /\ \E data \in StopBytes : Sends("ctl", data)
    /\ RemoteStep

-----------------------------------------------------------------------------
(* The host.                                                               *)

\* The next notification of one stream is taken, past those of the other.
Takes(i) ==
    /\ \A j \in 1 .. i - 1 : link[j].chan # link[i].chan
    /\ link' = [j \in 1 .. Len(link) - 1 |->
                    IF j < i THEN [link[j] EXCEPT !.overtaken = TRUE] ELSE link[j + 1]]
    /\ UNCHANGED remote

InTurn(i) == i = 1 /\ ~link[i].overtaken

\* negotiate: only a CAPS_RESP that can be read gets on to create_protocol.
Negotiates(i) ==
    /\ protocol = None /\ ~refused
    /\ link[i].chan = "ctl"
    /\ LET caps == ParseCapsResp(link[i].data)
       IN  IF caps = None
             THEN UNCHANGED <<protocol, refused>>
             ELSE /\ protocol' = CreateProtocol(caps[1])
                  /\ refused' = (protocol' = None)
    /\ UNCHANGED <<streaming, lastSeq, synced, account>>
    /\ heard' = None

\* close_mic_reset!
ClosesMic == streaming' = FALSE /\ lastSeq' = None

\* Mutant: the number of the last frame survives a new AUDIO_START.
StartsStreamingKeepsSeq == streaming' = TRUE /\ UNCHANGED lastSeq

StartsStreaming == streaming' = TRUE /\ lastSeq' = None

\* What the ctl_stream arm does to the audio path.
HostCtl(i) ==
    /\ protocol # None
    /\ link[i].chan = "ctl"
    /\ LET e == ParseCtl(protocol[1], link[i].data)
       IN  \/ /\ e.ev \in {"AUDIO_STOP", "START_SEARCH"}
              /\ ClosesMic
              /\ UNCHANGED <<protocol, synced, account>>
           \/ /\ e.ev = "AUDIO_START"
              /\ StartsStreaming
              /\ account' = IF InTurn(i) THEN Some([n |-> Fresh, unreported |-> 0]) ELSE None
              /\ UNCHANGED <<protocol, synced>>
           \/ /\ e.ev = "AUDIO_SYNC"
              /\ protocol' = Some(OnAudioSync(protocol[1], e))
              /\ synced' = InTurn(i)
              /\ account' = IF InTurn(i) THEN account ELSE None
              /\ UNCHANGED <<streaming, lastSeq>>
           \/ /\ e.ev \in {"CAPS_RESP", "UNKNOWN"}
              /\ UNCHANGED <<protocol, synced, account, streaming, lastSeq>>
    /\ heard' = None
    /\ UNCHANGED refused

\* A D-Bus call, a client or a timer closes the mic; the remote learns later.
HostCloses ==
    /\ streaming
    /\ ClosesMic
    /\ heard' = None
    /\ UNCHANGED <<remote, link, protocol, refused, synced, account>>

\* What the decoder task and the process callback make of a frame.
Processed(samples) ==
    LET clean == Declip(samples)
        smooth == Lowpass(clean)
    IN  [clean |-> clean, smooth |-> smooth, loud |-> ApplyGain(smooth, Gain)]

\* The warning of the gap detection: the number of frames it says were dropped.
GapReport(seq) ==
    LET expected == WrappingAdd(lastSeq[1], 1)
    IN  IF lastSeq = None \/ seq = expected THEN None ELSE Some(WrappingSub(seq, expected))

\* The frames of this stream that are missing and have not been warned of, as
\* far as the notifications were taken in turn.
Unreported(i, gap) ==
    LET lost == IF account[1].n = Fresh
                  THEN 0
                  ELSE account[1].unreported + (link[i].at.n - account[1].n - 1)
        warned == IF gap = None THEN 0 ELSE gap[1]
    IN  IF account = None \/ ~InTurn(i) THEN 0 ELSE lost - warned

\* The rx_stream arm: frames count only while streaming.
HostRx(i) ==
    /\ protocol # None
    /\ link[i].chan = "rx"
    /\ LET m == link[i]
           d == DecodeAudio(protocol[1], m.data)
           gap == GapReport(d.frame[1].seq)
           exact == protocol[1].version = "V0_4" \/ (synced /\ m.whole /\ InTurn(i))
       IN  \/ /\ streaming /\ d.frame # None
              /\ protocol' = Some(d.protocol)
              /\ lastSeq' = Some(d.frame[1].seq)
              /\ synced' = (synced /\ InTurn(i))
              /\ account' = IF InTurn(i) /\ (exact \/ (account # None /\ account[1].n # Fresh))
                              THEN Some([n |-> m.at.n, unreported |-> Unreported(i, gap)])
                              ELSE None
              /\ heard' = Some([frame |-> d.frame[1], truth |-> Truth(m.at), exact |-> exact,
                                unreported |-> Unreported(i, gap)])
           \/ /\ ~streaming \/ d.frame = None
              /\ synced' = FALSE
              /\ heard' = None
              /\ UNCHANGED <<protocol, lastSeq, account>>
    /\ UNCHANGED <<refused, streaming>>

Host ==
    \/ \E i \in DOMAIN link : Takes(i) /\ (Negotiates(i) \/ HostCtl(i) \/ HostRx(i))
    \/ HostCloses

Next ==
    \/ RemoteAnswersCaps
    \/ RemoteStarts
    \/ RemoteSyncs
    \/ \E fate \in {"arrives", "cut", "lost"} : RemoteSpeaks(fate)
    \/ RemoteStops
    \/ Host

Spec == Init /\ [][Next]_audioVars

-----------------------------------------------------------------------------
(* Properties.                                                             *)

AudioTypeOK ==
    /\ protocol = None \/ protocol[1] \in Protocols
    /\ refused \in BOOLEAN /\ streaming \in BOOLEAN /\ synced \in BOOLEAN
    /\ lastSeq = None \/ lastSeq[1] \in Words
    /\ heard # None =>
         LET pcm == Processed(heard[1].frame.samples)
         IN  \A i \in DOMAIN heard[1].frame.samples :
                {heard[1].frame.samples[i], pcm.clean[i], pcm.smooth[i], pcm.loud[i]}
                    \subseteq Sample

\* Both sides mean the same: what create_protocol makes of the bytes of a
\* CAPS_RESP (mod.rs:42-106) is the remote's version and frame size and the
\* best codec both have; it fails only if there is none.  The codec may change
\* with an AUDIO_SYNC of v1.0, to another one the remote has.
NegotiationAgrees ==
    LET common == CodecsOf(remote.codecs)
    IN  /\ protocol # None =>
             /\ protocol[1].version = (IF Wire10 THEN "V1_0" ELSE "V0_4")
             /\ protocol[1].frame_size = FrameSize
             /\ protocol[1].codec \in common
             /\ remote.syncs = 0 /\ "Adpcm16kHz" \in common
                  => protocol[1].codec = "Adpcm16kHz"
        /\ refused => common = {}

\* What was said is what is decoded: number, codec and samples of a frame are
\* those of the remote's encoder.  A v0.4 frame needs nothing else; a v1.0
\* frame needs an AUDIO_SYNC, taken in its turn, after the last thing that was
\* lost, cut or dropped (v04.rs:152-187, v10.rs:161-204, atvv.rs:233-279).
FramesAreTrue == heard # None /\ heard[1].exact => heard[1].frame = heard[1].truth

\* The gap detection (atvv.rs:261-272) warns of every missing frame and of no
\* other, through wrapped numbers and restarted streams: at a frame that is
\* true nothing is left to warn of, and never too much has been warned of.
GapsAreReported ==
    heard # None =>
        /\ heard[1].unreported >= 0
        /\ heard[1].exact => heard[1].unreported = 0

\* The low-pass filter is the FIR filter its comment promises (adpcm.rs:175-
\* 196): no sample depends on a filtered one, and both ends are untouched.
LowpassIsTriangle ==
    heard # None =>
        LET pcm == Processed(heard[1].frame.samples)
            x == pcm.clean
            y == pcm.smooth
        IN  \A i \in DOMAIN x :
              y[i] = IF i \in {1, Len(x)} THEN x[i] ELSE (x[i - 1] + 2 * x[i] + x[i + 1]) \div 4

Jumps(s) == {Abs(s[i + 1] - s[i]) : i \in 1 .. Len(s) - 1}

\* Removing clicks (adpcm.rs:161-173) adds none.  The neighbours that judge a
\* sample may have been corrected themselves; all the same each sample is kept
\* or put between its neighbours, and no jump is greater than the greatest was.
DeclipCalms ==
    heard # None =>
        LET x == heard[1].frame.samples
            y == Declip(x)
        IN  /\ \A i \in 2 .. Len(x) - 1 :
                 \/ y[i] = x[i]
                 \/ y[i - 1] <= y[i] /\ y[i] <= x[i + 1]
                 \/ y[i - 1] >= y[i] /\ y[i] >= x[i + 1]
            /\ \A jump \in Jumps(y) : \E was \in Jumps(x) : jump <= was

\* The gain saturates (adpcm.rs:202-207): a louder sample never comes out
\* quieter or with the other sign.
GainKeepsOrder ==
    heard # None =>
        LET pcm == Processed(heard[1].frame.samples)
            x == pcm.smooth
            y == pcm.loud
        IN  \A i, j \in DOMAIN x : x[i] <= x[j] => y[i] <= y[j]
=============================================================================
