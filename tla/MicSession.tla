----------------------------- MODULE MicSession -----------------------------
(***************************************************************************)
(* One call of run_session (src/src/atvv.rs:111-379): the single task that *)
(* owns the microphone of a connected remote.  Every arm of its select!    *)
(* loop is one action, which performs the whole arm.  The environment is   *)
(* open: a notification, a command, a consumer count or the passing of     *)
(* time may come at any moment, in any order.  MicLink closes it.          *)
(*                                                                         *)
(* Time is counted in ticks.  A timer that has run out stays run out until *)
(* it is reset (tokio::time::Sleep), and the arm it guards may be polled   *)
(* any number of ticks later.                                              *)
(***************************************************************************)
EXTENDS Integers, Sequences

CONSTANTS
    StreamIds,      \* the stream ids a remote may announce
    SeqMod,         \* the width of a frame's sequence number (2^16 in the code)
    AudioCap,       \* the capacity of audio_tx (DECODER_CHANNEL_CAPACITY)
    FrameTimeout,   \* --frame-timeout in ticks, 0 = disabled
    Keepalive,      \* --keep-alive in ticks, 0 = disabled
    OnDemand,       \* --mic-on-demand
    V10             \* TRUE: protocol v1.0, FALSE: v0.4

None == -1          \* Option::None for a stream id or a sequence number
MicOpenId == 0      \* StreamId::MIC_OPEN

ASSUME StreamIdsAssumption == StreamIds \subseteq Nat /\ MicOpenId \in StreamIds
ASSUME SeqModAssumption == SeqMod \in Nat \ {0}
ASSUME AudioCapAssumption == AudioCap \in Nat \ {0}
ASSUME TimeoutAssumption == FrameTimeout \in Nat /\ Keepalive \in Nat
ASSUME SwitchAssumption == OnDemand \in BOOLEAN /\ V10 \in BOOLEAN

Seqs == 0 .. SeqMod - 1
StopReasons == {"MicClose", "HttButtonRelease", "UpcomingAudioStart", "TransferTimeout"}
ExternalCommands == {"MicOpen", "MicClose", "MicToggle"}
Streams == {"ctl", "rx", "events", "cmd"}
Unfolds == {"ctl", "rx"}    \* the streams that panic when polled after their end

\* What write_command can be given.  A v0.4 MIC_CLOSE carries no stream id.
Commands ==
    [op : {"MIC_OPEN", "MIC_CLOSE", "MIC_EXTEND"}, sid : StreamIds \cup {None}]

VARIABLES
    state,      \* the session state sent on state_tx
    streamId,   \* current_stream_id
    lastSeq,    \* last_seq
    frameLeft,  \* ticks until frame_timer elapses
    keepLeft,   \* ticks until keepalive_timer elapses
    audio,      \* the frames in the audio_tx channel
    parked,     \* the frame run_session awaits a channel slot for, or None
    open,       \* the streams that have not ended
    off,        \* those of the others whose arm the select! has disabled
    result,     \* "running", or how run_session returned or died
    written,    \* <<command>> if the last step wrote one, <<>> otherwise
    quiet       \* history: ticks since the mic was asked for or last heard of

sessionVars ==
    <<state, streamId, lastSeq, frameLeft, keepLeft, audio, parked, open, off,
      result, written, quiet>>

TypeOK ==
    /\ state \in {"connected", "opening", "streaming"}
    /\ streamId \in StreamIds \cup {None}
    /\ lastSeq \in Seqs \cup {None}
    /\ frameLeft \in 0 .. FrameTimeout
    /\ keepLeft \in 0 .. Keepalive
    /\ audio \in Seq(Seqs) /\ Len(audio) <= AudioCap
    /\ parked \in Seqs \cup {None}
    /\ open \in SUBSET Streams /\ off \in SUBSET (Unfolds \ open)
    /\ result \in {"running", "ok", "err", "panic"}
    /\ written \in {<<>>} \cup {<<c>> : c \in Commands}
    /\ quiet \in 0 .. FrameTimeout

Init ==
    /\ state = "connected"
    /\ streamId = None
    /\ lastSeq = None
    /\ frameLeft = FrameTimeout
    /\ keepLeft = Keepalive
    /\ audio = <<>>
    /\ parked = None
    /\ open = Streams /\ off = {}
    /\ result = "running"
    /\ written = <<>>
    /\ quiet = 0

-----------------------------------------------------------------------------
(* The commands, and the steps several arms share.                         *)

CloseId == IF streamId = None THEN MicOpenId ELSE streamId
MicOpenCmd == [op |-> "MIC_OPEN", sid |-> None]
MicCloseCmd == [op |-> "MIC_CLOSE", sid |-> IF V10 THEN CloseId ELSE None]
KeepaliveCmd ==
    IF V10 THEN [op |-> "MIC_EXTEND", sid |-> CloseId] ELSE MicOpenCmd

\* The loop waits in select!: it has not returned and is not parked in a send.
Polling == result = "running" /\ parked = None
\* An arm matches.  The next select! starts with all arms enabled.
Matched == Polling /\ off' = {}
MicActive == state \in {"streaming", "opening"}

Wrote(cmd) == written' = <<cmd>>
WroteNothing == written' = <<>>

RestartFrameTimer == frameLeft' = FrameTimeout

\* A write under `?` fails: the session returns the error from inside the arm.
WriteFails ==
    /\ result' = "err"
    /\ WroteNothing
    /\ UNCHANGED <<state, streamId, lastSeq, frameLeft, keepLeft, audio, parked, open, quiet>>

\* MIC_OPEN, then State::Opening and a fresh frame timer.
OpenMic ==
    /\ Wrote(MicOpenCmd)
    /\ state' = "opening"
    /\ RestartFrameTimer
    /\ quiet' = 0
    /\ UNCHANGED <<streamId, lastSeq, keepLeft, audio, parked, open, result>>

\* Mutant: the macro forgets current_stream_id.
CloseKeepsStreamId ==
    /\ state' = "connected"
    /\ lastSeq' = None
    /\ UNCHANGED <<streamId, frameLeft, keepLeft, audio, parked, open, result, quiet>>

\* close_mic_reset!
CloseMicReset ==
    /\ state' = "connected"
    /\ lastSeq' = None
    /\ streamId' = None
    /\ UNCHANGED <<frameLeft, keepLeft, audio, parked, open, result, quiet>>

CloseMic == Wrote(MicCloseCmd) /\ CloseMicReset
\* `let _ = write`: the reset happens whether or not the write succeeds.
CloseMicBestEffort == (Wrote(MicCloseCmd) \/ WroteNothing) /\ CloseMicReset

Ignore ==
    /\ WroteNothing
    /\ UNCHANGED <<state, streamId, lastSeq, frameLeft, keepLeft, audio, parked, open, result, quiet>>

-----------------------------------------------------------------------------
(* CTL notifications.                                                      *)

Notified == Matched /\ "ctl" \in open

AudioStop(reason) ==
    /\ Notified
    /\ \/ /\ reason # "HttButtonRelease" /\ state = "streaming"
          /\ CloseMic \/ WriteFails
       \/ /\ reason = "HttButtonRelease" \/ state # "streaming"
          /\ WroteNothing
          /\ CloseMicReset

\* Mutant: the frame timer is not reset when streaming starts.
AudioStartStaleTimer(id) ==
    /\ Notified
    /\ lastSeq' = None /\ streamId' = id /\ state' = "streaming"
    /\ keepLeft' = Keepalive
    /\ quiet' = 0
    /\ WroteNothing
    /\ UNCHANGED <<frameLeft, audio, parked, open, result>>

\* Mutant: only an AUDIO_START that was asked for is believed.
AudioStartOnlyWhenAsked(id) ==
    /\ Notified
    /\ IF state = "connected"
         THEN Ignore
         ELSE /\ lastSeq' = None /\ streamId' = id /\ state' = "streaming"
              /\ keepLeft' = Keepalive /\ RestartFrameTimer /\ quiet' = 0
              /\ WroteNothing
              /\ UNCHANGED <<audio, parked, open, result>>

AudioStart(id) ==
    /\ Notified
    /\ lastSeq' = None
    /\ streamId' = id
    /\ state' = "streaming"
    /\ keepLeft' = Keepalive
    /\ RestartFrameTimer
    /\ quiet' = 0
    /\ WroteNothing
    /\ UNCHANGED <<audio, parked, open, result>>

\* Mutant: toggling off forgets to tell the remote.
StartSearchSilentOff ==
    /\ Notified
    /\ \/ MicActive /\ CloseMicReset /\ WroteNothing
       \/ ~MicActive /\ OpenMic
       \/ WriteFails

StartSearch ==
    /\ Notified
    /\ \/ MicActive /\ CloseMic
       \/ ~MicActive /\ OpenMic
       \/ WriteFails

MicOpenError ==
    /\ Notified
    /\ state = "opening"
    /\ state' = "connected"
    /\ streamId' = None
    /\ WroteNothing
    /\ UNCHANGED <<lastSeq, frameLeft, keepLeft, audio, parked, open, result, quiet>>

\* A notification that leaves the session alone: AUDIO_SYNC (it goes to the
\* protocol), CAPS_RESP, Unknown, an empty one, or a late MIC_OPEN_ERROR.
OtherCtl == Notified /\ Ignore

-----------------------------------------------------------------------------
(* RX notifications, and the decoder task that takes the frames.           *)

\* The frame is sent at once, or the loop parks until the channel has room.
Forward(seq) ==
    \/ /\ Len(audio) < AudioCap
       /\ audio' = Append(audio, seq)
       /\ UNCHANGED parked
    \/ /\ Len(audio) = AudioCap
       /\ parked' = seq
       /\ UNCHANGED audio

Frame(seq) ==
    /\ Matched
    /\ "rx" \in open
    /\ state = "streaming"
    /\ RestartFrameTimer
    /\ quiet' = 0
    /\ lastSeq' = seq
    /\ Forward(seq)
    /\ WroteNothing
    /\ UNCHANGED <<state, streamId, keepLeft, open, result>>

\* A frame outside Streaming, or one decode_audio rejects, is dropped.
DroppedFrame == Matched /\ "rx" \in open /\ Ignore

\* Mutant: the parked frame is pushed without waiting for the slot.
DecoderRecvOverfills ==
    /\ audio # <<>>
    /\ audio' = IF parked = None THEN Tail(audio) ELSE Append(audio, parked)
    /\ parked' = None
    /\ WroteNothing
    /\ UNCHANGED <<state, streamId, lastSeq, frameLeft, keepLeft, open, off, result, quiet>>

\* Mutant: the parked send is never woken.
DecoderRecvNoWakeup ==
    /\ audio # <<>>
    /\ audio' = Tail(audio)
    /\ WroteNothing
    /\ UNCHANGED <<state, streamId, lastSeq, frameLeft, keepLeft, parked, open, off, result, quiet>>

\* The decoder task receives a frame; a parked send takes the slot it frees.
DecoderRecv ==
    /\ audio # <<>>
    /\ IF parked = None
         THEN audio' = Tail(audio) /\ UNCHANGED parked
         ELSE audio' = Append(Tail(audio), parked) /\ parked' = None
    /\ WroteNothing
    /\ UNCHANGED <<state, streamId, lastSeq, frameLeft, keepLeft, open, off, result, quiet>>

-----------------------------------------------------------------------------
(* Commands, consumer counts, timers, the end of the connection.           *)

\* Mutant: MicOpen is obeyed while streaming.
ExternalReopens(cmd) ==
    /\ Matched
    /\ "cmd" \in open
    /\ IF cmd = "MicOpen" \/ ~MicActive
         THEN OpenMic \/ WriteFails
         ELSE CloseMic \/ WriteFails

External(cmd) ==
    /\ Matched
    /\ "cmd" \in open
    /\ \/ /\ cmd \in {"MicOpen", "MicToggle"} /\ state = "connected"
          /\ OpenMic \/ WriteFails
       \/ /\ cmd \in {"MicClose", "MicToggle"} /\ MicActive
          /\ CloseMic \/ WriteFails
       \/ /\ \/ cmd = "MicOpen" /\ state # "connected"
             \/ cmd = "MicClose" /\ ~MicActive
          /\ Ignore

\* Mutant: one client is not enough.
ConsumersChangedOffByOne(count) ==
    /\ Matched
    /\ \/ OnDemand /\ count > 1 /\ state = "connected" /\ OpenMic
       \/ OnDemand /\ count = 0 /\ MicActive /\ CloseMicBestEffort
       \/ (count = 1 \/ ~MicActive) /\ Ignore

ConsumersChanged(count) ==
    /\ Matched
    /\ \/ /\ OnDemand /\ count > 0 /\ state = "connected"
          /\ OpenMic \/ WriteFails
       \/ /\ OnDemand /\ count = 0 /\ MicActive
          /\ CloseMicBestEffort
       \/ /\ \/ ~OnDemand
             \/ count > 0 /\ state # "connected"
             \/ count = 0 /\ ~MicActive
          /\ Ignore

\* Mutant: the keepalive also runs while the mic is only asked for.
KeepaliveWhileOpening ==
    /\ Matched
    /\ Keepalive > 0 /\ MicActive /\ keepLeft = 0
    /\ Wrote(KeepaliveCmd)
    /\ keepLeft' = Keepalive
    /\ UNCHANGED <<state, streamId, lastSeq, frameLeft, audio, parked, open, result, quiet>>

KeepaliveTimer ==
    /\ Matched
    /\ Keepalive > 0 /\ state = "streaming" /\ keepLeft = 0
    /\ Wrote(KeepaliveCmd) \/ WroteNothing
    /\ keepLeft' = Keepalive
    /\ UNCHANGED <<state, streamId, lastSeq, frameLeft, audio, parked, open, result, quiet>>

\* Mutants: the timeout guards only one of the two states.
FrameTimerStreamingOnly ==
    /\ Matched
    /\ FrameTimeout > 0 /\ state = "streaming" /\ frameLeft = 0
    /\ CloseMicBestEffort

FrameTimerOpeningOnly ==
    /\ Matched
    /\ FrameTimeout > 0 /\ state = "opening" /\ frameLeft = 0
    /\ CloseMicBestEffort

FrameTimer ==
    /\ Matched
    /\ FrameTimeout > 0 /\ MicActive /\ frameLeft = 0
    /\ CloseMicBestEffort

Disconnected ==
    /\ Matched
    /\ "events" \in open
    /\ result' = "ok"
    /\ WroteNothing
    /\ UNCHANGED <<state, streamId, lastSeq, frameLeft, keepLeft, audio, parked, open, quiet>>

\* The loop receives the end of a stream: the arm does not match, and select!
\* waits for the others.  There is no action for the `else` arm: it runs only
\* when every arm is disabled, and the arm of consumer_rx never is (its pattern
\* `event` matches anything, and without a receiver its future stays pending).
StreamEnds(s) ==
    /\ Polling
    /\ s \in open
    /\ open' = open \ {s}
    /\ off' = off \cup ({s} \cap Unfolds)
    /\ WroteNothing
    /\ UNCHANGED <<state, streamId, lastSeq, frameLeft, keepLeft, audio, parked, result, quiet>>

\* Another arm has run since, and the next select! polls the stream again.  CTL
\* and RX are futures::stream::unfold, not fused: they panic (ble.rs:16).
PolledAgain ==
    /\ Polling
    /\ Unfolds \ (open \cup off) # {}
    /\ result' = "panic"
    /\ WroteNothing
    /\ UNCHANGED <<state, streamId, lastSeq, frameLeft, keepLeft, audio, parked, open, off, quiet>>

Tick ==
    /\ result = "running"
    /\ frameLeft' = IF frameLeft = 0 THEN 0 ELSE frameLeft - 1
    /\ keepLeft' = IF keepLeft = 0 THEN 0 ELSE keepLeft - 1
    /\ quiet' = IF quiet = FrameTimeout THEN quiet ELSE quiet + 1
    /\ WroteNothing
    /\ UNCHANGED <<state, streamId, lastSeq, audio, parked, open, off, result>>

-----------------------------------------------------------------------------
CtlArm ==
    \/ \E reason \in StopReasons : AudioStop(reason)
    \/ \E id \in StreamIds : AudioStart(id)
    \/ StartSearch
    \/ MicOpenError
    \/ OtherCtl

RxArm == (\E seq \in Seqs : Frame(seq)) \/ DroppedFrame

Next ==
    \/ CtlArm
    \/ RxArm
    \/ DecoderRecv
    \/ \E cmd \in ExternalCommands : External(cmd)
    \/ \E count \in 0 .. 2 : ConsumersChanged(count)
    \/ KeepaliveTimer
    \/ FrameTimer
    \/ Disconnected
    \/ \E s \in Streams : StreamEnds(s)
    \/ PolledAgain
    \/ Tick

Spec == Init /\ [][Next]_sessionVars

(***************************************************************************)
(* What the scheduling guarantees: time passes, the decoder task runs, and *)
(* the loop polls an elapsed timer and a pending disconnect.  Nothing is   *)
(* promised about what remotes, users and clients do.                      *)
(***************************************************************************)
Fairness ==
    /\ WF_sessionVars(Tick)
    /\ WF_sessionVars(DecoderRecv)
    /\ WF_sessionVars(FrameTimer)

FairSpec == Spec /\ Fairness

-----------------------------------------------------------------------------
(* Properties.                                                             *)

\* A stream id is held exactly while streaming, and so is everything that
\* belongs to one stream: a MIC_CLOSE or keepalive never names a stream that
\* is over, and the first frame of a new stream is never compared with the
\* last one of an old stream (current_stream_id and last_seq, atvv.rs:158-161).
StreamScoped ==
    /\ (streamId # None) = (state = "streaming")
    /\ lastSeq # None => state = "streaming"
    /\ parked # None => state = "streaming"

\* While the mic is asked for or on, the frame timer stands exactly at the
\* ticks of silence so far: the frame timeout can never close a stream that
\* has just been asked for, started or heard of, whatever the timer was left
\* at by an earlier stream (the regression of atvv.rs:207-213 and :538).
FrameTimerMeasuresSilence ==
    MicActive => frameLeft = FrameTimeout - quiet

\* The session does nothing with the microphone that MicControl does not allow:
\* no MIC_OPEN unless it is off (or as the v0.4 keepalive of a stream), every
\* MIC_CLOSE and MIC_EXTEND under the id of the stream it is meant for.
Control == INSTANCE MicControl WITH
    mic <- state, id <- streamId, cmd <- written,
    NoId <- None, OpenId <- MicOpenId, TellsId <- V10
ControlSpec == Control!Spec

\* With a frame timeout the session never waits for ever for a remote that
\* does not answer MIC_OPEN (atvv.rs:357-362).
OpeningResolves == state = "opening" ~> state # "opening" \/ result # "running"

\* A full audio channel holds the session up only until the decoder task
\* takes a frame (atvv.rs:274).
ParkedResumes == parked # None ~> parked = None

\* Not true of the code: run_session "Returns on device disconnect or
\* unrecoverable BLE error" (atvv.rs:104), also when the notification streams
\* end before the disconnection is reported ("Notification streams ended",
\* atvv.rs:371-374).
EndedStreamsAreSurvived == result # "panic"
=============================================================================
