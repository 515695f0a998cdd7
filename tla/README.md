# A verification project for ATVVoice

ATVVoice is a daemon that turns the microphone of a Bluetooth LE remote (the
"Android TV Voice" protocol, v0.4 and v1.0) into a PipeWire source. This
directory holds TLA+ models of it, the TLC runs that check them on small
instances and the theorems TLAPS proves about them.

    tlc -workers 2 -config session.cfg MicSession     # one run
    tlapm MicSessionProofs.tla                            # the proofs

## The system

| Component | Source | State | Operations | Talks to |
|---|---|---|---|---|
| Session | `src/atvv.rs` `run_session` | mic state, current stream id, last sequence number, two timers | one arm of a `select!` loop per source of events | BLE link, D-Bus queue, PipeWire thread, audio channel |
| Protocol | `src/protocol/` | codec, frame size, decoder, v1.0 frame counter | build commands, parse notifications, negotiate a codec, decode frames, AUDIO_SYNC | session |
| Supervisor | `src/main.rs` | current device, excluded devices, characteristics, the D-Bus handle | discover, connect, resolve, handshake, negotiate, run a session, tear down, reconnect, shut down | everything |
| PipeWire thread | `src/pw.rs` | links, monitors, last count; pending samples | registry callbacks, process callback, shutdown | session (consumer counts), decoder task (PCM), main (shutdown) |
| Decoder task | `src/main.rs`, `src/adpcm.rs` | none | declip, low-pass, forward | session, PipeWire thread |
| BLE device | `src/ble.rs` | none of its own | find, connect, resolve, acquire notifications, write | BlueZ |
| D-Bus service | `src/dbus.rs` | command queue, last signalled state | MicOpen, MicClose, MicToggle, State, MicStateChanged | main, session |

The session is one task. It takes one event at a time, picking at random among
the sources that are ready, and it may block in the middle of an arm: on an
acknowledged BLE write, or on the bounded channel to the decoder task. What is
hard about it is order: requests (button, D-Bus, clients) and the remote's
answers cross each other on the link, the remote also starts and stops streams
by itself or just falls asleep, and timers measure what did not happen.

What makes the parts correct:

* Session: no trace of a finished stream survives it; commands name the stream
  they are meant for; the remote never streams behind the host's back; a stream
  or request that nobody answers ends; a client has a microphone and nobody else.
* Protocol: both sides mean the same by the bytes of a notification; what is
  decoded is what was encoded, whatever was lost before; missing frames are
  reported, and no others.
* Audio path: samples reach PipeWire in order and once, old ones are dropped
  before new ones, and the pipeline can be torn down at any time.
* Supervisor: after any loss of the device it comes back to a session; it gives
  up only when told to; one session at a time.
* PipeWire registry: the count the session acts on is the number of clients.
* D-Bus: the state that is signalled last is the state that holds; a call is
  carried out once there is a session that can.

## Modules

`MicSession` models one call of `run_session`. Every arm is one action:

| Action | Arm in `src/atvv.rs` |
|---|---|
| `AudioStop`, `AudioStart`, `StartSearch`, `MicOpenError`, `OtherCtl` | CTL notifications, 180-251 |
| `Frame`, `DroppedFrame` | RX notifications, 252-279 |
| `External` | D-Bus commands, 281-322 |
| `ConsumersChanged` | PipeWire client counts, 323-348 |
| `KeepaliveTimer`, `FrameTimer` | timers, 349-362 |
| `Disconnected`, `StreamEnds` | 363-374 |
| `PolledAgain` | a stream polled after its end, `src/ble.rs` 16 |
| `DecoderRecv` | the decoder task of `src/main.rs` 434-443 |
| `Tick` | time |

An action does the whole arm. A write with `?` may fail and end the session
(`WriteFails`); a best-effort write may fail unnoticed (`CloseMicBestEffort`).
`written` holds the command the last step wrote, so that another module can put
it on a link. A frame that finds the audio channel full leaves the session
`parked`: no arm runs until `DecoderRecv` makes room. A stream that ends only
disables its arm for the present `select!` (`off`): if another arm runs first
(`Matched`), the next one polls the stream again, and CTL and RX, unfused
`unfold` streams, panic (`PolledAgain`, result `panic`). If Disconnected is
taken before that, the session returns. The environment is open:
any notification, command or count may come at any time.

`MicControl` is the abstract specification: the microphone is off, asked for or
on, and which command goes with each change. `MicSession` implements it
(`Control == INSTANCE MicControl WITH ...`, `ControlSpec`).

`MicLink` closes the environment: a remote, the two directions of the BLE link
as FIFO queues, the D-Bus queue, the PipeWire clients. The remote is external;
it does what the session and its tests expect. It answers MIC_OPEN with
AUDIO_START or MIC_OPEN_ERROR and MIC_CLOSE with AUDIO_STOP, a v1.0 remote
obeys only a MIC_CLOSE for its own stream, its button sends START_SEARCH or
starts a stream by itself, and it may time out or fall asleep. Its notification
streams do not end: what becomes of a session whose streams do is a matter of
`MicSession` alone.

`Supervisor` models `main`: `pc` is the await it is in.

| Action | `src/main.rs` |
|---|---|
| `Find`, `FindFails`, `FindAgain` | discovery, 233-249, `should_skip` of `src/ble.rs` |
| `CheckConnected`, `SubscribeEvents`, `PollConnected` | `ensure_connected`, 89-114, first and after a session; a failed `is_connected()` counts as a no |
| `Resolve`, `ResolveAgain` | 260-281 and 523-552 |
| `Handshake`, `Serve` | vendor handshake 286-292, D-Bus 318-349 |
| `AcquireFails`, `GetCapsRefused`, `Acquire`, `CapsResp`, `NegotiationFails`, `Retry` | `negotiate`, 126-174 and 359-393 |
| `Refused`, `LockedOut` | which errors are taken for a locked device, 116-120, and what they lead to, 363-377 and 486-502 |
| `CreateProtocol` | 394-401 |
| `SessionRuns`, `SessionEnds`, `Teardown`, `TeardownLocked` | 445-507; `MicSession` is the inside |
| `CtrlC` | the `ctrl_c()` arms |
| `LinkUp`, `LinkDown`, `OtherDaemon` | external |

A Ctrl+C is seen only in an await that sits in a `select!` with `ctrl_c()`
(`Interruptible`): the body of an arm runs after the `select!` has dropped its
other futures. `fresh`, `shaken` and `alive` say what of the characteristics,
the vendor handshake and the streams belongs to the connection there is now; a
disconnection clears them. `Rivals` are the remotes another daemon may take.

`is_device_locked_error` reads the text of an error. Every failure of
`notify_io` says "exclusive" (`AcquireFails`), and a write may fail with
NotPermitted or InProgress although no other daemon is there (`Refused`): a
fault is enough, on a remote that is connected and free. A session ends
disconnected, with an error (`failed`), with one of these (`refused`), or in the
panic of `PolledAgain`, which stops the daemon.

`Daemon` extends `Supervisor` by the D-Bus service, which lives as long as main
stays with a device, over any number of sessions:

| Action | Code |
|---|---|
| `Bus` (`ServesBus`, `DropsBus`, `Publishes`) | what a step of main does to the watch channel, the queue and the connection: `src/main.rs` 316-349, `continue 'discover`, every `state_tx.send` |
| `TaskStarts`, `TaskWakes`, `TaskReads`, `TaskEmits` | the signal task, `src/dbus.rs` 121-154, from await to await; a signal may fail |
| `Call` | a D-Bus method, `src/dbus.rs` 48-72; calls that wait for room are in the queue too |
| `TakesCommand` | the `command_rx` arm, `src/atvv.rs` 281-322, as far as main and the state know of it |

`ConsumerWatch` models the registry listeners of the PipeWire thread, which
count the clients for `--mic-on-demand` (`src/pw.rs` 231-411). Each callback is
one action and ends with `recount`, as in the code. PipeWire is external: it
removes the links of a node before the node, reuses ids, reports our own node's
id before links to it, and sends the info of a node whenever it likes.
`MicLink` starts from the counts that `ConsumerWatch` delivers.

`Adpcm` is the arithmetic of `src/adpcm.rs` (decoder, declip, low-pass, gain) as
operators on 16-bit samples; shifts are divisions, `as i16` and `clamp` what
they do. `Protocol` is the two Protocol objects of `src/protocol/` on bytes:
parsing, negotiation, AUDIO_SYNC, frames.

`AudioStream` puts them to work. A remote (external) answers GET_CAPS, starts
and stops streams, encodes and numbers frames, and the air loses or cuts some.
CTL and RX notifications are two streams; `Takes(i)` lets one overtake the
other, as the random choice of `select!` does. `Negotiates`, `HostCtl` and
`HostRx` are what `negotiate` and the first two arms of the loop do with them,
`HostCloses` any other arm that closes the mic, `Processed` the filters. The
encoder `Spoken` is written from the IMA definition and not from the decoder,
and the remote writes its notifications as bytes: the proofs compare what it
meant by them with what `Protocol` reads. A v1.0 remote encodes with a codec it
announces.
`exact` says when a decoded frame must be right: always in v0.4; in v1.0 when
an AUDIO_SYNC has been taken in turn after the last loss.

`PcmPath` is the way of a decoded frame through the bounded channel of the
session, the decoder task, the unbounded channel and the pending buffer, with
the start, failure and shutdown of the PipeWire thread and the teardown in
`main`. `Process` and `ProcessWithoutBuffer` are the process callback and its
early returns. It implements `LossyFifo`, which says what the path promises.

The modules whose names end in `Proofs` hold the theorems, each about the module
it is named after. `MicLinkProofs` builds on `MicSessionProofs`, `DaemonProofs`
on `SupervisorProofs`, `AudioStreamProofs` on `AdpcmProofs`.

## Runs

| Run | What it shows |
|---|---|
| `session` | `StreamScoped`, `FrameTimerMeasuresSilence`, the refinement of `MicControl`, Opening is left, a full audio channel is survived, for every order of events |
| `session_ends` | finding: a notification stream that ends does not end the session (the `else` arm of the loop cannot run) but makes it panic when another arm runs before Disconnected |
| `link_v10` | no stream the session does not know of, with messages in flight; on demand, the mic follows clients that wait for the link to settle |
| `link_v04` | the first for a remote without stream ids; a stream the remote dropped is found out |
| `audio` | both sides agree on version, frame size and codec; frames that can be right are exact; the gap detection reports what is missing and nothing else; the filters keep their promises on every frame decoded |
| `pcm` | the audio path is a lossy FIFO, silence only for want of samples, no frame stuck, the teardown ends |
| `link_reclose` | finding: the mic does not close after clients that do not wait |
| `sup` | two remotes, one that needs the vendor handshake and one without a common codec, another daemon, faults, Ctrl+C and a D-Bus call: streams on fresh handles and after a handshake, a true State property, signals that are news and catch up, and a remote that can be served, and has been noticed, is served again (unless the daemon has stopped) and carries out the calls that waited |
| `sup_missed` | finding: it is not served again, though nothing fails, if it connects while `ensure_connected` starts to listen |
| `sup_mistaken` | finding: a remote that disconnects during a negotiation is given up, though nothing else fails and no other daemon exists |
| `sup_shutdown` | finding: the MIC_CLOSE of a shutdown is ignored |
| `watch` | the session knows the number of clients once all is quiet, unless the last count was dropped |

Bounds. Sequence numbers are taken modulo 3, the audio channel holds 2 frames
and timers run 3 ticks in `session`: a stale timer, a full channel and a
parked frame all occur. In `MicLink` sequence numbers do not matter
(`SeqMod = 1`), the number of requests, presses and faults is bounded
(`MaxRequests`, `MaxPresses`, `MaxFaults`), and a keepalive is sent only while
fewer than `MaxInFlight` messages are under way, which keeps the queues finite;
everything else queues without limit. `LinkView` hides timers that guard no arm
and history variables nothing reads.

In `Supervisor`, `MaxFaults` bounds the errors that heal by themselves; the
links change as often as they like, but during a negotiation only if
`"negotiation"` is in `Races`. `sup` shows what holds without that race,
`sup_mistaken` what goes wrong with it; the race of `sup_missed` is always
possible, and the properties of `sup` except its outcome, `Overlooked`. The
three runs that show findings have no faults, so that no fault can be the
reason. One remote
is enough to come back to, two to look for another. `ConsumerWatch` has two
nodes and two links, enough for a client and a monitor at a time and for a
reused id, and a channel of 2 instead of 16, which two changes fill.

In `sup` only one remote has a rival, and there are one fault and one call
(`MaxCalls`): more of each multiply the states and add no new order of main and
the signal task, which `DaemonProofs` covers for all of them. One MicToggle can
open or close. `sup` lets the signal task start before the first state is
published (`Races` without `"spawn"`).

In `audio` a remote speaks one byte of data all the time while its encoder
moves on: `127` is the greatest step up and then down, from the highest step
index, so that the predictor is clamped and the gain hits both ends of the
range. Numbers
start at 65535 (`FirstSeq`), so every stream wraps. Two streams of three frames
in all, two AUDIO_SYNCs and two notifications on their way are enough for a
loss, a resynchronisation, and a frame that overtakes or is overtaken. The
versions are v0.4, v1.0 and one nobody knows; the codecs 8 kHz only, 16 kHz only,
both, and none in common.

In `pcm` the sizes are small and coprime (frames of 2, buffers of 3, a pending
buffer of 5), so that a callback cuts frames, runs dry in the middle of one and
overflows; six frames fill every queue.

Fairness. In `Supervisor` only `main` is fair, and only as a whole
(`WF_vars(Main)`): it goes on when it can, and the remote owes it nothing but
what the premise of `ComesBackIfNoticed` says. In the other modules, `FairSpec` and `LinkFairSpec` assume that time passes, that the
decoder task runs, that the link delivers, and that the loop takes an arm that
is ready again and again (`select!` picks at random). Nothing is assumed of
users or of the remote's button. `link_v04` also relies on a frame timeout.

In `Daemon` the signal task is fair too, and a session that has a command takes
it in the end (`WF(TakesCommand)`). In `PcmPath` the decoder task and main go
on when they can, the thread starts or fails and serves its shutdown channel,
and while it runs PipeWire calls back with a buffer again and again; nothing
says when, and callbacks without a buffer may come as often as they like. The
session need not send anything or return.

`CHECK_DEADLOCK FALSE` everywhere: a session that has returned does nothing.

## Proofs

Every invariant, every action property and both refinements the passing runs
check are theorems, for every value of the constants; five have a hypothesis,
which is named below with the reason it is needed. Inductive invariants were checked with
TLC before they were proved.

`MicSessionProofs`. The invariant `IInv` = `TypeOK` and `StreamScoped` and
`FrameTimerMeasuresSilence` is inductive. The types are needed because the
guards speak of `state` alone (not active means connected) and for the
arithmetic of the timer; `StreamScoped` needs itself (MIC_OPEN leaves the
stream id alone, which is right only because Connected has none). The
refinement of `MicControl` follows step by step from `IInv`: the id in a
MIC_CLOSE is right because an id is held exactly while streaming. The proofs
assume only what the module assumes of its constants.

`MicLinkProofs` is for any number of messages in flight. `LinkRefinesSession`
says that the session there is a `MicSession`, so `IInv` holds of it.
`NoHiddenStream` speaks only of states in which nothing is in flight and is far
from inductive. `Hidden` says what holds while something is: if the remote
streams, the last of the notifications on their way that start or end a stream
starts this one (`Heralded`); and if there is none, the session shows this stream
or a MIC_CLOSE that ends it is on its way (`Known`). A MIC_CLOSE under another id
ends nothing, a button press reuses no id that a command in flight names, and a
lost best-effort MIC_CLOSE (`closeLost`) excuses.
`FollowsClients` follows from `Wound`. Clients that wait until nothing is under
way leave the link in one of four modes: the stream is wound up (a MIC_OPEN or
an AUDIO_START is on its way, or it runs, and every command opens or keeps
alive); it runs and the count 0 is on its way; all is at rest and the count 1
is on its way; or it is wound down (`WoundDown`: the last command on its way is
a MIC_CLOSE, or its AUDIO_STOP is on its way, behind any AUDIO_START). The
hypothesis `~Hasty` cannot be dropped (`link_reclose`).

`AdpcmProofs`. No nibble, header or whole gain leads out of 16 bits or out of the step
table, and `FrameStaysInRange` carries this through the recursion over the bytes
of a frame. The library's induction theorems cannot be instantiated, so
induction is done on sets (`NatSetInduction`: 0 and closed under successors) and
recursive functions are unfolded by lemmas proved with it. In the same way the
filters are proved for frames of any length: `LowpassIsFir` (it works in place
and yet is the FIR filter), `DeclipAddsNoJump`, `GainIsMonotonic`.

`AudioStreamProofs` is for every version and codec mask, every payload, any
number of streams, and any loss, cut and overtaking. `Base` says what each
remote, message and protocol object may look like; types, negotiation and the
filters follow from it. `Chain` is the invariant of `FramesAreTrue`: it follows
the messages that move the decoder (frames and AUDIO_SYNCs). Whenever no loss or
overtaking lies between one of them and the next whole frame, the first leaves
the decoder, the codec and the frame number exactly where the encoder stood when
that frame was written (`Leads`, `InStep`); and the encoder and the decoder walk
through the same states, nibble by nibble. `Accounted` is that of
`GapsAreReported`: frames come in the order of their numbers within a stream
(`InOrder`), and what is not accounted for is the difference, modulo 2^16,
between the number that was expected and the next one (`Counted`). It has the
hypothesis `FewFrames`, at most 65536 frames: 65536 missing frames in a row look
like none to u16 numbers.

`PcmPathProofs` is for all sizes of frames, channels and buffers. Beside types
and `SilenceIsLast`, `PathIsFifo` is the refinement of `LossyFifo`: the abstract
queue is the concatenation of pending buffer, unbounded channel, the frame the
decoder holds, bounded channel and parked frame, which each step only moves
samples along (`Line`), except that `KeepNewest` cuts off its oldest end.

`SupervisorProofs`: the types and `DevChosen` are inductive for any number of
remotes and faults. `HandlesAreFresh` follows from
`FreshInv`: while main negotiates, the link is up, the characteristics are
those of this connection, and the vendor handshake has been tried on it. That needs the premise that no link changes during a
negotiation, which cannot be dropped (see the known gaps). `StateIsTrue`
needs none.

`DaemonProofs` covers any number of calls besides. A step of the service leaves
main alone and a command is a step a session may take (`StepOfMain`), so the
invariants of `SupervisorProofs` hold here too (`MainInv`). `SignalInv` ties the three copies of the state
together: what clients were told is `prev` unless the last signal failed or is
under way (`ToldIsPrev`), and `prev` is the state unless a newer one waits in
the channel or the task is about to read it (`PrevIsState`). Both need the
premise that the task is polled before the first state is published
(`"spawn" \notin Races`).

`ConsumerWatchProofs`: the last count computed is the number of links that
count (`CountExact`), and the last word the session has heard or will hear is
that count unless one was dropped (`InStep`); with what PipeWire and the
listener know of the nodes in agreement (`KindsAgree`), `SessionKnowsClients`
follows.

Only model-checked: liveness (`OpeningResolves`, `ParkedResumes`,
`NoPhantomStream`, `ComesBackIfNoticed`, `SignalsCatchUp`, `CallsGetThrough`,
`FramesAreHeard`, `TeardownEnds`), which needs ENABLED and fairness and is
beyond the prover.

## Known gaps of the code

Beside the findings that have a run of their own, the models show these; each
can be had from TLC by the change that is named.

* A failed negotiation is retried with the characteristics and the vendor
  handshake of a connection that may be gone (`src/main.rs:386`): in `sup.cfg`,
  `Races = {"negotiation"}` breaks `HandlesAreFresh`, and a vendor
  remote that has reconnected never answers GET_CAPS.
* A failed `is_connected()` on a connected remote is taken for a no
  (`src/main.rs:92`), and main then waits for a Connected(true) that has passed,
  until the remote disconnects and comes back: drop `~Overlooked` from
  `ComesBackIfNoticed`.
* Every failure of `notify_io`, and every write that fails with NotPermitted or
  InProgress, gives up a remote that is connected and free
  (`src/main.rs:116`): in `sup_mistaken.cfg`, `Races = {}` and `MaxFaults = 1`.
* The panic of `session_ends` ends the daemon. `ComesBackIfNoticed` and
  `CallsGetThrough` accept that it has stopped.
* A best-effort MIC_CLOSE that is lost leaves the remote streaming
  (`src/atvv.rs:343`): drop `~closeLost` from `NoHiddenStream`.
* A remote without a common codec is shown as connected and negotiated with over
  and over, without a pause (`src/main.rs:399`): drop `dev \in NoCodec` from
  `StateIsTrue`.
* A Ctrl+C is lost while main sleeps in the body of an arm (`src/main.rs:240`,
  272, 543), during the vendor handshake and during a teardown: `CtrlC` outside
  `Interruptible`.
* A client that leaves while MIC_OPEN is unanswered and comes back ends up with
  a closed mic: in `link_reclose.cfg`, replace the consequence of
  `ClosedWithoutClients` by its mirror image, for `clients > 0`.
* The last count of clients is not sent again if the channel was full
  (`src/pw.rs:283`): drop `~missed` from `SessionKnowsClients`.
* A level meter counts as a client until its info has arrived
  (`src/pw.rs:280`): drop the second conjunct of `Quiet`.
* A v1.0 frame that overtakes the AUDIO_SYNC sent before it is decoded from the
  decoder state it should have replaced: drop `InTurn(i)` from `exact`.
* A frame that overtakes the AUDIO_START of its stream is compared with the last
  number of the stream before, and warned about: drop `InTurn(i)` from
  `Unreported`.
* 65536 lost frames in a row are not noticed (`src/atvv.rs:261`): the numbers are
  u16.
* The frames a v1.0 remote loses are noticed only at the next AUDIO_SYNC, since
  the host numbers them itself; without one, never.
* AUDIO_SYNC may change the codec (`src/protocol/v10.rs:192`), and AUDIO_START
  names one; the PipeWire source keeps the rate it was opened with
  (`src/main.rs:404`).
* The pending buffer is bounded "to prevent unbounded growth under backpressure"
  (`src/pw.rs:141`), but only inside the callback; while PipeWire does not call,
  the channel in front of it grows: in `pcm.cfg` nothing bounds `pcm` but
  `MaxFrames`. Afterwards up to `MAX_PENDING` old samples come first.
* A state that lasts only until the signal task has looked is never signalled
  (`src/dbus.rs:129`), though README.md of the repository promises a signal on
  state transitions; and a signal that failed is not sent again: drop `~lost`.
* If the signal task is first polled after a state has been published, that
  state is never signalled: `Races = {"spawn"}` breaks `SignalsAreCurrent`.
* Calls made between two sessions are carried out by the next one, however old
  they are, and calls that wait when a device is excluded are lost without an
  error (`DropsBus`).

## Plan

Modules, runs and theorems above are done. What is left:

1. Sharper theorems: `GapsAreReported` with the bound of `FewFrames` on the
   frames of one stream instead of all; `SessionKnowsClients` after a dropped
   count, from the next change on.
2. What a session promises over several sessions: `Daemon` with `MicLink` in
   place of its black box.

## Not modelled

Argument parsing, logging, packaging, the GATT walks inside `resolve_chars` and
`vendor_handshake`, and PipeWire's format negotiation have no state the
properties could be about. `apply_gain_linear` multiplies by a float; the model
has whole factors. The other D-Bus properties are constants. The retry of a
locked remote uses the text of an error; the model has only its outcome. A link
announced before our own node id is known (`src/pw.rs` 355-358) is left out,
because PipeWire is assumed not to do that.
