------------------------------ MODULE PcmPath ------------------------------
(***************************************************************************)
(* From a decoded frame to PipeWire's buffers, for one session: the        *)
(* bounded channel of run_session, the decoder task (src/src/main.rs:434-  *)
(* 443), the unbounded channel of samples, the pending buffer of the       *)
(* process callback (src/src/pw.rs:124-193), and the teardown of all that  *)
(* (src/src/main.rs:475-483).                                              *)
(*                                                                         *)
(* Session, decoder task, main and PipeWire thread run concurrently.       *)
(* PipeWire calls back when it likes, with a buffer or without one.        *)
(***************************************************************************)
EXTENDS Naturals, Sequences

CONSTANTS
    AudioCap,       \* DECODER_CHANNEL_CAPACITY
    FrameLen,       \* samples in a frame
    MaxPending,     \* MAX_PENDING
    Capacity,       \* samples a PipeWire buffer has room for
    Requested,      \* what PipeWire may request; 0: as much as there is room
    MaxFrames       \* bound: frames the session forwards

ASSUME SizesAssumption ==
    /\ {AudioCap, FrameLen, MaxPending, Capacity} \subseteq Nat \ {0}
    /\ Requested \subseteq Nat /\ MaxFrames \in Nat

VARIABLES
    main,       \* "session", then the teardown: "decoder", "thread", "ended"
    forwarded,  \* frames the session has handed over, or tried to
    frames,     \* the channel to the decoder task: frame numbers
    parked,     \* the frame run_session waits with for room in it
    held,       \* the frame the decoder task is filtering
    done,       \* the decoder task has finished
    pcm,        \* the channel to the process callback
    pw,         \* the PipeWire thread
    pending,    \* samples not yet handed to PipeWire
    out         \* what the last callback handed over: samples, and silence

pcmVars == <<main, forwarded, frames, parked, held, done, pcm, pw, pending, out>>

None == <<>>
Some(x) == <<x>>
SamplesOf(n) == [i \in 1 .. FrameLen |-> n * FrameLen + i]
Samples(ns) ==
    [k \in 1 .. Len(ns) * FrameLen |->
        SamplesOf(ns[(k - 1) \div FrameLen + 1])[((k - 1) % FrameLen) + 1]]
Least(x, y) == IF x < y THEN x ELSE y

Init ==
    /\ main = "session" /\ forwarded = 0
    /\ frames = <<>> /\ parked = None /\ held = None /\ done = FALSE /\ pcm = <<>>
    /\ pw = "starting" /\ pending = <<>>
    /\ out = [samples |-> <<>>, silence |-> 0]

-----------------------------------------------------------------------------
(* The session and the decoder task.                                       *)

\* audio_tx.send(frame).await
Forward ==
    /\ main = "session" /\ parked = None
    /\ forwarded < MaxFrames
    /\ forwarded' = forwarded + 1
    /\ IF Len(frames) < AudioCap
         THEN frames' = Append(frames, forwarded) /\ UNCHANGED parked
         ELSE parked' = Some(forwarded) /\ UNCHANGED frames
    /\ UNCHANGED <<main, held, done, pcm, pw, pending, out>>

\* Mutant: the session that waits for the slot is not woken.
DecoderRecvNoWakeup ==
    /\ held = None /\ frames # <<>>
    /\ held' = Some(Head(frames))
    /\ frames' = Tail(frames)
    /\ UNCHANGED <<main, forwarded, parked, done, pcm, pw, pending, out>>

\* frame_rx.recv(); a session that waits gets the slot.
DecoderRecv ==
    /\ held = None /\ frames # <<>>
    /\ held' = Some(Head(frames))
    /\ frames' = Tail(frames) \o parked
    /\ parked' = None
    /\ UNCHANGED <<main, forwarded, done, pcm, pw, pending, out>>

\* Mutant: the channel to PipeWire is bounded and the send waits for room.
DecoderSendsBounded ==
    /\ held # None
    /\ Len(pcm) < AudioCap
    /\ held' = None
    /\ pcm' = pcm \o held
    /\ UNCHANGED <<main, forwarded, frames, parked, done, pw, pending, out>>

\* let _ = pcm_tx.send(samples): a receiver that is gone does not matter.
DecoderSends ==
    /\ held # None
    /\ held' = None
    /\ pcm' = IF pw = "gone" THEN <<>> ELSE pcm \o held
    /\ UNCHANGED <<main, forwarded, frames, parked, done, pw, pending, out>>

\* The sender is gone and the channel empty.
DecoderDone ==
    /\ held = None /\ frames = <<>> /\ main # "session"
    /\ done' = TRUE
    /\ UNCHANGED <<main, forwarded, frames, parked, held, pcm, pw, pending, out>>

-----------------------------------------------------------------------------
(* The PipeWire thread.                                                    *)

\* Everything that can fail in run_pw_source comes before the main loop runs.
PwStarts ==
    /\ pw = "starting" /\ pw' = "running"
    /\ UNCHANGED <<main, forwarded, frames, parked, held, done, pcm, pending, out>>

PwGone ==
    /\ pw' = "gone" /\ pcm' = <<>> /\ pending' = <<>>
    /\ UNCHANGED <<main, forwarded, frames, parked, held, done, out>>

PwFails == pw = "starting" /\ PwGone

\* The Shutdown that main sends at the beginning of the teardown.
PwQuits == pw = "running" /\ main # "session" /\ PwGone

\* Mutants: no bound; the newest samples are cut off.
KeepAll(samples) == samples
KeepOldest(samples) == SubSeq(samples, 1, Least(MaxPending, Len(samples)))

\* The bound of the pending buffer: the oldest are dropped.
KeepNewest(samples) ==
    IF Len(samples) > MaxPending
      THEN SubSeq(samples, Len(samples) - MaxPending + 1, Len(samples))
      ELSE samples

\* Mutant: a buffer is only begun when it can be filled.
FillWhole(samples, size) ==
    LET available == IF Len(samples) < size THEN 0 ELSE size
    IN  [samples |-> SubSeq(samples, 1, available), silence |-> size - available,
         rest |-> SubSeq(samples, available + 1, Len(samples))]

\* Samples as far as they go, then silence.
Fill(samples, size) ==
    LET available == Least(Len(samples), size)
    IN  [samples |-> SubSeq(samples, 1, available), silence |-> size - available,
         rest |-> SubSeq(samples, available + 1, Len(samples))]

\* Drains the channel, bounds the buffer, and returns if there is no buffer to
\* fill (dequeue_buffer, datas_mut, data).
ProcessWithoutBuffer ==
    /\ pw = "running"
    /\ pcm' = <<>>
    /\ pending' = KeepNewest(pending \o Samples(pcm))
    /\ out' = [samples |-> <<>>, silence |-> 0]
    /\ UNCHANGED <<main, forwarded, frames, parked, held, done, pw>>

Process ==
    /\ pw = "running"
    /\ pcm' = <<>>
    /\ \E requested \in Requested :
         LET size == IF requested > 0 THEN Least(Capacity, requested) ELSE Capacity
             filled == Fill(KeepNewest(pending \o Samples(pcm)), size)
         IN  /\ pending' = filled.rest
             /\ out' = [samples |-> filled.samples, silence |-> filled.silence]
    /\ UNCHANGED <<main, forwarded, frames, parked, held, done, pw>>

-----------------------------------------------------------------------------
(* main, when run_session has returned: Shutdown is sent, and the decoder  *)
(* task and then the thread are waited for.                                *)

SessionReturns ==
    /\ main = "session" /\ parked = None
    /\ main' = "decoder"
    /\ UNCHANGED <<forwarded, frames, parked, held, done, pcm, pw, pending, out>>

Joins ==
    /\ \/ main = "decoder" /\ done /\ main' = "thread"
       \/ main = "thread" /\ pw = "gone" /\ main' = "ended"
    /\ UNCHANGED <<forwarded, frames, parked, held, done, pcm, pw, pending, out>>

Decoder == DecoderRecv \/ DecoderSends \/ DecoderDone

Next ==
    \/ Forward
    \/ Decoder
    \/ PwStarts \/ PwFails \/ PwQuits
    \/ ProcessWithoutBuffer \/ Process
    \/ SessionReturns \/ Joins

Spec == Init /\ [][Next]_pcmVars

(***************************************************************************)
(* The task, main and the thread go on when they can.  The thread's loop   *)
(* serves its shutdown channel and, as long as PipeWire wants samples,     *)
(* again and again a callback that has a buffer.                           *)
(***************************************************************************)
FairSpec ==
    /\ Spec
    /\ WF_pcmVars(Decoder) /\ WF_pcmVars(Joins)
    /\ WF_pcmVars(PwStarts \/ PwFails) /\ WF_pcmVars(PwQuits)
    /\ WF_pcmVars(Process)

-----------------------------------------------------------------------------
(* Properties.                                                             *)

PcmTypeOK ==
    /\ main \in {"session", "decoder", "thread", "ended"}
    /\ forwarded \in 0 .. MaxFrames
    /\ frames \in Seq(Nat) /\ Len(frames) <= AudioCap
    /\ {parked, held} \subseteq Seq(Nat) /\ Len(parked) <= 1 /\ Len(held) <= 1
    /\ done \in BOOLEAN
    /\ pcm \in Seq(Nat)
    /\ pw \in {"starting", "running", "gone"}
    /\ pending \in Seq(Nat) /\ Len(pending) <= MaxPending
    /\ out.samples \in Seq(Nat) /\ out.silence \in Nat
    /\ Len(out.samples) + out.silence <= Capacity

\* Everything the session forwarded that nobody has heard yet, oldest first.
Waiting == pending \o Samples(pcm \o held \o frames \o parked)

\* The path is a lossy FIFO: over three queues, two threads and a task, samples
\* come out in order and once, and only samples older than the newest
\* MAX_PENDING are dropped (pw.rs:129-145, "bound pending buffer").
Fifo == INSTANCE LossyFifo WITH
    Keep <- MaxPending,
    sent <- forwarded,
    queue <- IF pw = "gone" THEN <<>> ELSE Waiting,
    got <- out.samples,
    open <- pw # "gone"
FifoSpec == Fifo!Spec

\* PipeWire gets silence only for want of samples (pw.rs:169-186).
SilenceIsLast == out.silence > 0 => pending = <<>>

\* Every frame is heard, or dropped as too old, unless PipeWire is shut down: no
\* frame is stuck in a queue.
FramesAreHeard ==
    \A n \in 0 .. MaxFrames - 1 :
        forwarded > n ~>
            \/ pw = "gone"
            \/ \A i \in DOMAIN Waiting : Waiting[i] > (n + 1) * FrameLen

\* The teardown comes to its end, whatever the channels hold and whether the
\* thread still runs, failed to start, or has quit (main.rs:475-483).
TeardownEnds == main # "session" ~> main = "ended"
=============================================================================
