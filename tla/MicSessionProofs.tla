-------------------------- MODULE MicSessionProofs --------------------------
(***************************************************************************)
(* Theorems about MicSession, for every set of stream ids, every channel   *)
(* capacity, every pair of timeouts and both protocol versions.            *)
(***************************************************************************)
EXTENDS MicSession, SequenceTheorems, TLAPS

\* The facts about the constants every proof below uses.
LEMMA ConstantsFacts ==
    /\ StreamIds \subseteq Nat /\ MicOpenId \in StreamIds
    /\ SeqMod \in Nat \ {0} /\ AudioCap \in Nat \ {0}
    /\ FrameTimeout \in Nat /\ Keepalive \in Nat
    /\ OnDemand \in BOOLEAN /\ V10 \in BOOLEAN
    /\ None \notin StreamIds /\ None \notin Seqs
  BY StreamIdsAssumption, SeqModAssumption, AudioCapAssumption, TimeoutAssumption,
     SwitchAssumption DEF None, Seqs, MicOpenId

\* The commands of a session in a typed state are typed.
LEMMA CommandsTyped ==
    ASSUME TypeOK
    PROVE  MicOpenCmd \in Commands /\ MicCloseCmd \in Commands /\ KeepaliveCmd \in Commands
  BY ConstantsFacts DEF TypeOK, Commands, MicOpenCmd, MicCloseCmd, KeepaliveCmd, CloseId

-----------------------------------------------------------------------------
(* Type correctness.  The shared steps come first, one lemma each.         *)

LEMMA OpenMicTyped == ASSUME TypeOK, OpenMic, off' = {} PROVE TypeOK'
  BY ConstantsFacts, CommandsTyped
  DEF TypeOK, OpenMic, Wrote, RestartFrameTimer

LEMMA CloseMicResetTyped ==
    ASSUME TypeOK, CloseMicReset, off' = {}, Wrote(MicCloseCmd) \/ WroteNothing
    PROVE  TypeOK'
  BY ConstantsFacts, CommandsTyped
  DEF TypeOK, CloseMicReset, Wrote, WroteNothing

LEMMA WriteFailsTyped == ASSUME TypeOK, WriteFails, off' = {} PROVE TypeOK'
  BY DEF TypeOK, WriteFails, WroteNothing

LEMMA IgnoreTyped == ASSUME TypeOK, Ignore, off' = {} PROVE TypeOK'
  BY DEF TypeOK, Ignore, WroteNothing

LEMMA CtlArmTyped == ASSUME TypeOK, CtlArm PROVE TypeOK'
  <1>1. ASSUME NEW reason \in StopReasons, AudioStop(reason) PROVE TypeOK'
    BY <1>1, CloseMicResetTyped, WriteFailsTyped DEF AudioStop, CloseMic, Notified, Matched
  <1>2. ASSUME NEW id \in StreamIds, AudioStart(id) PROVE TypeOK'
    BY <1>2, ConstantsFacts
    DEF AudioStart, TypeOK, WroteNothing, RestartFrameTimer, Notified, Matched
  <1>3. CASE StartSearch
    BY <1>3, OpenMicTyped, CloseMicResetTyped, WriteFailsTyped
    DEF StartSearch, CloseMic, Notified, Matched
  <1>4. CASE MicOpenError
    BY <1>4 DEF MicOpenError, TypeOK, WroteNothing, Notified, Matched
  <1>5. CASE OtherCtl
    BY <1>5, IgnoreTyped DEF OtherCtl, Notified, Matched
  <1> QED
    BY <1>1, <1>2, <1>3, <1>4, <1>5 DEF CtlArm

LEMMA RxArmTyped == ASSUME TypeOK, RxArm PROVE TypeOK'
  <1>1. ASSUME NEW seq \in Seqs, Frame(seq) PROVE TypeOK'
    <2>1. CASE Len(audio) < AudioCap /\ audio' = Append(audio, seq) /\ UNCHANGED parked
      <3>1. audio' \in Seq(Seqs) /\ Len(audio') <= AudioCap
        BY <2>1, ConstantsFacts DEF TypeOK
      <3> QED
        BY <1>1, <2>1, <3>1, ConstantsFacts
        DEF Frame, TypeOK, WroteNothing, RestartFrameTimer, Matched
    <2>2. CASE parked' = seq /\ UNCHANGED audio
      BY <1>1, <2>2, ConstantsFacts
      DEF Frame, TypeOK, WroteNothing, RestartFrameTimer, Matched
    <2> QED
      BY <1>1, <2>1, <2>2 DEF Frame, Forward
  <1>2. CASE DroppedFrame
    BY <1>2, IgnoreTyped DEF DroppedFrame, Matched
  <1> QED
    BY <1>1, <1>2 DEF RxArm

LEMMA DecoderRecvTyped == ASSUME TypeOK, DecoderRecv PROVE TypeOK'
  <1>1. /\ Tail(audio) \in Seq(Seqs)
        /\ Len(Tail(audio)) = Len(audio) - 1
        /\ Len(audio) \in Nat /\ Len(audio) > 0
    BY DEF DecoderRecv, TypeOK
  <1>2. CASE parked = None /\ audio' = Tail(audio) /\ UNCHANGED parked
    BY <1>1, <1>2, ConstantsFacts DEF DecoderRecv, TypeOK, WroteNothing
  <1>3. CASE parked # None /\ audio' = Append(Tail(audio), parked) /\ parked' = None
    <2>1. parked \in Seqs
      BY <1>3 DEF TypeOK
    <2>2. audio' \in Seq(Seqs) /\ Len(audio') <= AudioCap
      BY <1>1, <1>3, <2>1, ConstantsFacts DEF TypeOK
    <2> QED
      BY <1>3, <2>2 DEF DecoderRecv, TypeOK, WroteNothing
  <1> QED
    BY <1>2, <1>3 DEF DecoderRecv

LEMMA TickTyped == ASSUME TypeOK, Tick PROVE TypeOK'
  <1>1. frameLeft' \in 0 .. FrameTimeout /\ keepLeft' \in 0 .. Keepalive
    BY ConstantsFacts DEF Tick, TypeOK
  <1>2. quiet' \in 0 .. FrameTimeout
    BY ConstantsFacts DEF Tick, TypeOK
  <1> QED
    BY <1>1, <1>2 DEF Tick, TypeOK, WroteNothing

LEMMA NextTyped == ASSUME TypeOK, Next PROVE TypeOK'
  <1>1. CASE CtlArm
    BY <1>1, CtlArmTyped
  <1>2. CASE RxArm
    BY <1>2, RxArmTyped
  <1>3. CASE DecoderRecv
    BY <1>3, DecoderRecvTyped
  <1>4. ASSUME NEW cmd \in ExternalCommands, External(cmd) PROVE TypeOK'
    BY <1>4, OpenMicTyped, CloseMicResetTyped, WriteFailsTyped, IgnoreTyped
    DEF External, CloseMic, Matched
  <1>5. ASSUME NEW count \in 0 .. 2, ConsumersChanged(count) PROVE TypeOK'
    BY <1>5, OpenMicTyped, CloseMicResetTyped, WriteFailsTyped, IgnoreTyped
    DEF ConsumersChanged, CloseMicBestEffort, Matched
  <1>6. CASE KeepaliveTimer
    BY <1>6, ConstantsFacts, CommandsTyped
    DEF KeepaliveTimer, TypeOK, Wrote, WroteNothing, Matched
  <1>7. CASE FrameTimer
    BY <1>7, CloseMicResetTyped DEF FrameTimer, CloseMicBestEffort, Matched
  <1>8. CASE Disconnected
    BY <1>8 DEF Disconnected, TypeOK, WroteNothing, Matched
  <1>9. ASSUME NEW s \in Streams, StreamEnds(s) PROVE TypeOK'
    BY <1>9 DEF StreamEnds, TypeOK, WroteNothing
  <1>10. CASE Tick
    BY <1>10, TickTyped
  <1>11. CASE PolledAgain
    BY <1>11 DEF PolledAgain, TypeOK, WroteNothing
  <1> QED
    BY <1>1, <1>2, <1>3, <1>4, <1>5, <1>6, <1>7, <1>8, <1>9, <1>10, <1>11 DEF Next

LEMMA InitTyped == Init => TypeOK
  BY ConstantsFacts DEF Init, TypeOK, Streams

\* Every reachable state of run_session is typed; in particular the audio
\* channel never holds more than its capacity and a timer never more than its
\* timeout.
THEOREM TypeCorrect == Spec => []TypeOK
  <1>1. TypeOK /\ UNCHANGED sessionVars => TypeOK'
    BY DEF TypeOK, sessionVars
  <1> QED
    BY <1>1, InitTyped, NextTyped, PTL DEF Spec

-----------------------------------------------------------------------------
(* Safety.  The two invariants are inductive together with the types.      *)

IInv == TypeOK /\ StreamScoped /\ FrameTimerMeasuresSilence

LEMMA OpenMicKeeps ==
    ASSUME IInv, OpenMic, state = "connected", parked = None
    PROVE  StreamScoped' /\ FrameTimerMeasuresSilence'
  BY ConstantsFacts
  DEF IInv, StreamScoped, FrameTimerMeasuresSilence, MicActive, OpenMic, RestartFrameTimer

LEMMA CloseMicResetKeeps ==
    ASSUME IInv, CloseMicReset, parked = None
    PROVE  StreamScoped' /\ FrameTimerMeasuresSilence'
  BY DEF IInv, StreamScoped, FrameTimerMeasuresSilence, MicActive, CloseMicReset

\* A step that leaves the state, the ids, the timer and its measure alone.
LEMMA UnchangedKeeps ==
    ASSUME IInv, UNCHANGED <<state, streamId, lastSeq, frameLeft, parked, quiet>>
    PROVE  StreamScoped' /\ FrameTimerMeasuresSilence'
  BY DEF IInv, StreamScoped, FrameTimerMeasuresSilence, MicActive

LEMMA CtlArmKeeps ==
    ASSUME IInv, CtlArm
    PROVE  StreamScoped' /\ FrameTimerMeasuresSilence'
  <1>1. ASSUME NEW reason \in StopReasons, AudioStop(reason)
        PROVE  StreamScoped' /\ FrameTimerMeasuresSilence'
    BY <1>1, CloseMicResetKeeps, UnchangedKeeps
    DEF AudioStop, CloseMic, WriteFails, Notified, Matched, Polling
  <1>2. ASSUME NEW id \in StreamIds, AudioStart(id)
        PROVE  StreamScoped' /\ FrameTimerMeasuresSilence'
    BY <1>2, ConstantsFacts
    DEF IInv, StreamScoped, FrameTimerMeasuresSilence, MicActive, AudioStart,
        RestartFrameTimer, Notified, Matched, Polling
  <1>3. CASE StartSearch
    <2>1. ~MicActive => state = "connected"
      BY DEF IInv, TypeOK, MicActive
    <2> QED
      BY <1>3, <2>1, OpenMicKeeps, CloseMicResetKeeps, UnchangedKeeps
      DEF StartSearch, CloseMic, WriteFails, Notified, Matched, Polling
  <1>4. CASE MicOpenError
    BY <1>4
    DEF MicOpenError, IInv, StreamScoped, FrameTimerMeasuresSilence, MicActive
  <1>5. CASE OtherCtl
    BY <1>5, UnchangedKeeps DEF OtherCtl, Ignore
  <1> QED
    BY <1>1, <1>2, <1>3, <1>4, <1>5 DEF CtlArm

LEMMA RxArmKeeps ==
    ASSUME IInv, RxArm
    PROVE  StreamScoped' /\ FrameTimerMeasuresSilence'
  <1>1. ASSUME NEW seq \in Seqs, Frame(seq)
        PROVE  StreamScoped' /\ FrameTimerMeasuresSilence'
    BY <1>1, ConstantsFacts
    DEF IInv, StreamScoped, FrameTimerMeasuresSilence, Frame, RestartFrameTimer
  <1>2. CASE DroppedFrame
    BY <1>2, UnchangedKeeps DEF DroppedFrame, Ignore
  <1> QED
    BY <1>1, <1>2 DEF RxArm

LEMMA TickKeeps ==
    ASSUME IInv, Tick
    PROVE  StreamScoped' /\ FrameTimerMeasuresSilence'
  <1>1. StreamScoped'
    BY DEF IInv, StreamScoped, Tick
  <1>2. ASSUME MicActive PROVE frameLeft' = FrameTimeout - quiet'
    <2>1. frameLeft = FrameTimeout - quiet /\ quiet \in 0 .. FrameTimeout
      BY <1>2 DEF IInv, TypeOK, FrameTimerMeasuresSilence
    <2> QED
      BY <2>1, ConstantsFacts DEF Tick
  <1> QED
    BY <1>1, <1>2, ConstantsFacts DEF FrameTimerMeasuresSilence, MicActive, Tick

LEMMA NextKeeps == ASSUME IInv, Next PROVE IInv'
  <1>0. TypeOK'
    BY NextTyped DEF IInv
  <1> SUFFICES StreamScoped' /\ FrameTimerMeasuresSilence'
    BY <1>0 DEF IInv
  <1>1. CASE CtlArm
    BY <1>1, CtlArmKeeps
  <1>2. CASE RxArm
    BY <1>2, RxArmKeeps
  <1>3. CASE DecoderRecv
    BY <1>3 DEF DecoderRecv, IInv, StreamScoped, FrameTimerMeasuresSilence, MicActive
  <1>4. ASSUME NEW cmd \in ExternalCommands, External(cmd)
        PROVE  StreamScoped' /\ FrameTimerMeasuresSilence'
    BY <1>4, OpenMicKeeps, CloseMicResetKeeps, UnchangedKeeps
    DEF External, CloseMic, WriteFails, Ignore, Matched, Polling
  <1>5. ASSUME NEW count \in 0 .. 2, ConsumersChanged(count)
        PROVE  StreamScoped' /\ FrameTimerMeasuresSilence'
    BY <1>5, OpenMicKeeps, CloseMicResetKeeps, UnchangedKeeps
    DEF ConsumersChanged, CloseMicBestEffort, WriteFails, Ignore, Matched, Polling
  <1>6. CASE KeepaliveTimer
    BY <1>6, UnchangedKeeps DEF KeepaliveTimer
  <1>7. CASE FrameTimer
    BY <1>7, CloseMicResetKeeps DEF FrameTimer, CloseMicBestEffort, Matched, Polling
  <1>8. CASE Disconnected
    BY <1>8, UnchangedKeeps DEF Disconnected
  <1>9. ASSUME NEW s \in Streams, StreamEnds(s)
        PROVE  StreamScoped' /\ FrameTimerMeasuresSilence'
    BY <1>9, UnchangedKeeps DEF StreamEnds
  <1>10. CASE Tick
    BY <1>10, TickKeeps
  <1>11. CASE PolledAgain
    BY <1>11, UnchangedKeeps DEF PolledAgain
  <1> QED
    BY <1>1, <1>2, <1>3, <1>4, <1>5, <1>6, <1>7, <1>8, <1>9, <1>10, <1>11 DEF Next

LEMMA InductiveInvariant == Spec => []IInv
  <1>1. Init => IInv
    BY InitTyped, ConstantsFacts
    DEF Init, IInv, StreamScoped, FrameTimerMeasuresSilence, MicActive
  <1>2. IInv /\ UNCHANGED sessionVars => IInv'
    BY DEF IInv, TypeOK, StreamScoped, FrameTimerMeasuresSilence, MicActive, sessionVars
  <1> QED
    BY <1>1, <1>2, NextKeeps, PTL DEF Spec

\* A stream id, a last sequence number and a parked frame exist only while
\* streaming, whatever order the notifications, commands, counts and timeouts
\* come in.
THEOREM StreamScopedCorrect == Spec => []StreamScoped
  <1>1. IInv => StreamScoped
    BY DEF IInv
  <1> QED
    BY <1>1, InductiveInvariant, PTL

\* The frame timer always measures the silence since the mic was asked for,
\* started or last heard of, so it cannot fire early on a new stream.
THEOREM FrameTimerCorrect == Spec => []FrameTimerMeasuresSilence
  <1>1. IInv => FrameTimerMeasuresSilence
    BY DEF IInv
  <1> QED
    BY <1>1, InductiveInvariant, PTL

-----------------------------------------------------------------------------
(* MicSession implements MicControl.                                       *)

LEMMA CloseImplements ==
    ASSUME IInv, CloseMicReset, MicActive, Wrote(MicCloseCmd) \/ WroteNothing
    PROVE  Control!Close
  <1>1. state # "connected" /\ state' = "connected" /\ streamId' = None
    BY DEF CloseMicReset, MicActive
  <1>2. CloseId = IF state = "streaming" THEN streamId ELSE MicOpenId
    BY ConstantsFacts DEF IInv, StreamScoped, CloseId
  <1> QED
    BY <1>1, <1>2
    DEF Control!Close, Control!Tell, Control!TellNothing, Wrote, WroteNothing, MicCloseCmd

LEMMA OpenImplements ==
    ASSUME OpenMic, state = "connected"
    PROVE  Control!Ask
  BY DEF OpenMic, Wrote, MicOpenCmd, Control!Ask, Control!TellOpen

\* A step that leaves the state and the id alone and writes nothing.
LEMMA RestImplements ==
    ASSUME UNCHANGED <<state, streamId>>, WroteNothing
    PROVE  Control!Rest
  BY DEF WroteNothing, Control!Rest, Control!TellNothing

LEMMA CtlArmImplements == ASSUME IInv, CtlArm PROVE Control!Next
  <1>1. ASSUME NEW reason \in StopReasons, AudioStop(reason) PROVE Control!Next
    <2>1. CASE CloseMicReset /\ WroteNothing /\ ~MicActive
      <3>1. UNCHANGED <<state, streamId>>
        BY <2>1 DEF IInv, TypeOK, StreamScoped, MicActive, CloseMicReset
      <3> QED
        BY <2>1, <3>1, RestImplements DEF Control!Next
    <2>2. CASE CloseMicReset /\ (WroteNothing \/ Wrote(MicCloseCmd)) /\ MicActive
      BY <2>2, CloseImplements DEF Control!Next
    <2>3. CASE WriteFails
      BY <2>3, RestImplements DEF WriteFails, Control!Next
    <2> QED
      BY <1>1, <2>1, <2>2, <2>3 DEF AudioStop, CloseMic, MicActive
  <1>2. ASSUME NEW id \in StreamIds, AudioStart(id) PROVE Control!Next
    <2>1. Control!Start(id)
      BY <1>2 DEF AudioStart, WroteNothing, Control!Start, Control!TellNothing
    <2> QED
      BY <2>1 DEF Control!Next
  <1>3. CASE StartSearch
    <2>1. ~MicActive => state = "connected"
      BY DEF IInv, TypeOK, MicActive
    <2> QED
      BY <1>3, <2>1, OpenImplements, CloseImplements, RestImplements
      DEF StartSearch, CloseMic, WriteFails, Control!Next
  <1>4. CASE MicOpenError
    <2>1. Control!Close
      BY <1>4 DEF MicOpenError, WroteNothing, Control!Close, Control!TellNothing
    <2> QED
      BY <2>1 DEF Control!Next
  <1>5. CASE OtherCtl
    BY <1>5, RestImplements DEF OtherCtl, Ignore, Control!Next
  <1> QED
    BY <1>1, <1>2, <1>3, <1>4, <1>5 DEF CtlArm

LEMMA KeepaliveImplements == ASSUME IInv, KeepaliveTimer PROVE Control!Next
  <1>1. state = "streaming" /\ CloseId = streamId /\ UNCHANGED <<state, streamId>>
    BY DEF KeepaliveTimer, IInv, StreamScoped, CloseId
  <1>2. CASE Wrote(KeepaliveCmd)
    <2>1. V10 => Control!Refresh
      BY <1>1, <1>2 DEF Wrote, KeepaliveCmd, Control!Refresh, Control!Tell
    <2>2. ~V10 => Control!Refresh
      BY <1>1, <1>2 DEF Wrote, KeepaliveCmd, MicOpenCmd, Control!Refresh, Control!TellOpen
    <2> QED
      BY <2>1, <2>2 DEF Control!Next
  <1>3. CASE WroteNothing
    BY <1>1, <1>3, RestImplements DEF Control!Next
  <1> QED
    BY <1>2, <1>3 DEF KeepaliveTimer

LEMMA NextImplements == ASSUME IInv, Next PROVE Control!Next
  <1>1. CASE CtlArm
    BY <1>1, CtlArmImplements
  <1>2. CASE RxArm
    BY <1>2, RestImplements DEF RxArm, Frame, DroppedFrame, Ignore, Control!Next
  <1>3. CASE DecoderRecv
    BY <1>3, RestImplements DEF DecoderRecv, Control!Next
  <1>4. ASSUME NEW cmd \in ExternalCommands, External(cmd) PROVE Control!Next
    BY <1>4, OpenImplements, CloseImplements, RestImplements
    DEF External, CloseMic, WriteFails, Ignore, Control!Next
  <1>5. ASSUME NEW count \in 0 .. 2, ConsumersChanged(count) PROVE Control!Next
    BY <1>5, OpenImplements, CloseImplements, RestImplements
    DEF ConsumersChanged, CloseMicBestEffort, WriteFails, Ignore, Control!Next
  <1>6. CASE KeepaliveTimer
    BY <1>6, KeepaliveImplements
  <1>7. CASE FrameTimer
    BY <1>7, CloseImplements DEF FrameTimer, CloseMicBestEffort, Control!Next
  <1>8. CASE Disconnected
    BY <1>8, RestImplements DEF Disconnected, Control!Next
  <1>9. ASSUME NEW s \in Streams, StreamEnds(s) PROVE Control!Next
    BY <1>9, RestImplements DEF StreamEnds, Control!Next
  <1>10. CASE Tick
    BY <1>10, RestImplements DEF Tick, Control!Next
  <1>11. CASE PolledAgain
    BY <1>11, RestImplements DEF PolledAgain, Control!Next
  <1> QED
    BY <1>1, <1>2, <1>3, <1>4, <1>5, <1>6, <1>7, <1>8, <1>9, <1>10, <1>11 DEF Next

\* Every step of the session is one MicControl allows: MIC_OPEN only when the
\* mic is off, MIC_CLOSE and MIC_EXTEND only under the right stream id.
THEOREM ImplementsControl == Spec => ControlSpec
  <1>1. Init => Control!Init
    BY DEF Init, Control!Init
  <1>2. IInv /\ [Next]_sessionVars => [Control!Next]_(Control!vars)
    BY NextImplements DEF sessionVars, Control!vars
  <1> QED
    BY <1>1, <1>2, InductiveInvariant, PTL DEF Spec, ControlSpec, Control!Spec
=============================================================================
