---------------------------- MODULE MicLinkProofs ----------------------------
(***************************************************************************)
(* Theorems about MicLink, for every number of calls, presses, faults and  *)
(* changes of the clients, every queue length, both protocol versions and  *)
(* every setting of the session.                                           *)
(***************************************************************************)
EXTENDS MicLink, MicSessionProofs

\* The CTL notifications of the remote.
Notes ==
    {Stop(r) : r \in StopReasons} \cup {Start(s) : s \in StreamIds} \cup {Search, OpenError}

LEMMA NotesAre ==
    ASSUME NEW n \in Notes
    PROVE  /\ n.ev \in {"AUDIO_STOP", "AUDIO_START", "START_SEARCH", "MIC_OPEN_ERROR"}
           /\ n.ev = "AUDIO_STOP" => n.arg \in StopReasons /\ n = Stop(n.arg)
           /\ n.ev = "AUDIO_START" => n.arg \in StreamIds /\ n = Start(n.arg)
           /\ n.ev = "START_SEARCH" => n = Search
           /\ n.ev = "MIC_OPEN_ERROR" => n = OpenError
  BY DEF Notes, Stop, Start, Search, OpenError

LEMMA AreNotes ==
    /\ \A r \in StopReasons : Stop(r) \in Notes
    /\ \A s \in StreamIds : Start(s) \in Notes
    /\ Search \in Notes /\ OpenError \in Notes
  BY DEF Notes

Remotes == {Idle, Asleep} \cup {On(s) : s \in StreamIds}

LEMMA RemotesAre ==
    /\ \A r \in Remotes : r.phase = "on" => r.sid \in StreamIds /\ r = On(r.sid)
    /\ \A s \in StreamIds : On(s) \in Remotes /\ On(s).phase = "on" /\ On(s).sid = s
    /\ Idle \in Remotes /\ Idle.phase # "on" /\ Asleep \in Remotes /\ Asleep.phase # "on"
    /\ Idle # Asleep /\ \A s : On(s) # Idle /\ On(s) # Asleep
  <1>1. \A s : On(s).phase = "on" /\ On(s).sid = s
    BY DEF On
  <1>2. Idle.phase = "idle" /\ Asleep.phase = "asleep"
    BY DEF Idle, Asleep
  <1>3. \A r \in Remotes : r = Idle \/ r = Asleep \/ \E s \in StreamIds : r = On(s)
    BY DEF Remotes
  <1>4. Idle \in Remotes /\ Asleep \in Remotes /\ \A s \in StreamIds : On(s) \in Remotes
    BY DEF Remotes
  <1> QED
    BY <1>1, <1>2, <1>3, <1>4

\* A queue that is read, and one that is written to.
LEMMA QueueRead ==
    ASSUME NEW S, NEW q \in Seq(S), q # <<>>
    PROVE  /\ Head(q) \in S /\ Head(q) = q[1] /\ Tail(q) \in Seq(S)
           /\ Len(q) \in Nat /\ Len(q) > 0 /\ Len(Tail(q)) = Len(q) - 1
           /\ \A i \in 1 .. Len(q) - 1 : Tail(q)[i] = q[i + 1]
  <1>1. /\ Head(q) \in S /\ Head(q) = q[1] /\ Tail(q) \in Seq(S)
        /\ Len(q) \in Nat /\ Len(q) > 0 /\ Len(Tail(q)) = Len(q) - 1
    OBVIOUS
  <1>2. \A i \in 1 .. Len(q) - 1 : Tail(q)[i] = q[i + 1]
    OBVIOUS
  <1> QED
    BY <1>1, <1>2

LEMMA QueueWritten ==
    ASSUME NEW S, NEW q \in Seq(S), NEW x \in S
    PROVE  /\ q \o <<x>> = Append(q, x) /\ Append(q, x) \in Seq(S)
           /\ Len(q) \in Nat /\ Len(Append(q, x)) = Len(q) + 1 /\ Append(q, x)[Len(q) + 1] = x
           /\ \A i \in 1 .. Len(q) : Append(q, x)[i] = q[i]
  OBVIOUS

LEMMA QueueWrittenTwice ==
    ASSUME NEW S, NEW q \in Seq(S), NEW x \in S, NEW y \in S
    PROVE  q \o <<x, y>> = Append(Append(q, x), y)
  OBVIOUS

LEMMA QueueKept == ASSUME NEW S, NEW q \in Seq(S) PROVE q \o <<>> = q
  OBVIOUS

-----------------------------------------------------------------------------
(* Types.                                                                  *)

Links ==
    /\ remote \in Remotes
    /\ up \in Seq(Commands)
    /\ down \in Seq(Notes)
    /\ rx \in 0 .. 1
    /\ calls \in Seq(ExternalCommands)
    /\ clients \in 0 .. 1
    /\ events \in Seq(0 .. 1)
    /\ requests \in 0 .. MaxRequests
    /\ presses \in 0 .. MaxPresses
    /\ faults \in 0 .. MaxFaults
    /\ asked \in BOOLEAN /\ closeLost \in BOOLEAN

LEMMA LinkTypes == LinkTypeOK <=> TypeOK /\ Links
  BY DEF LinkTypeOK, Links, Remotes, Notes

LEMMA Bounds ==
    /\ MaxRequests \in Nat /\ MaxPresses \in Nat /\ MaxFaults \in Nat /\ MaxInFlight \in Nat
    /\ Callers \subseteq ExternalCommands /\ Hasty \in BOOLEAN
  BY BoundsAssumption, UsersAssumption

\* Whatever the host does, its session makes a step of its own or none.
LEMMA HostIsSession == ASSUME LinkTypeOK, Host \/ HostRest \/ HostDisconnected PROVE Next
  <1>0. TypeOK /\ Links
    BY LinkTypes
  <1>1. CASE HostCtl
    <2> DEFINE n == Head(down)
    <2>1. n \in Notes
      BY <1>0, <1>1, QueueRead DEF HostCtl, Links
    <2>2. \/ n.ev = "AUDIO_STOP" /\ AudioStop(n.arg)
          \/ n.ev = "AUDIO_START" /\ AudioStart(n.arg)
          \/ StartSearch \/ MicOpenError \/ OtherCtl
      BY <1>1 DEF HostCtl
    <2> HIDE DEF n
    <2>3. CtlArm
      BY <2>1, <2>2, NotesAre DEF CtlArm
    <2> QED
      BY <2>3 DEF Next
  <1>2. CASE HostRx
    BY <1>2 DEF HostRx, Next, RxArm
  <1>3. CASE HostCommand
    <2>1. Head(calls) \in ExternalCommands
      BY <1>0, <1>3, QueueRead DEF HostCommand, Links
    <2> QED
      BY <1>3, <2>1 DEF HostCommand, Next
  <1>4. CASE HostConsumers
    <2>1. Head(events) \in 0 .. 1
      BY <1>0, <1>4, QueueRead DEF HostConsumers, Links
    <2>2. Head(events) \in 0 .. 2
      BY <2>1
    <2> QED
      BY <1>4, <2>2 DEF HostConsumers, Next
  <1>5. CASE HostTimer
    BY <1>5 DEF HostTimer, Next
  <1>6. CASE HostRest
    BY <1>6 DEF HostRest, Next
  <1>7. CASE HostDisconnected
    BY <1>7 DEF HostDisconnected, Next
  <1> QED
    BY <1>1, <1>2, <1>3, <1>4, <1>5, <1>6, <1>7 DEF Host

UserStep == (\E cmd \in Callers : Call(cmd)) \/ ClientsChange
RemoteActs == RemoteReceives \/ RemoteSendsFrame \/ Press \/ Release \/ RemoteGivesUp

LEMMA OthersLeaveSession == ASSUME UserStep \/ RemoteActs PROVE UNCHANGED sessionVars
  BY DEF UserStep, RemoteActs, Call, ClientsChange, Requests, RemoteReceives,
         RemoteSendsFrame, Press, Release, RemoteGivesUp, RemoteStep

LEMMA LinkSteps ==
    ASSUME LinkNext
    PROVE  Host \/ HostRest \/ HostDisconnected \/ UserStep \/ RemoteActs
  BY DEF LinkNext, UserStep, RemoteActs

LEMMA SessionStep == ASSUME LinkTypeOK, [LinkNext]_linkVars PROVE [Next]_sessionVars
  <1>1. CASE LinkNext
    BY <1>1, LinkSteps, HostIsSession, OthersLeaveSession
  <1>2. CASE UNCHANGED linkVars
    BY <1>2 DEF linkVars, sessionVars
  <1> QED
    BY <1>1, <1>2

\* What the host puts on the link.
LEMMA SendsTyped ==
    ASSUME TypeOK', Links, NEW lost \in BOOLEAN, Sends(lost)
    PROVE  /\ up' \in Seq(Commands) /\ faults' \in 0 .. MaxFaults /\ closeLost' \in BOOLEAN
           /\ WroteNothing => up' = up
           /\ \A c \in Commands : Wrote(c) => up' = Append(up, c)
           /\ faults' <= faults
           /\ lost \/ result' = "err" => faults' # faults
  <1>1. written' = <<>> \/ \E c \in Commands : written' = <<c>>
    BY DEF TypeOK
  <1>2. up \in Seq(Commands) /\ faults \in 0 .. MaxFaults /\ closeLost \in BOOLEAN
    BY DEF Links
  <1>3. WroteNothing => up' = up
    BY <1>2, QueueKept DEF Sends, WroteNothing
  <1>4. \A c \in Commands : Wrote(c) => up' = Append(up, c) /\ up' \in Seq(Commands)
    BY <1>2, QueueWritten DEF Sends, Wrote
  <1>5. up' \in Seq(Commands)
    BY <1>1, <1>2, <1>3, <1>4 DEF Wrote, WroteNothing
  <1>6. faults' \in 0 .. MaxFaults /\ faults' <= faults
        /\ (lost \/ result' = "err" => faults' # faults)
    BY <1>2, Bounds DEF Sends
  <1>7. closeLost' \in BOOLEAN
    BY <1>2 DEF Sends
  <1> QED
    BY <1>3, <1>4, <1>5, <1>6, <1>7

LEMMA HostTyped == ASSUME LinkTypeOK, Host \/ HostRest \/ HostDisconnected PROVE LinkTypeOK'
  <1>1. TypeOK' /\ Links
    BY HostIsSession, NextTyped, LinkTypes
  <1>2. CASE Host
    <2>1. \E lost \in BOOLEAN : Sends(lost)
      <3>1. (state' # state /\ written' = <<>>) \in BOOLEAN /\ (written' = <<>>) \in BOOLEAN
        OBVIOUS
      <3> QED
        BY <1>2, <3>1 DEF Host, HostCtl, HostRx, HostCommand, HostConsumers, HostTimer
    <2>2. up' \in Seq(Commands) /\ faults' \in 0 .. MaxFaults /\ closeLost' \in BOOLEAN
      BY <1>1, <2>1, SendsTyped
    <2>3. down' \in Seq(Notes)
      BY <1>1, <1>2, QueueRead DEF Host, HostCtl, HostRx, HostCommand, HostConsumers, HostTimer, Links
    <2>4. calls' \in Seq(ExternalCommands)
      BY <1>1, <1>2, QueueRead DEF Host, HostCtl, HostRx, HostCommand, HostConsumers, HostTimer, Links
    <2>5. events' \in Seq(0 .. 1)
      BY <1>1, <1>2, QueueRead DEF Host, HostCtl, HostRx, HostCommand, HostConsumers, HostTimer, Links
    <2>6. /\ UNCHANGED <<remote, clients, requests, presses>>
          /\ rx' \in 0 .. 1 /\ asked' \in BOOLEAN
      <3>1. UNCHANGED <<remote, clients, requests, presses>> /\ rx' \in {rx, 0}
        BY <1>2 DEF Host, HostCtl, HostRx, HostCommand, HostConsumers, HostTimer
      <3>2. asked' = asked \/ asked' = (asked \/ state' # state)
        BY <1>2 DEF Host, HostCtl, HostRx, HostCommand, HostConsumers, HostTimer
      <3>3. asked \in BOOLEAN /\ rx \in 0 .. 1
        BY <1>1 DEF Links
      <3>4. asked' \in BOOLEAN
        BY <3>2, <3>3, Zenon
      <3> QED
        BY <3>1, <3>3, <3>4
    <2>7. Links'
      BY <1>1, <2>2, <2>3, <2>4, <2>5, <2>6 DEF Links
    <2> QED
      BY <1>1, <2>7 DEF LinkTypeOK, Links, Remotes, Notes
  <1>3. CASE HostRest \/ HostDisconnected
    <2>1. ASSUME HostRest PROVE Links'
      BY <1>1, <2>1 DEF HostRest, envVars, Links
    <2>2. ASSUME HostDisconnected PROVE Links'
      <3>1. faults' \in 0 .. MaxFaults
        BY <1>1, <2>2, Bounds DEF HostDisconnected, Links
      <3> QED
        BY <1>1, <2>2, <3>1 DEF HostDisconnected, Links
    <2>3. Links'
      BY <1>3, <2>1, <2>2
    <2> QED
      BY <1>1, <2>3 DEF LinkTypeOK, Links, Remotes, Notes
  <1> QED
    BY <1>2, <1>3

LEMMA UsersTyped == ASSUME Links, UserStep PROVE Links'
  <1>1. ASSUME NEW cmd \in Callers, Call(cmd) PROVE Links'
    <2>1. calls' \in Seq(ExternalCommands)
      BY <1>1, Bounds, QueueWritten DEF Call, Links
    <2> QED
      BY <1>1, <2>1, Bounds DEF Call, Requests, Links
  <1>2. CASE ClientsChange
    <2>1. clients' \in 0 .. 1 /\ events' \in Seq(0 .. 1)
      <3>1. clients' \in 0 .. 1
        BY <1>2 DEF ClientsChange, Links
      <3> QED
        BY <1>2, <3>1, QueueWritten DEF ClientsChange, Links
    <2> QED
      BY <1>2, <2>1, Bounds DEF ClientsChange, Requests, Links
  <1> QED
    BY <1>1, <1>2 DEF UserStep

\* What the remote makes of a command.
LEMMA CommandsAre ==
    ASSUME NEW c \in Commands
    PROVE  c.op \in {"MIC_OPEN", "MIC_CLOSE", "MIC_EXTEND"} /\ c.sid \in StreamIds \cup {None}
  BY DEF Commands

LEMMA AnswersTyped ==
    ASSUME Links, NEW n \in Notes, Answers(<<n>>)
    PROVE  down' = Append(down, n) /\ down' \in Seq(Notes)
  BY QueueWritten DEF Answers, Links

LEMMA RemoteTyped == ASSUME Links, RemoteActs PROVE Links'
  <1>0. MicOpenId \in StreamIds
    BY ConstantsFacts
  <1>1. CASE RemoteReceives
    <2>1. /\ up' \in Seq(Commands)
          /\ UNCHANGED <<rx, calls, clients, events, requests, presses, asked, closeLost>>
      BY <1>1, QueueRead DEF RemoteReceives, RemoteStep, Links
    <2>2. /\ remote' \in Remotes /\ down' \in Seq(Notes) /\ faults' \in 0 .. MaxFaults
      <3>1. CASE RemoteOpen
        <4>1. remote' = remote \/ remote' = On(MicOpenId)
          BY <3>1 DEF RemoteOpen
        <4>2. Answers(<<Start(MicOpenId)>>) \/ Answers(<<OpenError>>)
          BY <3>1 DEF RemoteOpen
        <4>3. down' \in Seq(Notes)
          BY <1>0, <4>2, AnswersTyped, AreNotes
        <4>4. faults' \in 0 .. MaxFaults
          BY <3>1, Bounds DEF RemoteOpen, Fault, Links
        <4> QED
          BY <1>0, <4>1, <4>3, <4>4, RemotesAre DEF Links
      <3>2. ASSUME NEW sid, RemoteClose(sid)
            PROVE  remote' \in Remotes /\ down' \in Seq(Notes) /\ faults' \in 0 .. MaxFaults
        <4>1. CASE remote' = Idle /\ Answers(<<Stop("MicClose")>>)
          <5>1. Stop("MicClose") \in Notes
            BY AreNotes DEF StopReasons
          <5>2. down' \in Seq(Notes)
            BY <4>1, <5>1, AnswersTyped
          <5> QED
            BY <3>2, <4>1, <5>2, RemotesAre DEF RemoteClose, Links
        <4>2. CASE UNCHANGED <<remote, down>>
          BY <3>2, <4>2 DEF RemoteClose, Links
        <4> QED
          BY <3>2, <4>1, <4>2 DEF RemoteClose
      <3>3. CASE UNCHANGED <<remote, down, faults>>
        BY <3>3 DEF Links
      <3> QED
        BY <1>1, <3>1, <3>2, <3>3 DEF RemoteReceives
    <2> QED
      BY <2>1, <2>2 DEF Links
  <1>2. CASE RemoteSendsFrame
    BY <1>2 DEF RemoteSendsFrame, RemoteStep, Links
  <1>3. CASE Press
    <2>1. presses' \in 0 .. MaxPresses /\ asked' = TRUE
      BY <1>3, Bounds DEF Press, Links
    <2>2. UNCHANGED <<up, rx, faults, calls, clients, events, requests, closeLost>>
      BY <1>3 DEF Press, RemoteStep
    <2>3. CASE Answers(<<Search>>) /\ remote' \in {Idle, remote}
      <3>1. down' \in Seq(Notes)
        BY <2>3, AnswersTyped, AreNotes
      <3> QED
        BY <2>1, <2>2, <2>3, <3>1, RemotesAre DEF Links
    <2>4. ASSUME NEW s \in StreamIds, remote' = On(s),
                 Answers(<<Stop("UpcomingAudioStart"), Start(s)>>) \/ Answers(<<Start(s)>>)
          PROVE  Links'
      <3>1. Stop("UpcomingAudioStart") \in Notes /\ Start(s) \in Notes
        BY AreNotes DEF StopReasons
      <3>2. down' \in Seq(Notes)
        <4>1. down \in Seq(Notes)
          BY DEF Links
        <4>2. /\ down \o <<Start(s)>> \in Seq(Notes)
              /\ down \o <<Stop("UpcomingAudioStart"), Start(s)>> \in Seq(Notes)
          <5> DEFINE x == Stop("UpcomingAudioStart")
                     y == Start(s)
          <5> HIDE DEF x, y
          <5>1. down \o <<y>> \in Seq(Notes) /\ down \o <<x, y>> \in Seq(Notes)
            BY <3>1, <4>1, QueueWritten, QueueWrittenTwice DEF x, y
          <5> QED
            BY <5>1 DEF x, y
        <4> QED
          BY <2>4, <4>2 DEF Answers
      <3> QED
        BY <2>1, <2>2, <2>4, <3>2, RemotesAre DEF Links
    <2> QED
      BY <1>3, <2>3, <2>4 DEF Press
  <1>4. CASE Release
    <2>1. Stop("HttButtonRelease") \in Notes
      BY AreNotes DEF StopReasons
    <2>2. down' \in Seq(Notes)
      BY <1>4, <2>1, AnswersTyped DEF Release
    <2> QED
      BY <1>4, <2>2, RemotesAre DEF Release, RemoteStep, Links
  <1>5. CASE RemoteGivesUp
    <2>1. Stop("TransferTimeout") \in Notes
      BY AreNotes DEF StopReasons
    <2>2. down' \in Seq(Notes)
      BY <1>5, <2>1, AnswersTyped DEF RemoteGivesUp, Links
    <2>3. remote' \in Remotes /\ faults' \in 0 .. MaxFaults
      BY <1>5, RemotesAre, Bounds DEF RemoteGivesUp, Fault, Links
    <2> QED
      BY <1>5, <2>2, <2>3 DEF RemoteGivesUp, RemoteStep, Links
  <1> QED
    BY <1>1, <1>2, <1>3, <1>4, <1>5 DEF RemoteActs

LEMMA LinkTyped == ASSUME LinkTypeOK, [LinkNext]_linkVars PROVE LinkTypeOK'
  <1>0. TypeOK /\ Links
    BY LinkTypes
  <1>1. CASE UserStep \/ RemoteActs
    <2>1. UNCHANGED sessionVars
      BY <1>1, OthersLeaveSession
    <2>2. TypeOK'
      BY <1>0, <2>1 DEF TypeOK, sessionVars
    <2>3. Links'
      BY <1>0, <1>1, UsersTyped, RemoteTyped
    <2> QED
      BY <2>2, <2>3 DEF LinkTypeOK, Links, Remotes, Notes
  <1>2. CASE UNCHANGED linkVars
    BY <1>2 DEF linkVars, sessionVars, LinkTypeOK, TypeOK
  <1> QED
    BY <1>1, <1>2, LinkSteps, HostTyped

LEMMA LinkInitTyped == LinkInit => LinkTypeOK
  <1> SUFFICES ASSUME LinkInit PROVE LinkTypeOK
    OBVIOUS
  <1>1. TypeOK
    BY InitTyped DEF LinkInit
  <1>2. Links
    <2>1. remote \in Remotes /\ rx \in 0 .. 1 /\ clients \in 0 .. 1
      BY RemotesAre DEF LinkInit
    <2>2. /\ up \in Seq(Commands) /\ down \in Seq(Notes) /\ calls \in Seq(ExternalCommands)
          /\ events \in Seq(0 .. 1)
      BY DEF LinkInit
    <2>3. /\ requests \in 0 .. MaxRequests /\ presses \in 0 .. MaxPresses
          /\ faults \in 0 .. MaxFaults
      BY Bounds DEF LinkInit
    <2>4. asked \in BOOLEAN /\ closeLost \in BOOLEAN
      BY DEF LinkInit
    <2> QED
      BY <2>1, <2>2, <2>3, <2>4 DEF Links
  <1> QED
    BY <1>1, <1>2, LinkTypes

\* Session, remote and link stay within their types: no message is sent that
\* the other side does not know, and no queue holds anything else.
THEOREM LinkTypeCorrect == LinkSpec => []LinkTypeOK
  BY LinkInitTyped, LinkTyped, PTL DEF LinkSpec

\* The session on its link is a session: it does nothing that MicSession, in
\* an open environment, does not do (atvv.rs:111-379).
THEOREM LinkRefinesSession == LinkSpec => Spec
  <1>1. LinkInit => Init
    BY DEF LinkInit
  <1> QED
    BY <1>1, SessionStep, LinkTypeCorrect, PTL DEF LinkSpec, Spec

-----------------------------------------------------------------------------
(* No hidden stream.  A remote that streams has said so last; once that is *)
(* read, the session shows the stream, or has already sent for its end.    *)

Heralds(n) == n.ev \in {"AUDIO_START", "AUDIO_STOP"}
Silent(d) == \A i \in 1 .. Len(d) : ~Heralds(d[i])
\* The last start or stop among the notifications d, if any, starts stream s.
SaysLast(d, s) ==
    \A i \in 1 .. Len(d) :
        Heralds(d[i]) /\ (\A j \in i + 1 .. Len(d) : ~Heralds(d[j])) => d[i] = Start(s)
Ends(c, s) == c.op = "MIC_CLOSE" /\ c.sid \in {None, s}
Closing(u, s) == \E i \in 1 .. Len(u) : Ends(u[i], s)

Heralded == remote.phase = "on" => SaysLast(down, remote.sid)
Known ==
    Running /\ ~closeLost /\ remote.phase = "on" /\ Silent(down)
        => (state = "streaming" /\ streamId = remote.sid) \/ Closing(up, remote.sid)
Hidden == Heralded /\ Known /\ (closeLost => state # "streaming")

LEMMA LastRead ==
    ASSUME NEW d \in Seq(Notes), d # <<>>, NEW s, SaysLast(d, s)
    PROVE  /\ SaysLast(Tail(d), s)
           /\ Silent(Tail(d)) => IF Heralds(Head(d)) THEN Head(d) = Start(s) ELSE Silent(d)
  <1> DEFINE t == Tail(d)
  <1>1. /\ Len(d) \in Nat /\ Len(d) > 0 /\ Len(t) = Len(d) - 1 /\ Head(d) = d[1]
        /\ \A i \in 1 .. Len(d) - 1 : t[i] = d[i + 1]
    BY QueueRead
  <1> HIDE DEF t
  <1>2. SaysLast(t, s)
    <2> SUFFICES ASSUME NEW i \in 1 .. Len(t), Heralds(t[i]),
                        \A j \in i + 1 .. Len(t) : ~Heralds(t[j])
                 PROVE  t[i] = Start(s)
      BY DEF SaysLast
    <2>1. i + 1 \in 1 .. Len(d) /\ t[i] = d[i + 1]
      BY <1>1
    <2>2. ASSUME NEW j \in i + 2 .. Len(d) PROVE ~Heralds(d[j])
      <3>1. j - 1 \in i + 1 .. Len(t) /\ j - 1 \in 1 .. Len(d) - 1 /\ (j - 1) + 1 = j
        BY <1>1
      <3>2. t[j - 1] = d[j]
        BY <1>1, <3>1
      <3> QED
        BY <3>1, <3>2
    <2>3. \A j \in (i + 1) + 1 .. Len(d) : ~Heralds(d[j])
      BY <2>2
    <2> QED
      BY <2>1, <2>3 DEF SaysLast
  <1>3. ASSUME Silent(t) PROVE \A j \in 1 + 1 .. Len(d) : ~Heralds(d[j])
    <2> TAKE j \in 1 + 1 .. Len(d)
    <2>1. j - 1 \in 1 .. Len(t) /\ j - 1 \in 1 .. Len(d) - 1 /\ (j - 1) + 1 = j
      BY <1>1
    <2>2. t[j - 1] = d[j]
      BY <1>1, <2>1
    <2> QED
      BY <1>3, <2>1, <2>2 DEF Silent
  <1>4. ASSUME Silent(t), Heralds(d[1]) PROVE d[1] = Start(s)
    <2>1. 1 \in 1 .. Len(d)
      BY <1>1
    <2> QED
      BY <1>3, <1>4, <2>1 DEF SaysLast
  <1>5. ASSUME Silent(t), ~Heralds(d[1]) PROVE Silent(d)
    <2>1. \A i \in 1 .. Len(d) : i = 1 \/ i \in 1 + 1 .. Len(d)
      BY <1>1
    <2> QED
      BY <1>3, <1>5, <2>1 DEF Silent
  <1> QED
    BY <1>1, <1>2, <1>4, <1>5 DEF t

LEMMA LastSent ==
    ASSUME NEW d \in Seq(Notes), NEW n \in Notes, NEW s
    PROVE  /\ n = Start(s) => SaysLast(Append(d, n), s)
           /\ ~Heralds(n) /\ SaysLast(d, s) => SaysLast(Append(d, n), s)
           /\ Silent(Append(d, n)) => Silent(d) /\ ~Heralds(n)
  <1> DEFINE t == Append(d, n)
  <1>1. /\ Len(d) \in Nat /\ Len(t) = Len(d) + 1 /\ t[Len(d) + 1] = n
        /\ \A i \in 1 .. Len(d) : t[i] = d[i]
    BY QueueWritten
  <1> HIDE DEF t
  <1>2. ASSUME n = Start(s) PROVE SaysLast(t, s)
    <2> SUFFICES ASSUME NEW i \in 1 .. Len(t), Heralds(t[i]),
                        \A j \in i + 1 .. Len(t) : ~Heralds(t[j])
                 PROVE  t[i] = Start(s)
      BY DEF SaysLast
    <2>1. Heralds(n)
      BY <1>2 DEF Heralds, Start
    <2>2. ~(Len(d) + 1 \in i + 1 .. Len(t))
      BY <1>1, <2>1
    <2>3. i = Len(d) + 1
      BY <1>1, <2>2
    <2> QED
      BY <1>1, <1>2, <2>3
  <1>3. ASSUME ~Heralds(n), SaysLast(d, s) PROVE SaysLast(t, s)
    <2> SUFFICES ASSUME NEW i \in 1 .. Len(t), Heralds(t[i]),
                        \A j \in i + 1 .. Len(t) : ~Heralds(t[j])
                 PROVE  t[i] = Start(s)
      BY DEF SaysLast
    <2>1. i # Len(d) + 1
      BY <1>1, <1>3
    <2>2. i \in 1 .. Len(d)
      BY <1>1, <2>1
    <2>3. \A j \in i + 1 .. Len(d) : j \in i + 1 .. Len(t) /\ j \in 1 .. Len(d)
      BY <1>1, <2>2
    <2>4. \A j \in i + 1 .. Len(d) : ~Heralds(d[j])
      BY <1>1, <2>3
    <2> QED
      BY <1>1, <1>3, <2>2, <2>4 DEF SaysLast
  <1>4. ASSUME Silent(t) PROVE Silent(d) /\ ~Heralds(n)
    <2>1. Len(d) + 1 \in 1 .. Len(t) /\ \A i \in 1 .. Len(d) : i \in 1 .. Len(t)
      BY <1>1
    <2> QED
      BY <1>1, <1>4, <2>1 DEF Silent
  <1> QED
    BY <1>2, <1>3, <1>4 DEF t

LEMMA ClosingRead ==
    ASSUME NEW u \in Seq(Commands), u # <<>>, NEW s, Closing(u, s), ~Ends(Head(u), s)
    PROVE  Closing(Tail(u), s)
  <1> DEFINE t == Tail(u)
  <1>1. /\ Len(u) \in Nat /\ Len(t) = Len(u) - 1 /\ Head(u) = u[1]
        /\ \A i \in 1 .. Len(u) - 1 : t[i] = u[i + 1]
    BY QueueRead
  <1> HIDE DEF t
  <1>2. PICK i \in 1 .. Len(u) : Ends(u[i], s)
    BY DEF Closing
  <1>3. i - 1 \in 1 .. Len(t) /\ t[i - 1] = u[i]
    <2>1. i # 1
      BY <1>1, <1>2
    <2>2. i - 1 \in 1 .. Len(u) - 1 /\ (i - 1) + 1 = i
      BY <1>1, <2>1
    <2> QED
      BY <1>1, <2>2
  <1>4. Closing(t, s)
    BY <1>2, <1>3 DEF Closing
  <1> QED
    BY <1>4 DEF t

LEMMA ClosingSent ==
    ASSUME NEW u \in Seq(Commands), NEW c \in Commands, NEW s, Closing(u, s) \/ Ends(c, s)
    PROVE  Closing(Append(u, c), s)
  <1> DEFINE t == Append(u, c)
  <1>1. /\ Len(u) \in Nat /\ Len(t) = Len(u) + 1 /\ t[Len(u) + 1] = c
        /\ \A i \in 1 .. Len(u) : t[i] = u[i]
    BY QueueWritten
  <1> HIDE DEF t
  <1>2. Len(u) + 1 \in 1 .. Len(t) /\ \A i \in 1 .. Len(u) : i \in 1 .. Len(t)
    BY <1>1
  <1>3. Closing(t, s)
    BY <1>1, <1>2 DEF Closing
  <1> QED
    BY <1>3 DEF t

LEMMA CloseEnds ==
    ASSUME IInv, state = "streaming"
    PROVE  MicCloseCmd \in Commands /\ Ends(MicCloseCmd, streamId)
  <1>1. MicCloseCmd \in Commands
    BY CommandsTyped DEF IInv
  <1>2. streamId # None
    BY DEF IInv, StreamScoped
  <1> QED
    BY <1>1, <1>2 DEF Ends, MicCloseCmd, CloseId

\* The commands under way never become fewer by what the host does.
LEMMA ClosingKept ==
    ASSUME TypeOK', Links, NEW lost \in BOOLEAN, Sends(lost), NEW s, Closing(up, s)
    PROVE  Closing(up', s)
  <1>1. up \in Seq(Commands)
    BY DEF Links
  <1>2. CASE WroteNothing
    BY <1>2, SendsTyped
  <1>3. ASSUME NEW c \in Commands, Wrote(c) PROVE Closing(up', s)
    <2>1. up' = Append(up, c)
      BY <1>3, SendsTyped
    <2> QED
      BY <1>1, <2>1, ClosingSent
  <1>4. WroteNothing \/ \E c \in Commands : Wrote(c)
    BY DEF TypeOK, Wrote, WroteNothing
  <1> QED
    BY <1>2, <1>3, <1>4

\* A step of the session that reads no AUDIO_START and no AUDIO_STOP.
LEMMA HiddenKept ==
    ASSUME IInv, TypeOK', Links, Hidden, Running, remote' = remote,
           NEW lost \in BOOLEAN, Sends(lost),
           down' = down \/ (down # <<>> /\ down' = Tail(down) /\ ~Heralds(Head(down))),
           \/ UNCHANGED <<state, streamId>>
           \/ state # "streaming" /\ state' # "streaming"
           \/ state' = "connected" /\ (Wrote(MicCloseCmd) \/ lost)
    PROVE  Hidden'
  <1>1. down \in Seq(Notes) /\ up \in Seq(Commands)
    BY DEF Links
  <1>2. closeLost' => state' # "streaming"
    BY DEF Sends
  <1>3. ASSUME remote.phase = "on"
        PROVE  SaysLast(down', remote.sid) /\ (Silent(down') => Silent(down))
    <2>1. SaysLast(down, remote.sid)
      BY <1>3 DEF Hidden, Heralded
    <2> QED
      BY <1>1, <2>1, LastRead
  <1>4. ASSUME ~closeLost', remote.phase = "on", Silent(down')
        PROVE  (state' = "streaming" /\ streamId' = remote.sid) \/ Closing(up', remote.sid)
    <2>1. CASE lost /\ state' = "connected"
      BY <1>4, <2>1 DEF Sends
    <2>2. CASE ~(lost /\ state' = "connected")
      <3>1. ~closeLost
        <4>1. closeLost => state # "streaming"
          BY DEF Hidden
        <4> QED
          BY <1>4, <4>1 DEF Sends
      <3>2. (state = "streaming" /\ streamId = remote.sid) \/ Closing(up, remote.sid)
        BY <1>3, <1>4, <3>1 DEF Hidden, Known
      <3>3. CASE Closing(up, remote.sid)
        BY <3>3, ClosingKept
      <3>4. CASE state = "streaming" /\ streamId = remote.sid /\ Wrote(MicCloseCmd)
        <4>1. MicCloseCmd \in Commands /\ Ends(MicCloseCmd, remote.sid)
          BY <3>4, CloseEnds
        <4>2. up' = Append(up, MicCloseCmd)
          BY <3>4, <4>1, SendsTyped
        <4> QED
          BY <1>1, <4>1, <4>2, ClosingSent
      <3> QED
        BY <2>2, <3>2, <3>3, <3>4
    <2> QED
      BY <2>1, <2>2
  <1> QED
    BY <1>2, <1>3, <1>4 DEF Hidden, Heralded, Known

LEMMA HiddenHostCtl ==
    ASSUME IInv, LinkTypeOK, LinkTypeOK', Hidden, HostCtl
    PROVE  Hidden'
  <1> DEFINE n == Head(down)
  <1>0. TypeOK' /\ Links /\ TypeOK /\ Sends(FALSE) /\ FALSE \in BOOLEAN /\ remote' = remote
    BY LinkTypes, LinkTypes DEF HostCtl, LinkTypeOK
  <1>1. /\ down \in Seq(Notes) /\ down # <<>> /\ down' = Tail(down)
        /\ n \in Notes
    BY <1>0, QueueRead DEF HostCtl, Links
  <1>2. /\ Running
        /\ \/ n.ev = "AUDIO_STOP" /\ AudioStop(n.arg)
           \/ n.ev = "AUDIO_START" /\ AudioStart(n.arg)
           \/ n.ev = "START_SEARCH" /\ StartSearch
           \/ n.ev = "MIC_OPEN_ERROR" /\ MicOpenError
           \/ n.ev = "MIC_OPEN_ERROR" /\ OtherCtl
    BY DEF HostCtl, AudioStop, AudioStart, StartSearch, MicOpenError, OtherCtl, Notified,
           Matched, Polling, Running
  <1> HIDE DEF n
  <1>3. CASE Heralds(n)
    <2>1. ASSUME remote.phase = "on"
          PROVE  /\ SaysLast(down', remote.sid)
                 /\ Silent(down') => n = Start(remote.sid)
      <3>1. SaysLast(down, remote.sid)
        BY <2>1 DEF Hidden, Heralded
      <3> QED
        BY <1>1, <1>3, <3>1, LastRead DEF n
    <2>2. ASSUME remote.phase = "on", Silent(down')
          PROVE  state' = "streaming" /\ streamId' = remote.sid
      <3>1. n = Start(remote.sid)
        BY <2>1, <2>2
      <3>2. n.ev = "AUDIO_START" /\ n.arg = remote.sid
        BY <3>1 DEF Start
      <3> QED
        BY <1>2, <3>2 DEF AudioStart
    <2>3. closeLost' => state' # "streaming"
      BY <1>0 DEF Sends
    <2> QED
      BY <1>0, <2>1, <2>2, <2>3 DEF Hidden, Heralded, Known
  <1>4. CASE ~Heralds(n)
    <2>1. \/ n.ev = "START_SEARCH" /\ StartSearch
          \/ n.ev = "MIC_OPEN_ERROR" /\ MicOpenError
          \/ n.ev = "MIC_OPEN_ERROR" /\ OtherCtl
      BY <1>2, <1>4 DEF Heralds
    <2>2. down # <<>> /\ down' = Tail(down) /\ ~Heralds(Head(down))
      BY <1>1, <1>4 DEF n
    <2>3. ASSUME \/ UNCHANGED <<state, streamId>>
                 \/ state # "streaming" /\ state' # "streaming"
                 \/ state' = "connected" /\ Wrote(MicCloseCmd)
          PROVE  Hidden'
      BY <1>0, <1>2, <2>2, <2>3, HiddenKept
    <2>4. CASE StartSearch
      <3>1. CASE MicActive /\ CloseMic
        BY <2>3, <3>1 DEF CloseMic, CloseMicReset
      <3>2. CASE ~MicActive /\ OpenMic
        BY <2>3, <3>2 DEF MicActive, OpenMic
      <3>3. CASE WriteFails
        BY <2>3, <3>3 DEF WriteFails
      <3> QED
        BY <2>4, <3>1, <3>2, <3>3 DEF StartSearch
    <2>5. CASE MicOpenError
      BY <2>3, <2>5 DEF MicOpenError
    <2>6. CASE OtherCtl
      BY <2>3, <2>6 DEF OtherCtl, Ignore
    <2> QED
      BY <2>1, <2>4, <2>5, <2>6
  <1> QED
    BY <1>3, <1>4

LEMMA HiddenHost ==
    ASSUME IInv, LinkTypeOK, LinkTypeOK', Hidden, Host \/ HostRest \/ HostDisconnected
    PROVE  Hidden'
  <1>0. TypeOK' /\ Links /\ TypeOK /\ FALSE \in BOOLEAN
    BY LinkTypes DEF LinkTypeOK
  <1>1. CASE HostCtl
    BY <1>1, HiddenHostCtl
  <1>2. ASSUME Running, remote' = remote, down' = down, NEW lost \in BOOLEAN, Sends(lost),
               \/ UNCHANGED <<state, streamId>>
               \/ state # "streaming" /\ state' # "streaming"
               \/ state' = "connected" /\ (Wrote(MicCloseCmd) \/ lost)
        PROVE  Hidden'
    BY <1>0, <1>2, HiddenKept
  <1>3. CASE HostRx
    <2>1. Running /\ UNCHANGED <<state, streamId>> /\ Sends(FALSE) /\ UNCHANGED <<remote, down>>
      BY <1>3 DEF HostRx, Frame, DroppedFrame, Ignore, Matched, Polling, Running
    <2> QED
      BY <1>0, <1>2, <2>1
  <1>4. CASE HostCommand
    <2>1. Sends(FALSE) /\ UNCHANGED <<remote, down>> /\ External(Head(calls))
      BY <1>4 DEF HostCommand
    <2>2. Running
      BY <2>1 DEF External, Matched, Polling, Running
    <2>3. (OpenMic /\ state = "connected") \/ WriteFails \/ CloseMic \/ Ignore
      BY <2>1 DEF External
    <2>4. \/ UNCHANGED <<state, streamId>>
          \/ state # "streaming" /\ state' # "streaming"
          \/ state' = "connected" /\ Wrote(MicCloseCmd)
      BY <2>3 DEF OpenMic, WriteFails, CloseMic, CloseMicReset, Ignore
    <2> QED
      BY <1>0, <1>2, <2>1, <2>2, <2>4
  <1>5. CASE HostConsumers
    <2> DEFINE lost == state' # state /\ written' = <<>>
    <2>1. /\ Sends(lost) /\ lost \in BOOLEAN /\ UNCHANGED <<remote, down>>
          /\ ConsumersChanged(Head(events))
      BY <1>5 DEF HostConsumers
    <2>2. Running
      BY <2>1 DEF ConsumersChanged, Matched, Polling, Running
    <2>3. \/ (OpenMic /\ state = "connected") \/ WriteFails \/ Ignore
          \/ MicActive /\ CloseMicBestEffort
      BY <2>1 DEF ConsumersChanged
    <2>4. \/ UNCHANGED <<state, streamId>>
          \/ state # "streaming" /\ state' # "streaming"
          \/ state' = "connected" /\ (Wrote(MicCloseCmd) \/ lost)
      BY <2>3 DEF OpenMic, WriteFails, CloseMicBestEffort, CloseMicReset, Ignore, MicActive,
                  WroteNothing
    <2> QED
      BY <1>2, <2>1, <2>2, <2>4
  <1>6. CASE HostTimer
    <2> DEFINE lost == written' = <<>>
    <2>1. /\ Sends(lost) /\ lost \in BOOLEAN /\ UNCHANGED <<remote, down>>
          /\ FrameTimer \/ KeepaliveTimer
      BY <1>6 DEF HostTimer
    <2>2. Running
      BY <2>1 DEF FrameTimer, KeepaliveTimer, Matched, Polling, Running
    <2>3. \/ UNCHANGED <<state, streamId>>
          \/ state' = "connected" /\ (Wrote(MicCloseCmd) \/ lost)
      BY <2>1 DEF FrameTimer, KeepaliveTimer, CloseMicBestEffort, CloseMicReset, WroteNothing
    <2> QED
      BY <1>2, <2>1, <2>2, <2>3
  <1>7. CASE HostRest
    BY <1>7 DEF HostRest, Tick, DecoderRecv, envVars, Hidden, Heralded, Known, Running
  <1>8. CASE HostDisconnected
    <2>1. UNCHANGED <<remote, up, down, state, streamId, closeLost>> /\ result' = "ok"
      BY <1>8 DEF HostDisconnected, Disconnected
    <2> QED
      BY <2>1 DEF Hidden, Heralded, Known, Running
  <1> QED
    BY <1>1, <1>3, <1>4, <1>5, <1>6, <1>7, <1>8 DEF Host

\* The remote answers nothing that starts or stops a stream.
LEMMA HiddenAside ==
    ASSUME Links, Hidden, UNCHANGED <<sessionVars, closeLost>>,
           remote'.phase = "on" => remote' = remote,
           remote'.phase = "on" => \A s : Closing(up, s) /\ s = remote.sid => Closing(up', s),
           down' = down \/ \E n \in Notes : ~Heralds(n) /\ down' = Append(down, n)
    PROVE  Hidden'
  <1>1. down \in Seq(Notes)
    BY DEF Links
  <1>2. /\ state' = state /\ streamId' = streamId /\ result' = result /\ closeLost' = closeLost
    BY DEF sessionVars
  <1>3. ASSUME remote'.phase = "on"
        PROVE  SaysLast(down', remote'.sid) /\ (Silent(down') => Silent(down))
    <2>1. SaysLast(down, remote.sid)
      BY <1>3 DEF Hidden, Heralded
    <2> QED
      BY <1>1, <1>3, <2>1, LastSent
  <1>4. ASSUME Running', ~closeLost', remote'.phase = "on", Silent(down')
        PROVE  (state' = "streaming" /\ streamId' = remote'.sid) \/ Closing(up', remote'.sid)
    <2>1. (state = "streaming" /\ streamId = remote.sid) \/ Closing(up, remote.sid)
      BY <1>2, <1>3, <1>4 DEF Hidden, Known, Running
    <2> QED
      BY <1>2, <1>4, <2>1
  <1>5. closeLost' => state' # "streaming"
    BY <1>2 DEF Hidden
  <1> QED
    BY <1>3, <1>4, <1>5 DEF Hidden, Heralded, Known

\* The remote starts a stream, and says so.
LEMMA HiddenStarts ==
    ASSUME Links, Hidden, UNCHANGED <<sessionVars, closeLost>>, NEW s \in StreamIds,
           remote' = On(s), NEW d \in Seq(Notes), down' = Append(d, Start(s))
    PROVE  Hidden'
  <1>1. Start(s) \in Notes /\ Heralds(Start(s)) /\ On(s).phase = "on" /\ On(s).sid = s
    BY AreNotes DEF Heralds, Start, On
  <1>2. SaysLast(down', s) /\ ~Silent(down')
    BY <1>1, LastSent
  <1>3. closeLost' => state' # "streaming"
    BY DEF Hidden, sessionVars
  <1> QED
    BY <1>1, <1>2, <1>3 DEF Hidden, Heralded, Known

\* The remote stops streaming.
LEMMA HiddenStops ==
    ASSUME Hidden, UNCHANGED <<sessionVars, closeLost>>, remote'.phase # "on"
    PROVE  Hidden'
  BY DEF Hidden, Heralded, Known, sessionVars

LEMMA HiddenReceives == ASSUME Links, Hidden, RemoteReceives PROVE Hidden'
  <1> DEFINE c == Head(up)
  <1>1. /\ down \in Seq(Notes) /\ up \in Seq(Commands) /\ up # <<>> /\ up' = Tail(up)
        /\ UNCHANGED <<sessionVars, closeLost>> /\ remote \in Remotes
    BY DEF RemoteReceives, RemoteStep, Links
  <1>2. \/ c.op = "MIC_OPEN" /\ RemoteOpen
        \/ c.op = "MIC_CLOSE" /\ RemoteClose(c.sid)
        \/ c.op # "MIC_CLOSE" /\ UNCHANGED <<remote, down, faults>>
    BY DEF RemoteReceives
  <1>3. ASSUME NEW s, Closing(up, s), ~Ends(c, s) PROVE Closing(up', s)
    BY <1>1, <1>3, ClosingRead
  <1> HIDE DEF c
  <1>4. MicOpenId \in StreamIds /\ OpenError \in Notes /\ ~Heralds(OpenError)
    BY ConstantsFacts, AreNotes DEF Heralds, OpenError
  <1>5. CASE c.op = "MIC_OPEN" /\ RemoteOpen
    <2>1. \A s : ~Ends(c, s)
      BY <1>5 DEF Ends
    <2>2. CASE remote' = On(MicOpenId) /\ Answers(<<Start(MicOpenId)>>)
      <3>1. down' = Append(down, Start(MicOpenId))
        BY <1>4, <2>2, AreNotes, AnswersTyped
      <3> QED
        BY <1>1, <1>4, <2>2, <3>1, HiddenStarts
    <2>3. CASE remote' = remote /\ Answers(<<OpenError>>)
      <3>1. down' = Append(down, OpenError)
        BY <1>4, <2>3, AnswersTyped
      <3> QED
        BY <1>1, <1>3, <1>4, <2>1, <2>3, <3>1, HiddenAside
    <2> QED
      BY <1>5, <2>2, <2>3 DEF RemoteOpen
  <1>6. CASE c.op = "MIC_CLOSE" /\ RemoteClose(c.sid)
    <2>1. CASE remote' = Idle
      BY <1>1, <2>1, RemotesAre, HiddenStops
    <2>2. CASE /\ remote.phase # "on" \/ c.sid \notin {None, remote.sid}
               /\ UNCHANGED <<remote, down>>
      <3>1. CASE remote.phase # "on"
        BY <1>1, <2>2, <3>1, HiddenStops
      <3>2. CASE c.sid \notin {None, remote.sid}
        <4>1. ~Ends(c, remote.sid)
          BY <3>2 DEF Ends
        <4> QED
          BY <1>1, <1>3, <2>2, <4>1, HiddenAside
      <3> QED
        BY <2>2, <3>1, <3>2
    <2> QED
      BY <1>6, <2>1, <2>2 DEF RemoteClose
  <1>7. CASE c.op # "MIC_CLOSE" /\ UNCHANGED <<remote, down, faults>>
    <2>1. \A s : ~Ends(c, s)
      BY <1>7 DEF Ends
    <2> QED
      BY <1>1, <1>3, <1>7, <2>1, HiddenAside
  <1> QED
    BY <1>2, <1>5, <1>6, <1>7

LEMMA HiddenRemote == ASSUME Links, Hidden, RemoteActs PROVE Hidden'
  <1>0. down \in Seq(Notes) /\ remote \in Remotes
    BY DEF Links
  <1>1. CASE RemoteReceives
    BY <1>1, HiddenReceives
  <1>2. CASE RemoteSendsFrame
    BY <1>2, HiddenAside DEF RemoteSendsFrame, RemoteStep
  <1>3. CASE Press
    <2>1. UNCHANGED <<sessionVars, closeLost, up>>
      BY <1>3 DEF Press, RemoteStep
    <2>2. CASE /\ Answers(<<Search>>)
               /\ remote' = IF remote = Asleep THEN Idle ELSE remote
      <3>1. down' = Append(down, Search) /\ Search \in Notes /\ ~Heralds(Search)
        BY <2>2, AnswersTyped, AreNotes DEF Heralds, Search
      <3>2. remote'.phase = "on" => remote' = remote
        BY <2>2, RemotesAre
      <3> QED
        BY <2>1, <3>1, <3>2, HiddenAside
    <2>3. ASSUME NEW s \in StreamIds, remote' = On(s),
                 Answers(<<Stop("UpcomingAudioStart"), Start(s)>>) \/ Answers(<<Start(s)>>)
          PROVE  Hidden'
      <3> DEFINE x == Stop("UpcomingAudioStart")
                 y == Start(s)
      <3>1. x \in Notes /\ y \in Notes
        BY AreNotes DEF StopReasons
      <3>2. down' = down \o <<x, y>> \/ down' = down \o <<y>>
        BY <2>3 DEF Answers
      <3> HIDE DEF x, y
      <3>3. down' = Append(Append(down, x), y) \/ down' = Append(down, y)
        BY <1>0, <3>1, <3>2, QueueWritten, QueueWrittenTwice
      <3>4. Append(down, x) \in Seq(Notes)
        BY <1>0, <3>1, QueueWritten
      <3>5. ASSUME NEW d \in Seq(Notes), down' = Append(d, y) PROVE Hidden'
        BY <2>1, <2>3, <3>5, HiddenStarts DEF y
      <3> QED
        BY <1>0, <3>3, <3>4, <3>5
    <2> QED
      BY <1>3, <2>2, <2>3 DEF Press
  <1>4. CASE Release
    BY <1>4, RemotesAre, HiddenStops DEF Release, RemoteStep
  <1>5. CASE RemoteGivesUp
    BY <1>5, RemotesAre, HiddenStops DEF RemoteGivesUp, RemoteStep
  <1> QED
    BY <1>1, <1>2, <1>3, <1>4, <1>5 DEF RemoteActs

LEMMA HiddenStep ==
    ASSUME IInv, LinkTypeOK, LinkTypeOK', Hidden, [LinkNext]_linkVars PROVE Hidden'
  <1>0. Links
    BY LinkTypes
  <1>1. CASE UserStep
    <2>1. UNCHANGED <<remote, up, down, closeLost, sessionVars>>
      BY <1>1 DEF UserStep, Call, ClientsChange, Requests
    <2> QED
      BY <2>1 DEF Hidden, Heralded, Known, Running, sessionVars
  <1>2. CASE UNCHANGED linkVars
    BY <1>2 DEF linkVars, sessionVars, Hidden, Heralded, Known, Running
  <1> QED
    BY <1>0, <1>1, <1>2, LinkSteps, HiddenHost, HiddenRemote

\* No open microphone behind the host's back, for any number of callers,
\* presses, refusals, failed writes and time-outs: a stream that the session
\* does not show, or shows under another id, is announced by an AUDIO_START on
\* its way or ended by a MIC_CLOSE on its way.
THEOREM NoHiddenStreamCorrect == LinkSpec => []NoHiddenStream
  <1>1. LinkInit => Hidden
    <2> SUFFICES ASSUME LinkInit PROVE Hidden
      OBVIOUS
    <2>1. remote.phase # "on" /\ ~closeLost
      BY RemotesAre DEF LinkInit
    <2> QED
      BY <2>1 DEF Hidden, Heralded, Known
  <1>2. Hidden => NoHiddenStream
    <2> SUFFICES ASSUME Hidden, Running, up = <<>>, down = <<>>, ~closeLost, remote.phase = "on"
                 PROVE  state = "streaming" /\ streamId = remote.sid
      BY DEF NoHiddenStream
    <2>1. Silent(down) /\ ~Closing(up, remote.sid)
      BY DEF Silent, Closing
    <2> QED
      BY <2>1 DEF Hidden, Known
  <1>3. LinkSpec => []IInv
    BY LinkRefinesSession, InductiveInvariant, PTL
  <1> QED
    BY <1>1, <1>2, <1>3, HiddenStep, LinkTypeCorrect, PTL DEF LinkSpec

-----------------------------------------------------------------------------
(* On demand, the microphone follows the clients.  Nothing but the clients *)
(* has a say, and they wait until nothing is under way: then either they   *)
(* have come and the stream is being started and kept alive, or they have  *)
(* left and every start on its way has a stop behind it.                   *)

Calm == OnDemand /\ Running /\ ~asked /\ faults = MaxFaults

OnAir == On(MicOpenId)
Begun == Start(MicOpenId)
Closed == Stop("MicClose")
LastOf(q) == q[Len(q)]
Orders(u, op) == \E i \in 1 .. Len(u) : u[i].op = op
Tells(d, n) == \E i \in 1 .. Len(d) : d[i] = n

\* Commands that open or keep alive, and commands that name no other stream.
Opening == {c \in Commands : c.op # "MIC_CLOSE"}
Ordinary == {c \in Commands : c.op = "MIC_CLOSE" => c.sid \in {None, MicOpenId}}

WoundUp ==
    /\ state \in {"opening", "streaming"} /\ remote \in {Idle, OnAir}
    /\ up \in Seq(Opening) /\ down \in Seq({Begun})
    /\ state = "opening" => Orders(up, "MIC_OPEN") \/ down # <<>>
    /\ remote = Idle => state = "opening" /\ down = <<>> /\ Orders(up, "MIC_OPEN")

WoundDown ==
    /\ state \in {"connected", "streaming"} /\ remote \in {Idle, OnAir}
    /\ up \in Seq(Ordinary) /\ down \in Seq({Begun, Closed})
    /\ state = "connected" => IF up = <<>> THEN remote = Idle ELSE LastOf(up).op = "MIC_CLOSE"
    /\ state = "streaming" => Orders(up, "MIC_CLOSE") \/ Tells(down, Closed)
    /\ down # <<>> => (remote = OnAir <=> LastOf(down) = Begun)
    /\ down = <<>> /\ state = "streaming" => remote = OnAir

Rested == state = "connected" /\ remote = Idle /\ up = <<>> /\ down = <<>>

Wound ==
    \/ clients = 1 /\ events = <<>> /\ WoundUp
    \/ clients = 0 /\ events = <<0>> /\ WoundUp /\ state = "streaming" /\ remote = OnAir
    \/ clients = 1 /\ events = <<1>> /\ Rested
    \/ clients = 0 /\ events = <<>> /\ WoundDown
Follows == Calm => calls = <<>> /\ streamId \in {None, MicOpenId} /\ Wound

LEMMA NamesDiffer ==
    /\ Begun # Closed /\ Begun.ev = "AUDIO_START" /\ Begun.arg = MicOpenId
    /\ Closed.ev = "AUDIO_STOP" /\ Closed.arg = "MicClose"
    /\ OnAir # Idle /\ OnAir # Asleep /\ OnAir.phase = "on" /\ OnAir.sid = MicOpenId
    /\ Idle # Asleep /\ Idle.phase # "on" /\ MicOpenId \in StreamIds
  <1>1. MicOpenId \in StreamIds
    BY ConstantsFacts
  <1>2. /\ Begun # Closed /\ Begun.ev = "AUDIO_START" /\ Begun.arg = MicOpenId
        /\ Closed.ev = "AUDIO_STOP" /\ Closed.arg = "MicClose"
    BY DEF Begun, Closed, Start, Stop
  <1> QED
    BY <1>1, <1>2, RemotesAre DEF OnAir

LEMMA OrdersRead ==
    ASSUME NEW S, NEW u \in Seq(S), u # <<>>, NEW op, Orders(u, op), Head(u).op # op
    PROVE  Orders(Tail(u), op)
  <1> DEFINE t == Tail(u)
  <1>1. /\ Len(u) \in Nat /\ Len(t) = Len(u) - 1 /\ Head(u) = u[1]
        /\ \A i \in 1 .. Len(u) - 1 : t[i] = u[i + 1]
    BY QueueRead
  <1> HIDE DEF t
  <1>2. PICK i \in 1 .. Len(u) : u[i].op = op
    BY DEF Orders
  <1>3. i # 1
    BY <1>1, <1>2
  <1>4. i - 1 \in 1 .. Len(u) - 1 /\ (i - 1) + 1 = i
    BY <1>1, <1>3
  <1>5. i - 1 \in 1 .. Len(t) /\ t[i - 1] = u[i]
    BY <1>1, <1>4
  <1>6. Orders(t, op)
    BY <1>2, <1>5 DEF Orders
  <1> QED
    BY <1>6 DEF t

LEMMA OrdersSent ==
    ASSUME NEW S, NEW u \in Seq(S), NEW c \in S, NEW op, Orders(u, op) \/ c.op = op
    PROVE  Orders(Append(u, c), op)
  <1> DEFINE t == Append(u, c)
  <1>1. /\ Len(u) \in Nat /\ Len(t) = Len(u) + 1 /\ t[Len(u) + 1] = c
        /\ \A i \in 1 .. Len(u) : t[i] = u[i]
    BY QueueWritten
  <1> HIDE DEF t
  <1>2. Len(u) + 1 \in 1 .. Len(t) /\ \A i \in 1 .. Len(u) : i \in 1 .. Len(t)
    BY <1>1
  <1>3. Orders(t, op)
    BY <1>1, <1>2 DEF Orders
  <1> QED
    BY <1>3 DEF t

LEMMA TellsRead ==
    ASSUME NEW S, NEW d \in Seq(S), d # <<>>, NEW n, Tells(d, n), Head(d) # n
    PROVE  Tells(Tail(d), n)
  <1> DEFINE t == Tail(d)
  <1>1. /\ Len(d) \in Nat /\ Len(t) = Len(d) - 1 /\ Head(d) = d[1]
        /\ \A i \in 1 .. Len(d) - 1 : t[i] = d[i + 1]
    BY QueueRead
  <1> HIDE DEF t
  <1>2. PICK i \in 1 .. Len(d) : d[i] = n
    BY DEF Tells
  <1>3. i # 1
    BY <1>1, <1>2
  <1>4. i - 1 \in 1 .. Len(d) - 1 /\ (i - 1) + 1 = i
    BY <1>1, <1>3
  <1>5. i - 1 \in 1 .. Len(t) /\ t[i - 1] = d[i]
    BY <1>1, <1>4
  <1>6. Tells(t, n)
    BY <1>2, <1>5 DEF Tells
  <1> QED
    BY <1>6 DEF t

LEMMA TellsSent ==
    ASSUME NEW S, NEW d \in Seq(S), NEW m \in S, NEW n, Tells(d, n) \/ m = n
    PROVE  Tells(Append(d, m), n)
  <1> DEFINE t == Append(d, m)
  <1>1. /\ Len(d) \in Nat /\ Len(t) = Len(d) + 1 /\ t[Len(d) + 1] = m
        /\ \A i \in 1 .. Len(d) : t[i] = d[i]
    BY QueueWritten
  <1> HIDE DEF t
  <1>2. Len(d) + 1 \in 1 .. Len(t) /\ \A i \in 1 .. Len(d) : i \in 1 .. Len(t)
    BY <1>1
  <1>3. Tells(t, n)
    BY <1>1, <1>2 DEF Tells
  <1> QED
    BY <1>3 DEF t

\* The end of a queue that is read, and of one that is written to.
LEMMA LastStays ==
    ASSUME NEW S, NEW q \in Seq(S), q # <<>>
    PROVE  /\ Tail(q) # <<>> => LastOf(Tail(q)) = LastOf(q)
           /\ Tail(q) = <<>> => LastOf(q) = Head(q)
           /\ LastOf(q) \in S
           /\ LastOf(q) # Head(q) => Tells(Tail(q), LastOf(q))
  <1> DEFINE t == Tail(q)
  <1>1. /\ Len(q) \in Nat /\ Len(q) > 0 /\ Len(t) = Len(q) - 1 /\ Head(q) = q[1]
        /\ \A i \in 1 .. Len(q) - 1 : t[i] = q[i + 1]
    BY QueueRead
  <1>2. t \in Seq(S)
    BY QueueRead
  <1>3. t # <<>> => Len(t) > 0
    BY <1>2
  <1>4. t = <<>> => Len(q) = 1
    <2>1. t = <<>> => Len(t) = Len(<<>>)
      OBVIOUS
    <2>2. Len(<<>>) = 0
      OBVIOUS
    <2> HIDE DEF t
    <2> QED
      BY <1>1, <2>1, <2>2
  <1> HIDE DEF t
  <1>5. ASSUME Len(q) # 1 PROVE t[Len(t)] = q[Len(q)] /\ Len(t) \in 1 .. Len(t)
    <2>1. Len(q) - 1 \in 1 .. Len(q) - 1 /\ (Len(q) - 1) + 1 = Len(q)
      BY <1>1, <1>5
    <2> QED
      BY <1>1, <2>1
  <1>6. t # <<>> => Len(q) # 1
    BY <1>1, <1>3
  <1>7. LastOf(q) \in S
    <2>1. Len(q) \in 1 .. Len(q)
      BY <1>1
    <2> QED
      BY <2>1 DEF LastOf
  <1>8. ASSUME LastOf(q) # Head(q) PROVE Tells(t, LastOf(q))
    <2>1. Len(q) # 1
      BY <1>1, <1>8 DEF LastOf
    <2> QED
      BY <1>5, <2>1 DEF Tells, LastOf
  <1> QED
    BY <1>1, <1>4, <1>5, <1>6, <1>7, <1>8 DEF t, LastOf

LEMMA LastIsNew ==
    ASSUME NEW S, NEW q \in Seq(S), NEW x \in S
    PROVE  Append(q, x) # <<>> /\ LastOf(Append(q, x)) = x
  <1> DEFINE t == Append(q, x)
  <1>1. Len(q) \in Nat /\ Len(t) = Len(q) + 1 /\ t[Len(q) + 1] = x /\ t \in Seq(S)
    BY QueueWritten
  <1> HIDE DEF t
  <1>2. t # <<>>
    BY <1>1
  <1>3. LastOf(t) = x
    BY <1>1 DEF LastOf
  <1> QED
    BY <1>2, <1>3 DEF t

-----------------------------------------------------------------------------
(* What the host does while the clients alone have a say.                  *)

LEMMA CalmHost ==
    ASSUME LinkTypeOK, LinkTypeOK', Host, Calm', Calm => calls = <<>>
    PROVE  /\ Calm /\ UNCHANGED <<remote, clients, calls>>
           /\ \/ UNCHANGED <<state, streamId, up, down, events>>
              \/ /\ UNCHANGED <<state, streamId, down, events>>
                 /\ state = "streaming" /\ up' = Append(up, KeepaliveCmd)
              \/ HostCtl
              \/ HostConsumers
  <1>0. /\ TypeOK' /\ TypeOK /\ Links /\ FALSE \in BOOLEAN
        /\ result' = "running" /\ faults' = MaxFaults /\ ~asked'
        /\ faults \in 0 .. MaxFaults /\ asked \in BOOLEAN /\ OnDemand
    BY LinkTypes DEF LinkTypeOK, Calm, Running, Links
  <1>1. ASSUME NEW lost \in BOOLEAN, Sends(lost) PROVE faults = MaxFaults /\ ~lost
    <2>1. faults' <= faults /\ (lost => faults' # faults)
      BY <1>0, <1>1, SendsTyped
    <2> QED
      BY <1>0, <2>1, Bounds
  <1>2. CASE HostCtl
    <2>1. Sends(FALSE) /\ UNCHANGED <<remote, calls, clients, asked>>
      BY <1>2 DEF HostCtl
    <2>2. result = "running"
      BY <1>2 DEF HostCtl, AudioStop, AudioStart, StartSearch, MicOpenError, OtherCtl,
                  Notified, Matched, Polling
    <2> QED
      BY <1>0, <1>1, <1>2, <2>1, <2>2 DEF Calm, Running
  <1>3. CASE HostRx
    <2>1. /\ Sends(FALSE) /\ UNCHANGED <<remote, down, calls, clients, events, asked>>
          /\ UNCHANGED <<state, streamId>> /\ WroteNothing /\ result = "running"
      BY <1>3 DEF HostRx, Frame, DroppedFrame, Ignore, Matched, Polling
    <2>2. up' = up
      BY <1>0, <2>1, SendsTyped
    <2> QED
      BY <1>0, <1>1, <2>1, <2>2 DEF Calm, Running
  <1>4. CASE HostCommand
    <2>1. Sends(FALSE) /\ asked' = asked /\ calls # <<>> /\ result = "running"
      BY <1>4 DEF HostCommand, External, Matched, Polling
    <2>2. Calm
      BY <1>0, <1>1, <2>1 DEF Calm, Running
    <2> QED
      BY <2>1, <2>2
  <1>5. CASE HostConsumers
    <2> DEFINE lost == state' # state /\ written' = <<>>
    <2>1. Sends(lost) /\ lost \in BOOLEAN /\ UNCHANGED <<remote, calls, clients, asked>>
      BY <1>5 DEF HostConsumers
    <2>2. result = "running"
      BY <1>5 DEF HostConsumers, ConsumersChanged, Matched, Polling
    <2> QED
      BY <1>0, <1>1, <1>5, <2>1, <2>2 DEF Calm, Running
  <1>6. CASE HostTimer
    <2> DEFINE lost == written' = <<>>
    <2>1. /\ Sends(lost) /\ lost \in BOOLEAN
          /\ UNCHANGED <<remote, down, calls, clients, events>>
          /\ asked' = (asked \/ state' # state)
          /\ FrameTimer \/ KeepaliveTimer
      BY <1>6 DEF HostTimer
    <2>2. ~asked /\ state' = state
      BY <1>0, <2>1, Zenon
    <2>3. written' # <<>>
      BY <1>1, <2>1
    <2>4. KeepaliveTimer
      BY <2>1, <2>2 DEF FrameTimer, CloseMicBestEffort, CloseMicReset, MicActive
    <2>5. /\ UNCHANGED <<state, streamId>> /\ state = "streaming" /\ Wrote(KeepaliveCmd)
          /\ result = "running"
      BY <2>3, <2>4 DEF KeepaliveTimer, WroteNothing, Matched, Polling
    <2>6. up' = Append(up, KeepaliveCmd)
      BY <1>0, <2>1, <2>5, SendsTyped, CommandsTyped
    <2> QED
      BY <1>0, <1>1, <2>1, <2>2, <2>5, <2>6 DEF Calm, Running
  <1> QED
    BY <1>2, <1>3, <1>4, <1>5, <1>6 DEF Host

LEMMA CalmCtl ==
    ASSUME LinkTypeOK, LinkTypeOK', HostCtl, result' = "running"
    PROVE  /\ down # <<>> /\ down' = Tail(down) /\ events' = events
           /\ Head(down) = Begun =>
                state' = "streaming" /\ streamId' = MicOpenId /\ up' = up
           /\ Head(down) = Closed =>
                /\ state' = "connected" /\ streamId' = None
                /\ up' = IF state = "streaming" THEN Append(up, MicCloseCmd) ELSE up
  <1> DEFINE n == Head(down)
  <1>0. /\ TypeOK' /\ TypeOK /\ Links /\ FALSE \in BOOLEAN /\ Sends(FALSE)
        /\ MicCloseCmd \in Commands
    BY LinkTypes, CommandsTyped DEF LinkTypeOK, HostCtl
  <1>1. /\ down # <<>> /\ down' = Tail(down) /\ events' = events
        /\ \/ n.ev = "AUDIO_STOP" /\ AudioStop(n.arg)
           \/ n.ev = "AUDIO_START" /\ AudioStart(n.arg)
           \/ n.ev \in {"START_SEARCH", "MIC_OPEN_ERROR"}
    BY DEF HostCtl
  <1> HIDE DEF n
  <1>2. ASSUME n = Begun
        PROVE  state' = "streaming" /\ streamId' = MicOpenId /\ up' = up
    <2>1. AudioStart(MicOpenId)
      BY <1>1, <1>2, NamesDiffer
    <2>2. up' = up
      BY <1>0, <2>1, SendsTyped DEF AudioStart
    <2> QED
      BY <2>1, <2>2 DEF AudioStart
  <1>3. ASSUME n = Closed
        PROVE  /\ state' = "connected" /\ streamId' = None
               /\ up' = IF state = "streaming" THEN Append(up, MicCloseCmd) ELSE up
    <2>1. AudioStop("MicClose")
      BY <1>1, <1>3, NamesDiffer
    <2>2. CASE state = "streaming"
      <3>1. Wrote(MicCloseCmd) /\ CloseMicReset
        BY <2>1, <2>2 DEF AudioStop, CloseMic, WriteFails
      <3> QED
        BY <1>0, <2>2, <3>1, SendsTyped DEF CloseMicReset
    <2>3. CASE state # "streaming"
      <3>1. WroteNothing /\ CloseMicReset
        BY <2>1, <2>3 DEF AudioStop
      <3> QED
        BY <1>0, <2>3, <3>1, SendsTyped DEF CloseMicReset
    <2> QED
      BY <2>2, <2>3
  <1> QED
    BY <1>1, <1>2, <1>3 DEF n

LEMMA CalmCount ==
    ASSUME LinkTypeOK, LinkTypeOK', HostConsumers, Calm'
    PROVE  /\ events # <<>> /\ events' = Tail(events) /\ down' = down
           /\ Head(events) = 1 /\ state = "connected" =>
                state' = "opening" /\ streamId' = streamId /\ up' = Append(up, MicOpenCmd)
           /\ Head(events) = 0 /\ state = "streaming" =>
                state' = "connected" /\ streamId' = None /\ up' = Append(up, MicCloseCmd)
  <1> DEFINE lost == state' # state /\ written' = <<>>
  <1>0. /\ TypeOK' /\ TypeOK /\ Links /\ lost \in BOOLEAN /\ Sends(lost)
        /\ MicCloseCmd \in Commands /\ MicOpenCmd \in Commands
        /\ result' = "running" /\ faults' = MaxFaults /\ faults \in 0 .. MaxFaults /\ OnDemand
    BY LinkTypes, CommandsTyped DEF LinkTypeOK, HostConsumers, Calm, Running, Links
  <1>1. events # <<>> /\ events' = Tail(events) /\ down' = down
        /\ ConsumersChanged(Head(events))
    BY DEF HostConsumers
  <1>2. ~lost
    <2>1. faults' <= faults /\ (lost => faults' # faults)
      BY <1>0, SendsTyped
    <2> QED
      BY <1>0, <2>1, Bounds
  <1>3. ASSUME Head(events) = 1, state = "connected"
        PROVE  state' = "opening" /\ streamId' = streamId /\ up' = Append(up, MicOpenCmd)
    <2>1. OpenMic
      BY <1>0, <1>1, <1>3 DEF ConsumersChanged, WriteFails
    <2> QED
      BY <1>0, <2>1, SendsTyped DEF OpenMic
  <1>4. ASSUME Head(events) = 0, state = "streaming"
        PROVE  state' = "connected" /\ streamId' = None /\ up' = Append(up, MicCloseCmd)
    <2>1. CloseMicReset /\ (Wrote(MicCloseCmd) \/ WroteNothing)
      BY <1>0, <1>1, <1>4 DEF ConsumersChanged, MicActive, CloseMicBestEffort
    <2>2. Wrote(MicCloseCmd)
      BY <1>2, <1>4, <2>1 DEF CloseMicReset, WroteNothing
    <2> QED
      BY <1>0, <2>1, <2>2, SendsTyped DEF CloseMicReset
  <1> QED
    BY <1>1, <1>3, <1>4

\* The commands, as far as a wound-up or wound-down session sends them.
LEMMA CalmCommands ==
    ASSUME TypeOK, streamId \in {None, MicOpenId}
    PROVE  /\ KeepaliveCmd \in Opening /\ MicOpenCmd \in Opening /\ MicOpenCmd.op = "MIC_OPEN"
           /\ MicCloseCmd \in Ordinary /\ MicCloseCmd.op = "MIC_CLOSE"
           /\ Opening \subseteq Ordinary
  <1>1. /\ KeepaliveCmd.op # "MIC_CLOSE" /\ MicCloseCmd.op = "MIC_CLOSE"
        /\ MicOpenCmd.op = "MIC_OPEN" /\ MicCloseCmd.sid \in {None, MicOpenId}
    BY DEF KeepaliveCmd, MicOpenCmd, MicCloseCmd, CloseId
  <1> QED
    BY <1>1, CommandsTyped DEF Opening, Ordinary

\* While the stream is being started and kept alive.
LEMMA UpHost ==
    ASSUME LinkTypeOK, LinkTypeOK', WoundUp, UNCHANGED remote, result' = "running",
           streamId \in {None, MicOpenId},
           \/ UNCHANGED <<state, streamId, up, down, events>>
           \/ /\ UNCHANGED <<state, streamId, down, events>>
              /\ state = "streaming" /\ up' = Append(up, KeepaliveCmd)
           \/ HostCtl
    PROVE  /\ WoundUp' /\ streamId' \in {None, MicOpenId} /\ events' = events
           /\ state = "streaming" => state' = "streaming"
  <1>0. TypeOK /\ up \in Seq(Opening) /\ down \in Seq({Begun}) /\ remote \in {Idle, OnAir}
    BY LinkTypes DEF WoundUp
  <1>1. CASE UNCHANGED <<state, streamId, up, down, events>>
    BY <1>1 DEF WoundUp, Orders
  <1>2. CASE /\ UNCHANGED <<state, streamId, down, events>>
             /\ state = "streaming" /\ up' = Append(up, KeepaliveCmd)
    <2>1. up' \in Seq(Opening)
      BY <1>0, <1>2, CalmCommands, QueueWritten
    <2> QED
      BY <1>0, <1>2, <2>1 DEF WoundUp
  <1>3. CASE HostCtl
    <2>1. down # <<>> /\ down' = Tail(down) /\ events' = events
          /\ (Head(down) = Begun => state' = "streaming" /\ streamId' = MicOpenId /\ up' = up)
      BY <1>3, CalmCtl
    <2>2. Head(down) \in {Begun} /\ Tail(down) \in Seq({Begun})
      BY <1>0, <2>1, QueueRead
    <2>3. remote = OnAir
      BY <1>0, <2>1 DEF WoundUp
    <2> QED
      BY <1>0, <2>1, <2>2, <2>3, NamesDiffer DEF WoundUp
  <1> QED
    BY <1>1, <1>2, <1>3

\* While it is being ended.
LEMMA DownHost ==
    ASSUME LinkTypeOK, LinkTypeOK', WoundDown, UNCHANGED remote, result' = "running",
           streamId \in {None, MicOpenId},
           \/ UNCHANGED <<state, streamId, up, down, events>>
           \/ /\ UNCHANGED <<state, streamId, down, events>>
              /\ state = "streaming" /\ up' = Append(up, KeepaliveCmd)
           \/ HostCtl
    PROVE  WoundDown' /\ streamId' \in {None, MicOpenId} /\ events' = events
  <1>0. /\ TypeOK /\ up \in Seq(Ordinary) /\ down \in Seq({Begun, Closed})
        /\ remote \in {Idle, OnAir} /\ state \in {"connected", "streaming"}
    BY LinkTypes DEF WoundDown
  <1>1. CASE UNCHANGED <<state, streamId, up, down, events>>
    BY <1>1 DEF WoundDown, Orders, Tells, LastOf
  <1>2. CASE /\ UNCHANGED <<state, streamId, down, events>>
             /\ state = "streaming" /\ up' = Append(up, KeepaliveCmd)
    <2>1. KeepaliveCmd \in Ordinary
      BY <1>0, CalmCommands
    <2>2. up' \in Seq(Ordinary)
      BY <1>0, <1>2, <2>1, QueueWritten
    <2>3. Orders(up, "MIC_CLOSE") => Orders(up', "MIC_CLOSE")
      BY <1>0, <1>2, <2>1, OrdersSent
    <2>4. Tells(down, Closed) => Tells(down', Closed)
      BY <1>2 DEF Tells
    <2>5. LastOf(down') = LastOf(down)
      BY <1>2
    <2> QED
      BY <1>0, <1>2, <2>2, <2>3, <2>4, <2>5 DEF WoundDown
  <1>3. CASE HostCtl
    <2>1. /\ down # <<>> /\ down' = Tail(down) /\ events' = events
          /\ Head(down) = Begun =>
                state' = "streaming" /\ streamId' = MicOpenId /\ up' = up
          /\ Head(down) = Closed =>
                /\ state' = "connected" /\ streamId' = None
                /\ up' = IF state = "streaming" THEN Append(up, MicCloseCmd) ELSE up
      BY <1>3, CalmCtl
    <2>2. Head(down) \in {Begun, Closed} /\ down' \in Seq({Begun, Closed})
      BY <1>0, <2>1, QueueRead
    <2>3. /\ down' # <<>> => LastOf(down') = LastOf(down)
          /\ down' = <<>> => LastOf(down) = Head(down)
          /\ LastOf(down) \in {Begun, Closed}
          /\ LastOf(down) # Head(down) => Tells(down', LastOf(down))
      BY <1>0, <2>1, LastStays
    <2>4. remote = OnAir <=> LastOf(down) = Begun
      BY <2>1 DEF WoundDown
    <2>5. CASE Head(down) = Begun
      <3>1. state' = "streaming" /\ streamId' = MicOpenId /\ up' = up
        BY <2>1, <2>5
      <3>2. Orders(up, "MIC_CLOSE") \/ Tells(down', Closed)
        <4>1. CASE state = "streaming"
          <5>1. Tells(down, Closed) => Tells(down', Closed)
            BY <1>0, <2>1, <2>5, TellsRead, NamesDiffer
          <5> QED
            BY <4>1, <5>1 DEF WoundDown
        <4>2. CASE state = "connected" /\ up = <<>>
          <5>1. remote = Idle
            BY <4>2 DEF WoundDown
          <5>2. LastOf(down) = Closed
            BY <5>1, <2>3, <2>4, NamesDiffer
          <5> QED
            BY <5>2, <2>3, <2>5, NamesDiffer
        <4>3. CASE state = "connected" /\ up # <<>>
          <5>1. LastOf(up).op = "MIC_CLOSE"
            BY <4>3 DEF WoundDown
          <5>2. Len(up) \in 1 .. Len(up)
            BY <1>0, <4>3
          <5> QED
            BY <5>1, <5>2 DEF LastOf, Orders
        <4> QED
          BY <1>0, <4>1, <4>2, <4>3
      <3>3. Orders(up, "MIC_CLOSE") => Orders(up', "MIC_CLOSE")
        BY <3>1 DEF Orders
      <3>4. /\ down' # <<>> => (remote' = OnAir <=> LastOf(down') = Begun)
            /\ down' = <<>> => remote' = OnAir
        BY <2>3, <2>4, <2>5
      <3> QED
        BY <1>0, <2>1, <2>2, <3>1, <3>2, <3>3, <3>4 DEF WoundDown
    <2>6. CASE Head(down) = Closed
      <3>1. /\ state' = "connected" /\ streamId' = None
            /\ up' = IF state = "streaming" THEN Append(up, MicCloseCmd) ELSE up
        BY <2>1, <2>6
      <3>2. /\ up' \in Seq(Ordinary)
            /\ IF up' = <<>> THEN remote' = Idle ELSE LastOf(up').op = "MIC_CLOSE"
        <4>1. CASE state = "streaming"
          <5>1. MicCloseCmd \in Ordinary /\ MicCloseCmd.op = "MIC_CLOSE"
            BY <1>0, CalmCommands
          <5>2. up' = Append(up, MicCloseCmd)
            BY <3>1, <4>1
          <5>3. up' \in Seq(Ordinary)
            BY <1>0, <5>1, <5>2, QueueWritten
          <5>4. up' # <<>> /\ LastOf(up') = MicCloseCmd
            BY <1>0, <5>1, <5>2, LastIsNew
          <5> QED
            BY <5>1, <5>3, <5>4
        <4>2. CASE state = "connected"
          <5>1. up' = up
            BY <3>1, <4>2
          <5>2. IF up = <<>> THEN remote = Idle ELSE LastOf(up).op = "MIC_CLOSE"
            BY <4>2 DEF WoundDown
          <5>3. LastOf(up') = LastOf(up)
            BY <5>1
          <5> QED
            BY <1>0, <5>1, <5>2, <5>3
        <4> QED
          BY <1>0, <4>1, <4>2
      <3>3. down' # <<>> => (remote' = OnAir <=> LastOf(down') = Begun)
        BY <2>3, <2>4
      <3> QED
        BY <1>0, <2>1, <2>2, <3>1, <3>2, <3>3 DEF WoundDown
    <2> QED
      BY <2>2, <2>5, <2>6
  <1> QED
    BY <1>1, <1>2, <1>3

LEMMA FollowsHost ==
    ASSUME LinkTypeOK, LinkTypeOK', Follows, Host
    PROVE  Follows'
  <1> SUFFICES ASSUME Calm'
               PROVE  calls' = <<>> /\ streamId' \in {None, MicOpenId} /\ Wound'
    BY DEF Follows
  <1>0. Calm => calls = <<>>
    BY DEF Follows
  <1>1. /\ Calm /\ UNCHANGED <<remote, clients, calls>>
        /\ \/ UNCHANGED <<state, streamId, up, down, events>>
           \/ /\ UNCHANGED <<state, streamId, down, events>>
              /\ state = "streaming" /\ up' = Append(up, KeepaliveCmd)
           \/ HostCtl
           \/ HostConsumers
    BY <1>0, CalmHost
  <1>2. calls = <<>> /\ streamId \in {None, MicOpenId} /\ Wound /\ TypeOK
    BY <1>1, LinkTypes DEF Follows
  <1>3. result' = "running"
    BY DEF Calm, Running
  <1> DEFINE Link == \/ UNCHANGED <<state, streamId, up, down, events>>
                     \/ /\ UNCHANGED <<state, streamId, down, events>>
                        /\ state = "streaming" /\ up' = Append(up, KeepaliveCmd)
                     \/ HostCtl
  <1>4. ASSUME HostConsumers
        PROVE  /\ events # <<>> /\ events' = Tail(events) /\ down' = down
               /\ Head(events) = 1 /\ state = "connected" =>
                    state' = "opening" /\ streamId' = streamId /\ up' = Append(up, MicOpenCmd)
               /\ Head(events) = 0 /\ state = "streaming" =>
                    state' = "connected" /\ streamId' = None /\ up' = Append(up, MicCloseCmd)
    BY <1>4, CalmCount
  <1>5. /\ Head(<<0>>) = 0 /\ Tail(<<0>>) = <<>> /\ Head(<<1>>) = 1 /\ Tail(<<1>>) = <<>>
        /\ <<0>> # <<>> /\ <<1>> # <<>>
    OBVIOUS
  <1>6. CASE clients = 1 /\ events = <<>> /\ WoundUp
    <2>1. Link
      BY <1>1, <1>4, <1>6
    <2>2. WoundUp' /\ streamId' \in {None, MicOpenId} /\ events' = events
      BY <1>1, <1>2, <1>3, <1>6, <2>1, UpHost
    <2> QED
      BY <1>1, <1>2, <1>6, <2>2 DEF Wound
  <1>7. CASE clients = 0 /\ events = <<0>> /\ WoundUp /\ state = "streaming" /\ remote = OnAir
    <2>1. CASE Link
      <3>1. /\ WoundUp' /\ streamId' \in {None, MicOpenId} /\ events' = events
            /\ state' = "streaming"
        BY <1>1, <1>2, <1>3, <1>7, <2>1, UpHost
      <3> QED
        BY <1>1, <1>2, <1>7, <3>1 DEF Wound
    <2>2. CASE HostConsumers
      <3>1. /\ events' = <<>> /\ down' = down /\ state' = "connected" /\ streamId' = None
            /\ up' = Append(up, MicCloseCmd) /\ remote' = OnAir /\ clients' = 0
        BY <1>1, <1>4, <1>5, <1>7, <2>2
      <3>2. MicCloseCmd \in Ordinary /\ MicCloseCmd.op = "MIC_CLOSE" /\ Opening \subseteq Ordinary
        BY <1>2, CalmCommands
      <3>3. up \in Seq(Ordinary)
        <4>1. up \in Seq(Opening)
          BY <1>7 DEF WoundUp
        <4> QED
          BY <3>2, <4>1
      <3>4. up' \in Seq(Ordinary) /\ up' # <<>> /\ LastOf(up').op = "MIC_CLOSE"
        BY <3>1, <3>2, <3>3, QueueWritten, LastIsNew
      <3>5. /\ down' \in Seq({Begun, Closed})
            /\ down' # <<>> => LastOf(down') = Begun
        <4>1. down \in Seq({Begun})
          BY <1>7 DEF WoundUp
        <4>2. down # <<>> => LastOf(down) \in {Begun}
          BY <4>1, LastStays
        <4>3. down \in Seq({Begun, Closed})
          BY <4>1
        <4>4. LastOf(down') = LastOf(down)
          BY <3>1
        <4> QED
          BY <3>1, <4>2, <4>3, <4>4
      <3>6. WoundDown'
        BY <3>1, <3>4, <3>5 DEF WoundDown
      <3> QED
        BY <1>1, <1>2, <3>1, <3>6 DEF Wound
    <2> QED
      BY <1>1, <2>1, <2>2
  <1>8. CASE clients = 1 /\ events = <<1>> /\ Rested
    <2>1. state = "connected" /\ remote = Idle /\ up = <<>> /\ down = <<>>
      BY <1>8 DEF Rested
    <2>2. CASE Link
      <3>1. ~HostCtl
        BY <2>1 DEF HostCtl
      <3>2. UNCHANGED <<state, streamId, up, down, events>>
        BY <2>1, <2>2, <3>1
      <3> QED
        BY <1>1, <1>2, <1>8, <3>2 DEF Wound, Rested
    <2>3. CASE HostConsumers
      <3>1. /\ events' = <<>> /\ down' = <<>> /\ state' = "opening" /\ streamId' = streamId
            /\ up' = Append(up, MicOpenCmd) /\ remote' = Idle /\ clients' = 1
        BY <1>1, <1>4, <1>5, <1>8, <2>1, <2>3
      <3>2. MicOpenCmd \in Opening /\ MicOpenCmd.op = "MIC_OPEN"
        BY <1>2, CalmCommands
      <3>3. up \in Seq(Opening) /\ down' \in Seq({Begun})
        BY <2>1, <3>1
      <3>4. up' \in Seq(Opening) /\ Orders(up', "MIC_OPEN")
        BY <3>1, <3>2, <3>3, QueueWritten, OrdersSent
      <3>5. WoundUp'
        BY <3>1, <3>3, <3>4 DEF WoundUp
      <3> QED
        BY <1>1, <1>2, <3>1, <3>5 DEF Wound
    <2> QED
      BY <1>1, <2>2, <2>3
  <1>9. CASE clients = 0 /\ events = <<>> /\ WoundDown
    <2>1. Link
      BY <1>1, <1>4, <1>9
    <2>2. WoundDown' /\ streamId' \in {None, MicOpenId} /\ events' = events
      BY <1>1, <1>2, <1>3, <1>9, <2>1, DownHost
    <2> QED
      BY <1>1, <1>2, <1>9, <2>2 DEF Wound
  <1> QED
    BY <1>2, <1>6, <1>7, <1>8, <1>9 DEF Wound

LEMMA FollowsHostRest ==
    ASSUME LinkTypeOK, Follows, HostRest \/ HostDisconnected
    PROVE  Follows'
  <1>1. CASE HostRest
    <2>1. UNCHANGED <<remote, up, down, calls, clients, events, faults, asked,
                      state, streamId, result>>
      BY <1>1 DEF HostRest, envVars, Tick, DecoderRecv
    <2> QED
      BY <2>1 DEF Follows, Calm, Running, Wound, WoundUp, WoundDown, Rested, Orders, Tells, LastOf
  <1>2. CASE HostDisconnected
    BY <1>2 DEF HostDisconnected, Disconnected, Follows, Calm, Running
  <1> QED
    BY <1>1, <1>2

\* Clients that wait until nothing is under way.
LEMMA FollowsUsers ==
    ASSUME LinkTypeOK, ~Hasty, Follows, UserStep
    PROVE  Follows'
  <1> SUFFICES ASSUME Calm'
               PROVE  calls' = <<>> /\ streamId' \in {None, MicOpenId} /\ Wound'
    BY DEF Follows
  <1>1. ClientsChange
    BY DEF UserStep, Call, Calm
  <1>2. /\ Drained /\ Calm /\ clients' = 1 - clients /\ events' = Append(events, clients')
        /\ UNCHANGED <<remote, up, down, calls, state, streamId>>
    BY <1>1 DEF ClientsChange, Requests, sessionVars, Calm, Running
  <1>3. /\ calls = <<>> /\ streamId \in {None, MicOpenId} /\ Wound
        /\ up = <<>> /\ down = <<>> /\ events = <<>>
    BY <1>2 DEF Follows, Drained
  <1>4. ~Orders(up, "MIC_OPEN") /\ ~Orders(up, "MIC_CLOSE") /\ ~Tells(down, Closed)
    BY <1>3 DEF Orders, Tells
  <1>5. CASE clients = 1 /\ WoundUp
    <2>1. state = "streaming" /\ remote = OnAir
      BY <1>3, <1>4, <1>5 DEF WoundUp
    <2>2. clients' = 0 /\ events' = <<0>>
      BY <1>2, <1>3, <1>5
    <2>3. WoundUp'
      BY <1>2, <1>5 DEF WoundUp, Orders
    <2> QED
      BY <1>2, <1>3, <2>1, <2>2, <2>3 DEF Wound
  <1>6. CASE clients = 0 /\ WoundDown
    <2>1. Rested'
      BY <1>2, <1>3, <1>4, <1>6 DEF WoundDown, Rested
    <2>2. clients' = 1 /\ events' = <<1>>
      BY <1>2, <1>3, <1>6
    <2> QED
      BY <1>2, <1>3, <2>1, <2>2 DEF Wound
  <1> QED
    BY <1>3, <1>5, <1>6 DEF Wound

\* What a command makes of a remote that streams under the session's id or not
\* at all.
LEMMA CalmRemote ==
    ASSUME Links, RemoteReceives, remote \in {Idle, OnAir}, up \in Seq(Ordinary),
           Calm'
    PROVE  /\ Calm /\ up # <<>> /\ up' = Tail(up)
           /\ UNCHANGED <<calls, clients, events, state, streamId>>
           /\ Head(up).op \in {"MIC_OPEN", "MIC_CLOSE", "MIC_EXTEND"}
           /\ Head(up).op = "MIC_OPEN" => remote' = OnAir /\ down' = Append(down, Begun)
           /\ Head(up).op = "MIC_CLOSE" =>
                /\ remote' = Idle
                /\ down' = IF remote = OnAir THEN Append(down, Closed) ELSE down
           /\ Head(up).op = "MIC_EXTEND" => UNCHANGED <<remote, down>>
  <1> DEFINE c == Head(up)
  <1>0. /\ faults' = MaxFaults /\ faults \in 0 .. MaxFaults /\ ~asked'
        /\ Begun \in Notes /\ Closed \in Notes
    BY AreNotes, NamesDiffer DEF Calm, Links, Begun, Closed, StopReasons
  <1>1. /\ up # <<>> /\ up' = Tail(up)
        /\ UNCHANGED <<calls, clients, events, state, streamId, result, asked>>
        /\ \/ c.op = "MIC_OPEN" /\ remote # Asleep /\ RemoteOpen
           \/ c.op = "MIC_CLOSE" /\ RemoteClose(c.sid)
           \/ /\ c.op = "MIC_EXTEND" \/ (c.op = "MIC_OPEN" /\ remote = Asleep)
              /\ UNCHANGED <<remote, down, faults>>
    BY DEF RemoteReceives, RemoteStep, sessionVars
  <1>2. c \in Ordinary
    BY <1>1, QueueRead
  <1> HIDE DEF c
  <1>3. c.op \in {"MIC_OPEN", "MIC_CLOSE", "MIC_EXTEND"}
        /\ (c.op = "MIC_CLOSE" => c.sid \in {None, MicOpenId})
    BY <1>2, CommandsAre DEF Ordinary
  <1>4. ~Fault
    BY <1>0, Bounds DEF Fault
  <1>5. ASSUME c.op = "MIC_OPEN"
        PROVE  remote' = OnAir /\ down' = Append(down, Begun) /\ faults' = faults
    <2>1. RemoteOpen
      BY <1>1, <1>5, NamesDiffer
    <2>2. remote' = OnAir /\ Answers(<<Begun>>) /\ faults' = faults
      BY <1>4, <2>1, NamesDiffer DEF RemoteOpen, OnAir, Begun
    <2> QED
      BY <1>0, <2>2, AnswersTyped
  <1>6. ASSUME c.op = "MIC_CLOSE"
        PROVE  /\ remote' = Idle /\ faults' = faults
               /\ down' = IF remote = OnAir THEN Append(down, Closed) ELSE down
    <2>1. RemoteClose(c.sid) /\ c.sid \in {None, MicOpenId}
      BY <1>1, <1>3, <1>6
    <2>2. CASE remote = OnAir
      <3>1. remote' = Idle /\ Answers(<<Closed>>) /\ faults' = faults
        BY <2>1, <2>2, NamesDiffer DEF RemoteClose, Closed
      <3> QED
        BY <1>0, <2>2, <3>1, AnswersTyped
    <2>3. CASE remote = Idle
      BY <2>1, <2>3, NamesDiffer DEF RemoteClose
    <2> QED
      BY <2>2, <2>3
  <1>7. c.op = "MIC_EXTEND" => UNCHANGED <<remote, down, faults>>
    BY <1>1
  <1>8. faults' = faults
    BY <1>3, <1>5, <1>6, <1>7
  <1>9. Calm
    BY <1>0, <1>1, <1>8 DEF Calm, Running
  <1> QED
    BY <1>1, <1>3, <1>5, <1>6, <1>7, <1>9 DEF c

LEMMA UpRemote ==
    ASSUME Links, RemoteReceives, WoundUp, Calm'
    PROVE  WoundUp' /\ (remote = OnAir => remote' = OnAir)
  <1>0. remote \in {Idle, OnAir} /\ up \in Seq(Opening) /\ down \in Seq({Begun})
    BY DEF WoundUp
  <1>1. up \in Seq(Ordinary)
    <2>1. Opening \subseteq Ordinary
      BY DEF Opening, Ordinary
    <2> QED
      BY <1>0, <2>1
  <1>2. /\ up # <<>> /\ up' = Tail(up) /\ state' = state
        /\ Head(up).op = "MIC_OPEN" => remote' = OnAir /\ down' = Append(down, Begun)
        /\ Head(up).op = "MIC_EXTEND" => UNCHANGED <<remote, down>>
        /\ Head(up).op \in {"MIC_OPEN", "MIC_CLOSE", "MIC_EXTEND"}
    BY <1>0, <1>1, CalmRemote
  <1>3. up' \in Seq(Opening) /\ Head(up) \in Opening
    BY <1>0, <1>2, QueueRead
  <1>4. CASE Head(up).op = "MIC_OPEN"
    <2>1. down' \in Seq({Begun}) /\ down' # <<>>
      <3>1. down' = Append(down, Begun) /\ Begun \in {Begun}
        BY <1>2, <1>4
      <3>2. Append(down, Begun) \in Seq({Begun})
        BY <1>0, <3>1, QueueWritten
      <3>3. Append(down, Begun) # <<>>
        BY <1>0, <3>1, LastIsNew
      <3> QED
        BY <3>1, <3>2, <3>3
    <2> QED
      BY <1>2, <1>3, <1>4, <2>1, NamesDiffer DEF WoundUp
  <1>5. CASE Head(up).op = "MIC_EXTEND"
    <2>1. Orders(up, "MIC_OPEN") => Orders(up', "MIC_OPEN")
      BY <1>0, <1>2, <1>5, OrdersRead
    <2> QED
      BY <1>2, <1>3, <1>5, <2>1 DEF WoundUp
  <1> QED
    BY <1>2, <1>3, <1>4, <1>5 DEF Opening

LEMMA DownRemote ==
    ASSUME Links, RemoteReceives, WoundDown, Calm'
    PROVE  WoundDown'
  <1>0. /\ remote \in {Idle, OnAir} /\ up \in Seq(Ordinary) /\ down \in Seq({Begun, Closed})
        /\ state \in {"connected", "streaming"}
    BY DEF WoundDown
  <1>1. /\ up # <<>> /\ up' = Tail(up) /\ state' = state
        /\ Head(up).op = "MIC_OPEN" => remote' = OnAir /\ down' = Append(down, Begun)
        /\ Head(up).op = "MIC_CLOSE" =>
             /\ remote' = Idle
             /\ down' = IF remote = OnAir THEN Append(down, Closed) ELSE down
        /\ Head(up).op = "MIC_EXTEND" => UNCHANGED <<remote, down>>
        /\ Head(up).op \in {"MIC_OPEN", "MIC_CLOSE", "MIC_EXTEND"}
    BY <1>0, CalmRemote
  <1>2. /\ up' \in Seq(Ordinary)
        /\ up' # <<>> => LastOf(up') = LastOf(up)
        /\ up' = <<>> => LastOf(up) = Head(up)
    BY <1>0, <1>1, QueueRead, LastStays
  <1>3. state = "connected" => LastOf(up).op = "MIC_CLOSE"
    BY <1>1 DEF WoundDown
  <1>4. Head(up).op # "MIC_CLOSE" /\ Orders(up, "MIC_CLOSE") => Orders(up', "MIC_CLOSE")
    BY <1>0, <1>1, OrdersRead
  <1>5. ASSUME NEW n \in {Begun, Closed}, down' = Append(down, n)
        PROVE  /\ down' \in Seq({Begun, Closed}) /\ down' # <<>> /\ LastOf(down') = n
               /\ Tells(down, Closed) \/ n = Closed => Tells(down', Closed)
    BY <1>0, <1>5, QueueWritten, LastIsNew, TellsSent
  <1>6. CASE Head(up).op = "MIC_OPEN"
    <2>1. remote' = OnAir /\ down' = Append(down, Begun)
      BY <1>1, <1>6
    <2>2. /\ down' \in Seq({Begun, Closed}) /\ down' # <<>> /\ LastOf(down') = Begun
          /\ Tells(down, Closed) => Tells(down', Closed)
      BY <1>5, <2>1
    <2>3. state = "connected" => up' # <<>> /\ LastOf(up').op = "MIC_CLOSE"
      BY <1>2, <1>3, <1>6
    <2>4. state = "streaming" => Orders(up', "MIC_CLOSE") \/ Tells(down', Closed)
      BY <1>4, <1>6, <2>2 DEF WoundDown
    <2> QED
      BY <1>0, <1>1, <1>2, <2>1, <2>2, <2>3, <2>4 DEF WoundDown
  <1>7. CASE Head(up).op = "MIC_EXTEND"
    <2>1. remote' = remote /\ down' = down
      BY <1>1, <1>7
    <2>2. state = "connected" => up' # <<>> /\ LastOf(up').op = "MIC_CLOSE"
      BY <1>2, <1>3, <1>7
    <2>3. Tells(down, Closed) => Tells(down', Closed)
      BY <2>1 DEF Tells
    <2>4. state = "streaming" => Orders(up', "MIC_CLOSE") \/ Tells(down', Closed)
      BY <1>4, <1>7, <2>3 DEF WoundDown
    <2>5. LastOf(down') = LastOf(down)
      BY <2>1
    <2> QED
      BY <1>0, <1>1, <1>2, <2>1, <2>2, <2>4, <2>5 DEF WoundDown
  <1>8. CASE Head(up).op = "MIC_CLOSE"
    <2>1. remote' = Idle /\ down' = IF remote = OnAir THEN Append(down, Closed) ELSE down
      BY <1>1, <1>8
    <2>2. state = "connected" =>
            IF up' = <<>> THEN remote' = Idle ELSE LastOf(up').op = "MIC_CLOSE"
      BY <1>2, <1>3, <2>1
    <2>3. CASE remote = OnAir
      <3>1. /\ down' \in Seq({Begun, Closed}) /\ down' # <<>> /\ LastOf(down') = Closed
            /\ Tells(down', Closed)
        BY <1>5, <2>1, <2>3
      <3> QED
        BY <1>0, <1>1, <1>2, <2>1, <2>2, <3>1, NamesDiffer DEF WoundDown
    <2>4. CASE remote = Idle
      <3>1. remote' = remote /\ down' = down
        BY <2>1, <2>4, NamesDiffer
      <3>2. ASSUME state = "streaming" PROVE down # <<>> /\ Tells(down', Closed)
        <4>1. down # <<>>
          BY <2>4, <3>2, NamesDiffer DEF WoundDown
        <4>2. LastOf(down) # Begun
          BY <2>4, <4>1, NamesDiffer DEF WoundDown
        <4>3. LastOf(down) = Closed
          BY <1>0, <4>1, <4>2, LastStays
        <4>4. Len(down) \in 1 .. Len(down)
          BY <1>0, <4>1
        <4>5. Tells(down, Closed)
          BY <4>3, <4>4 DEF LastOf, Tells
        <4> QED
          BY <3>1, <4>1, <4>5 DEF Tells
      <3>3. LastOf(down') = LastOf(down)
        BY <3>1
      <3> QED
        BY <1>0, <1>1, <1>2, <2>2, <2>4, <3>1, <3>2, <3>3 DEF WoundDown
    <2> QED
      BY <1>0, <2>3, <2>4
  <1> QED
    BY <1>1, <1>6, <1>7, <1>8

LEMMA FollowsRemote ==
    ASSUME Links, Follows, RemoteActs
    PROVE  Follows'
  <1> SUFFICES ASSUME Calm'
               PROVE  calls' = <<>> /\ streamId' \in {None, MicOpenId} /\ Wound'
    BY DEF Follows
  <1>1. UNCHANGED <<calls, clients, events, state, streamId, result>>
    BY DEF RemoteActs, RemoteReceives, RemoteSendsFrame, Press, Release, RemoteGivesUp,
           RemoteStep, sessionVars
  <1>2. CASE RemoteReceives
    <2>1. Calm
      <3>1. faults' = MaxFaults /\ faults' <= faults /\ faults \in 0 .. MaxFaults
        <4>1. faults' = faults \/ Fault
          BY <1>2 DEF RemoteReceives, RemoteOpen, RemoteClose
        <4> QED
          BY <4>1, Bounds DEF Fault, Calm, Links
      <3>2. faults = MaxFaults
        BY <3>1, Bounds
      <3> QED
        BY <1>1, <1>2, <3>2 DEF Calm, Running, RemoteReceives
    <2>2. calls = <<>> /\ streamId \in {None, MicOpenId} /\ Wound
      BY <2>1 DEF Follows
    <2>3. CASE WoundUp
      <3>1. WoundUp' /\ (remote = OnAir => remote' = OnAir)
        BY <1>2, <2>3, UpRemote
      <3>2. CASE clients = 1 /\ events = <<>>
        BY <1>1, <2>2, <3>1, <3>2 DEF Wound
      <3>3. CASE clients = 0 /\ events = <<0>> /\ state = "streaming" /\ remote = OnAir
        BY <1>1, <2>2, <3>1, <3>3 DEF Wound
      <3>4. CASE clients = 0 /\ events = <<>> /\ WoundDown
        <4>1. WoundDown'
          BY <1>2, <3>4, DownRemote
        <4> QED
          BY <1>1, <2>2, <3>4, <4>1 DEF Wound
      <3>5. ~Rested
        BY <1>2 DEF RemoteReceives, Rested
      <3> QED
        BY <2>2, <3>2, <3>3, <3>4, <3>5 DEF Wound
    <2>4. CASE clients = 0 /\ events = <<>> /\ WoundDown
      <3>1. WoundDown'
        BY <1>2, <2>4, DownRemote
      <3> QED
        BY <1>1, <2>2, <2>4, <3>1 DEF Wound
    <2>5. ~Rested
      BY <1>2 DEF RemoteReceives, Rested
    <2> QED
      BY <2>2, <2>3, <2>4, <2>5 DEF Wound
  <1>3. CASE RemoteSendsFrame
    <2>1. UNCHANGED <<remote, up, down, faults, asked>>
      BY <1>3 DEF RemoteSendsFrame
    <2> QED
      BY <1>1, <2>1 DEF Follows, Calm, Running, Wound, WoundUp, WoundDown, Rested, Orders,
                        Tells, LastOf
  <1>4. CASE Press
    BY <1>4 DEF Press, Calm
  <1>5. CASE Release
    <2>1. UNCHANGED <<faults, asked>> /\ remote.phase = "on" /\ remote.sid # MicOpenId
      BY <1>5 DEF Release
    <2>2. Wound
      BY <1>1, <2>1 DEF Follows, Calm, Running
    <2>3. remote \in {Idle, OnAir}
      BY <2>2 DEF Wound, WoundUp, WoundDown, Rested
    <2> QED
      BY <2>1, <2>3, NamesDiffer
  <1>6. CASE RemoteGivesUp
    <2>1. Fault
      BY <1>6 DEF RemoteGivesUp
    <2> QED
      BY <2>1, Bounds DEF Fault, Calm, Links
  <1> QED
    BY <1>2, <1>3, <1>4, <1>5, <1>6 DEF RemoteActs

LEMMA FollowsStep ==
    ASSUME ~Hasty, LinkTypeOK, LinkTypeOK', Follows, [LinkNext]_linkVars PROVE Follows'
  <1>0. Links
    BY LinkTypes
  <1>1. CASE UNCHANGED linkVars
    BY <1>1 DEF linkVars, sessionVars, Follows, Calm, Running, Wound, WoundUp, WoundDown,
                Rested, Orders, Tells, LastOf
  <1> QED
    BY <1>0, <1>1, LinkSteps, FollowsHost, FollowsHostRest, FollowsUsers, FollowsRemote

\* On demand the microphone follows the clients, for clients that wait until
\* nothing is under way, and any number of them, one after the other: whatever
\* the order in which commands, notifications and consumer counts are read.
\* (A client that comes or goes earlier can be missed: the run hasty.)
THEOREM FollowsClientsCorrect == ASSUME ~Hasty PROVE LinkSpec => []FollowsClients
  <1>1. LinkInit => Follows
    <2> SUFFICES ASSUME LinkInit PROVE Follows
      OBVIOUS
    <2>1. /\ state = "connected" /\ streamId = None /\ remote = Idle /\ up = <<>>
          /\ down = <<>> /\ calls = <<>> /\ clients = 0 /\ events = <<>>
      BY DEF LinkInit, Init
    <2>2. up \in Seq(Ordinary) /\ down \in Seq({Begun, Closed})
      BY <2>1
    <2>3. WoundDown
      BY <2>1, <2>2 DEF WoundDown
    <2> QED
      BY <2>1, <2>3 DEF Follows, Wound
  <1>2. LinkTypeOK /\ Follows => FollowsClients
    <2> SUFFICES ASSUME Follows, Links, Calm, Drained
                 PROVE  (remote.phase = "on") = (clients > 0)
      BY LinkTypes DEF FollowsClients, Calm
    <2>1. Wound /\ up = <<>> /\ down = <<>> /\ events = <<>>
      BY DEF Follows, Drained
    <2>2. ~Orders(up, "MIC_OPEN") /\ ~Orders(up, "MIC_CLOSE") /\ ~Tells(down, Closed)
      BY <2>1 DEF Orders, Tells
    <2>3. CASE clients = 1 /\ WoundUp
      <3>1. remote = OnAir
        BY <2>1, <2>2, <2>3 DEF WoundUp
      <3> QED
        BY <2>3, <3>1, NamesDiffer
    <2>4. CASE clients = 0 /\ WoundDown
      <3>1. remote = Idle
        BY <2>1, <2>2, <2>4 DEF WoundDown
      <3> QED
        BY <2>4, <3>1, NamesDiffer
    <2> QED
      BY <2>1, <2>3, <2>4 DEF Wound
  <1> QED
    BY <1>1, <1>2, FollowsStep, LinkTypeCorrect, PTL DEF LinkSpec
=============================================================================
