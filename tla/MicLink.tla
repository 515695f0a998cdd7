------------------------------ MODULE MicLink -------------------------------
(***************************************************************************)
(* run_session at work: the session of MicSession, a remote, the BLE link  *)
(* between them, the D-Bus command queue and the PipeWire clients.         *)
(*                                                                         *)
(* The remote and the link are external to the program.  They do what      *)
(* run_session and its tests expect of them: CTL notifications and TX      *)
(* writes arrive in order, MIC_OPEN is answered by AUDIO_START or          *)
(* MIC_OPEN_ERROR, MIC_CLOSE by AUDIO_STOP, and a v1.0 remote obeys a      *)
(* MIC_CLOSE only if it names its stream.                                  *)
(***************************************************************************)
EXTENDS MicSession

CONSTANTS
    MaxRequests,    \* bound: D-Bus calls and changes of the client count
    MaxPresses,     \* bound: presses of the remote's button
    MaxFaults,      \* bound: failed writes, refusals, stops of the remote
    MaxInFlight,    \* bound: messages under way when a keepalive is sent
    Callers,        \* the D-Bus methods that are called
    Hasty           \* may clients come and go while messages are in flight?

ASSUME BoundsAssumption ==
    {MaxRequests, MaxPresses, MaxFaults, MaxInFlight} \subseteq Nat
ASSUME UsersAssumption == Callers \subseteq ExternalCommands /\ Hasty \in BOOLEAN

VARIABLES
    remote,     \* the remote: its phase and the id of its stream
    up,         \* commands on their way to the remote (TX writes)
    down,       \* CTL notifications on their way to the session
    rx,         \* audio notifications on their way to the session (at most 1)
    calls,      \* commands queued by the D-Bus service
    clients,    \* PipeWire clients of the source
    events,     \* consumer counts on their way to the session
    requests, presses, faults,  \* what is left of the bounds
    asked,      \* history: a caller, the button or a timer had a say as well
    closeLost   \* history: a best-effort MIC_CLOSE failed, and no stream began since

envVars == <<remote, up, down, rx, calls, clients, events, requests, presses, faults, asked>>
linkVars == <<remote, up, down, rx, calls, clients, events, requests, presses,
              faults, asked, closeLost, sessionVars>>

Idle == [phase |-> "idle", sid |-> None]
Asleep == [phase |-> "asleep", sid |-> None]
On(s) == [phase |-> "on", sid |-> s]

Stop(reason) == [ev |-> "AUDIO_STOP", arg |-> reason]
Start(s) == [ev |-> "AUDIO_START", arg |-> s]
Search == [ev |-> "START_SEARCH"]
OpenError == [ev |-> "MIC_OPEN_ERROR"]

LinkTypeOK ==
    /\ TypeOK
    /\ remote \in {Idle, Asleep} \cup {On(s) : s \in StreamIds}
    /\ up \in Seq(Commands)
    /\ down \in Seq({Stop(r) : r \in StopReasons} \cup {Start(s) : s \in StreamIds}
                        \cup {Search, OpenError})
    /\ rx \in 0 .. 1
    /\ calls \in Seq(ExternalCommands)
    /\ clients \in 0 .. 1
    /\ events \in Seq(0 .. 1)
    /\ requests \in 0 .. MaxRequests
    /\ presses \in 0 .. MaxPresses
    /\ faults \in 0 .. MaxFaults
    /\ asked \in BOOLEAN /\ closeLost \in BOOLEAN

LinkInit ==
    /\ Init
    /\ remote = Idle
    /\ up = <<>> /\ down = <<>> /\ rx = 0
    /\ calls = <<>> /\ clients = 0 /\ events = <<>>
    /\ requests = MaxRequests /\ presses = MaxPresses /\ faults = MaxFaults
    /\ asked = FALSE /\ closeLost = FALSE

Running == result = "running"
Drained == up = <<>> /\ down = <<>> /\ calls = <<>> /\ events = <<>>

-----------------------------------------------------------------------------
(* The session's arms, fed from the queues.                                *)

\* What every arm does to the link: a successful write reaches the remote in
\* order, a failed one uses up a fault.
Sends(lost) ==
    /\ up' = up \o written'
    /\ LET failed == lost \/ result' = "err"
       IN  /\ failed => faults > 0
           /\ faults' = IF failed THEN faults - 1 ELSE faults
    /\ closeLost' = \/ lost /\ state' = "connected"
                    \/ closeLost /\ state' # "streaming"

HostCtl ==
    /\ down # <<>>
    /\ LET n == Head(down) IN
         \/ n.ev = "AUDIO_STOP" /\ AudioStop(n.arg)
         \/ n.ev = "AUDIO_START" /\ AudioStart(n.arg)
         \/ n.ev = "START_SEARCH" /\ StartSearch
         \/ n.ev = "MIC_OPEN_ERROR" /\ MicOpenError
         \/ n.ev = "MIC_OPEN_ERROR" /\ state # "opening" /\ OtherCtl
    /\ Sends(FALSE)
    /\ down' = Tail(down)
    /\ UNCHANGED <<remote, rx, calls, clients, events, requests, presses, asked>>

HostRx ==
    /\ rx = 1
    /\ (\E seq \in Seqs : Frame(seq)) \/ (state # "streaming" /\ DroppedFrame)
    /\ Sends(FALSE)
    /\ rx' = 0
    /\ UNCHANGED <<remote, down, calls, clients, events, requests, presses, asked>>

HostCommand ==
    /\ calls # <<>>
    /\ External(Head(calls))
    /\ Sends(FALSE)
    /\ calls' = Tail(calls)
    /\ UNCHANGED <<remote, down, rx, clients, events, requests, presses, asked>>

HostConsumers ==
    /\ events # <<>>
    /\ ConsumersChanged(Head(events))
    /\ Sends(state' # state /\ written' = <<>>)
    /\ events' = Tail(events)
    /\ UNCHANGED <<remote, down, rx, calls, clients, requests, presses, asked>>

HostTimer ==
    /\ FrameTimer \/ (KeepaliveTimer /\ Len(up) + Len(down) < MaxInFlight)
    /\ Sends(written' = <<>>)
    /\ asked' = (asked \/ state' # state)
    /\ UNCHANGED <<remote, down, rx, calls, clients, events, requests, presses>>

HostRest ==
    /\ Tick \/ DecoderRecv
    /\ UNCHANGED <<envVars, closeLost>>

HostDisconnected ==
    /\ faults > 0
    /\ faults' = faults - 1
    /\ Disconnected
    /\ UNCHANGED <<remote, up, down, rx, calls, clients, events, requests, presses, asked, closeLost>>

-----------------------------------------------------------------------------
(* The users: D-Bus callers and PipeWire clients.                          *)

Requests ==
    /\ Running
    /\ requests > 0
    /\ requests' = requests - 1
    /\ UNCHANGED <<sessionVars, remote, up, down, rx, presses, faults, closeLost>>

Call(cmd) ==
    /\ Requests
    /\ calls' = Append(calls, cmd)
    /\ asked' = TRUE
    /\ UNCHANGED <<clients, events>>

ClientsChange ==
    /\ OnDemand
    /\ Hasty \/ Drained
    /\ Requests
    /\ clients' = 1 - clients
    /\ events' = Append(events, clients')
    /\ UNCHANGED <<calls, asked>>

-----------------------------------------------------------------------------
(* The remote.                                                             *)

RemoteStep ==
    /\ Running
    /\ UNCHANGED <<sessionVars, calls, clients, events, requests, closeLost>>

Answers(reply) == down' = down \o reply
Fault == faults > 0 /\ faults' = faults - 1

\* MIC_OPEN starts stream 0, or restarts it; it is refused at will, and always
\* while the remote's own button holds a stream.
RemoteOpen ==
    /\ \/ /\ remote = Idle \/ remote = On(MicOpenId)
          /\ remote' = On(MicOpenId)
          /\ Answers(<<Start(MicOpenId)>>)
          /\ UNCHANGED faults
       \/ /\ remote = Idle
          /\ Fault
          /\ Answers(<<OpenError>>)
          /\ UNCHANGED remote
       \/ /\ remote.phase = "on" /\ remote.sid # MicOpenId
          /\ Answers(<<OpenError>>)
          /\ UNCHANGED <<remote, faults>>

RemoteClose(sid) ==
    /\ UNCHANGED faults
    /\ \/ /\ remote.phase = "on" /\ sid \in {None, remote.sid}
          /\ remote' = Idle
          /\ Answers(<<Stop("MicClose")>>)
       \/ /\ remote.phase # "on" \/ sid \notin {None, remote.sid}
          /\ UNCHANGED <<remote, down>>

RemoteReceives ==
    /\ up # <<>>
    /\ LET c == Head(up) IN
         \/ c.op = "MIC_OPEN" /\ remote # Asleep /\ RemoteOpen
         \/ c.op = "MIC_CLOSE" /\ RemoteClose(c.sid)
         \/ /\ c.op = "MIC_EXTEND" \/ (c.op = "MIC_OPEN" /\ remote = Asleep)
            /\ UNCHANGED <<remote, down, faults>>
    /\ up' = Tail(up)
    /\ RemoteStep
    /\ UNCHANGED <<rx, presses, asked>>

RemoteSendsFrame ==
    /\ remote.phase = "on" /\ rx = 0
    /\ rx' = 1
    /\ RemoteStep
    /\ UNCHANGED <<remote, up, down, presses, faults, asked>>

\* The button: START_SEARCH, or (v1.0, push or hold to talk) a stream of the
\* remote's own, under an id no command in flight names.
Press ==
    /\ presses > 0
    /\ presses' = presses - 1
    /\ asked' = TRUE
    /\ \/ /\ Answers(<<Search>>)
          /\ remote' = IF remote = Asleep THEN Idle ELSE remote
       \/ \E s \in StreamIds \ {MicOpenId} :
            /\ V10
            /\ \A i \in 1 .. Len(up) : up[i].sid # s
            /\ remote.phase = "on" => remote.sid = MicOpenId
            /\ remote' = On(s)
            /\ Answers(IF remote.phase = "on"
                         THEN <<Stop("UpcomingAudioStart"), Start(s)>>
                         ELSE <<Start(s)>>)
    /\ RemoteStep
    /\ UNCHANGED <<up, rx, faults>>

Release ==
    /\ remote.phase = "on" /\ remote.sid # MicOpenId
    /\ remote' = Idle
    /\ Answers(<<Stop("HttButtonRelease")>>)
    /\ RemoteStep
    /\ UNCHANGED <<up, rx, presses, faults, asked>>

\* The transfer timeout, reported, or the remote falling asleep, unreported.
RemoteGivesUp ==
    /\ remote.phase = "on"
    /\ Fault
    /\ \/ remote' = Idle /\ Answers(<<Stop("TransferTimeout")>>)
       \/ remote' = Asleep /\ UNCHANGED down
    /\ RemoteStep
    /\ UNCHANGED <<up, rx, presses, asked>>

-----------------------------------------------------------------------------
Host == HostCtl \/ HostRx \/ HostCommand \/ HostConsumers \/ HostTimer

LinkNext ==
    \/ Host
    \/ HostRest
    \/ HostDisconnected
    \/ \E cmd \in Callers : Call(cmd)
    \/ ClientsChange
    \/ RemoteReceives
    \/ RemoteSendsFrame
    \/ Press
    \/ Release
    \/ RemoteGivesUp

LinkSpec == LinkInit /\ [][LinkNext]_linkVars

(***************************************************************************)
(* The loop picks at random among the arms that are ready (tokio::select!  *)
(* without `biased`), so an arm that is ready again and again is taken in  *)
(* the end: strong fairness of each.  Time passes, the decoder task runs,  *)
(* and the link delivers.  Nothing obliges users, or the remote's button.  *)
(***************************************************************************)
LinkFairness ==
    /\ SF_linkVars(HostCtl) /\ SF_linkVars(HostRx)
    /\ SF_linkVars(HostCommand) /\ SF_linkVars(HostConsumers)
    /\ SF_linkVars(FrameTimer /\ HostTimer)
    /\ WF_linkVars(Tick /\ HostRest) /\ WF_linkVars(DecoderRecv /\ HostRest)
    /\ WF_linkVars(RemoteReceives)

LinkFairSpec == LinkSpec /\ LinkFairness

\* For TLC: the variables the future depends on.  A timer that guards no arm
\* is reset before it does; written and quiet are never read.
LinkView ==
    <<remote, up, down, rx, calls, clients, events, requests, presses, faults, asked,
      closeLost, state, streamId, lastSeq, audio, parked, open, result,
      IF MicActive THEN frameLeft ELSE 0, IF state = "streaming" THEN keepLeft ELSE 0>>

-----------------------------------------------------------------------------
(* Properties.                                                             *)

\* No open microphone behind the host's back: once every message has arrived,
\* a remote that streams is one the session shows as streaming, and under the
\* id it would close; unless a MIC_CLOSE the code sends best-effort got lost
\* (atvv.rs:343, :360).
NoHiddenStream ==
    Running /\ up = <<>> /\ down = <<>> /\ ~closeLost /\ remote.phase = "on"
        => state = "streaming" /\ streamId = remote.sid

\* A stream the remote no longer sends does not stay up: whether it reported
\* the end or just fell asleep, the session leaves Streaming (frame timeout,
\* atvv.rs:357-362), or the remote starts again, or the session ends.
NoPhantomStream ==
    remote.phase # "on" ~> state # "streaming" \/ remote.phase = "on" \/ ~Running

\* On demand, the mic follows the clients of the source: when nothing is left
\* to deliver, and nobody and nothing else had a say, it is on air exactly when
\* there is a client.  True only of clients that do not come and go while
\* messages are in flight; README.md:127 says it of all of them.
FollowsClients ==
    OnDemand /\ Running /\ Drained /\ ~asked /\ faults = MaxFaults
        => (remote.phase = "on") = (clients > 0)

\* Not true of the code for hasty clients: the mic "closes immediately when all
\* clients disconnect" (README.md:127).
ClosedWithoutClients ==
    OnDemand /\ Running /\ Drained /\ ~asked /\ clients = 0 => remote.phase # "on"
=============================================================================
