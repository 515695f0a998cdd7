----------------------------- MODULE Supervisor -----------------------------
(***************************************************************************)
(* The life of the daemon: main (src/src/main.rs:177-557) with negotiate,  *)
(* ensure_connected and what it asks of src/src/ble.rs.  It finds a        *)
(* remote, waits for its connection, resolves its characteristics, does    *)
(* the vendor handshake, negotiates, runs a session, and starts over from  *)
(* the connection when the session ends.  pc names the await it is in.     *)
(*                                                                         *)
(* The radio (link), other daemons (locked) and the user are external.     *)
(***************************************************************************)
EXTENDS Naturals, FiniteSets

CONSTANTS
    Devices,    \* bonded remotes with the ATVV service
    Vendor,     \* those that answer GET_CAPS only after the vendor handshake
    NoCodec,    \* those that share no codec with us
    Explicit,   \* the device named by --device, or NoDevice: auto mode
    NoDevice,
    Rivals,     \* those that other daemons may use
    Races,      \* narrow windows that are open: see MayChange, and Prompt in Daemon
    MaxFaults   \* bound: D-Bus and radio errors that heal by themselves, wherever
                \* main meets them

ASSUME DevicesAssumption ==
    /\ NoDevice \notin Devices
    /\ Vendor \subseteq Devices /\ NoCodec \subseteq Devices /\ Rivals \subseteq Devices
    /\ Explicit \in Devices \cup {NoDevice}
ASSUME FaultsAssumption ==
    Races \subseteq {"negotiation", "spawn"} /\ MaxFaults \in Nat

VARIABLES
    pc,         \* the await main is in
    first,      \* this device has not been negotiated with yet
    dev,        \* device
    excluded,   \* excluded_addrs
    fresh,      \* history: chars were resolved on the connection there is now
    shaken,     \* the vendor handshake on the connection there is now
    alive,      \* the notification streams belong to the connection there is now
    dstate,     \* the state in the watch channel (the D-Bus State property)
    micOn,      \* the remote streams
    cause,      \* history: why the daemon gave a device up or stopped
    interrupted,\* ctrl+c has been pressed
    link,       \* link[d]: remote d is connected
    locked,     \* remotes another daemon holds
    faults      \* what is left of MaxFaults

main == <<pc, first, dev, excluded, fresh, shaken, alive, dstate, micOn, cause>>
world == <<interrupted, link, locked, faults>>
vars == <<main, world>>

\* The awaits that sit in a select! next to ctrl_c(), and the others.
Interruptible == {"find", "check", "subscribe", "await", "poll", "resolve",
                  "acquire", "getcaps", "retryWait", "session"}
Uninterruptible == {"findWait", "resolveWait", "handshake", "serve", "create",
                    "teardown", "failed", "refused"}

MicStates == {"connected", "opening", "streaming"}

SupTypeOK ==
    /\ pc \in Interruptible \cup Uninterruptible \cup {"done"}
    /\ first \in BOOLEAN
    /\ dev \in Devices \cup {NoDevice}
    /\ excluded \subseteq Devices
    /\ fresh \in BOOLEAN /\ alive \in BOOLEAN
    /\ shaken \in {"no", "failed", "done"}
    /\ dstate \in MicStates \cup {"disconnected"}
    /\ micOn \in BOOLEAN
    /\ cause \in {"none", "interrupt", "name", "locked", "mistaken", "panic"}
    /\ interrupted \in BOOLEAN
    /\ link \in [Devices -> BOOLEAN]
    /\ locked \subseteq Devices
    /\ faults \in 0 .. MaxFaults

Init ==
    /\ pc = "find" /\ first = TRUE /\ dev = NoDevice /\ excluded = {}
    /\ fresh = FALSE /\ shaken = "no" /\ alive = FALSE
    /\ dstate = "disconnected" /\ micOn = FALSE /\ cause = "none"
    /\ interrupted = FALSE
    /\ link \in [Devices -> BOOLEAN]
    /\ locked = {}
    /\ faults = MaxFaults

Ready == dev \notin Vendor \/ shaken = "done"
Fault == faults > 0 /\ faults' = faults - 1
NoFault == UNCHANGED faults
Goto(p) == pc' = p
Calm == UNCHANGED <<interrupted, link, locked>>

-----------------------------------------------------------------------------
(* Discovery and connection.                                               *)

\* find_atvv_device: should_skip passes over the excluded and, with --device,
\* over every other remote.
Find ==
    /\ pc = "find"
    /\ \E d \in Devices \ excluded :
         /\ Explicit \in {d, NoDevice}
         /\ dev' = d
    /\ Goto("check")
    /\ Calm /\ NoFault
    /\ UNCHANGED <<first, excluded, fresh, shaken, alive, dstate, micOn, cause>>

\* The discovery fails; main sleeps inside the arm.
FindFails ==
    /\ pc = "find"
    /\ Goto("findWait")
    /\ Calm /\ Fault
    /\ UNCHANGED <<first, dev, excluded, fresh, shaken, alive, dstate, micOn, cause>>

FindAgain ==
    /\ pc = "findWait"
    /\ Goto("find")
    /\ Calm /\ NoFault
    /\ UNCHANGED <<first, dev, excluded, fresh, shaken, alive, dstate, micOn, cause>>

\* ensure_connected asks, then subscribes to the device's events, then waits
\* for one; it polls if it cannot subscribe or the events end.  A question that
\* fails counts as a no, also when the remote is connected.
CheckConnected ==
    /\ pc = "check"
    /\ \/ link[dev] /\ Goto("resolve") /\ NoFault
       \/ Goto("subscribe") /\ IF link[dev] THEN Fault ELSE NoFault
    /\ Calm
    /\ UNCHANGED <<first, dev, excluded, fresh, shaken, alive, dstate, micOn, cause>>

SubscribeEvents ==
    /\ pc \in {"subscribe", "await"}
    /\ \/ pc = "subscribe" /\ Goto("await") /\ NoFault
       \/ Goto("poll") /\ Fault
    /\ Calm
    /\ UNCHANGED <<first, dev, excluded, fresh, shaken, alive, dstate, micOn, cause>>

\* Mutant: the answer of the poll is turned round.
PollBackwards ==
    /\ pc = "poll" /\ ~link[dev]
    /\ Goto("resolve")
    /\ Calm /\ NoFault
    /\ UNCHANGED <<first, dev, excluded, fresh, shaken, alive, dstate, micOn, cause>>

PollConnected ==
    /\ pc = "poll" /\ link[dev]
    /\ Goto("resolve")
    /\ Calm /\ NoFault
    /\ UNCHANGED <<first, dev, excluded, fresh, shaken, alive, dstate, micOn, cause>>

\* Mutant: the vendor handshake is done for the first connection only.
HandshakeOnce ==
    /\ pc = "resolve"
    /\ link[dev] /\ fresh' = TRUE
    /\ Goto(IF first THEN "handshake" ELSE "acquire")
    /\ Calm /\ NoFault
    /\ UNCHANGED <<first, dev, excluded, shaken, alive, dstate, micOn, cause>>

\* resolve_chars fails on a remote that is gone, and sometimes on one that is
\* not; main sleeps inside the arm and tries again.
Resolve ==
    /\ pc = "resolve"
    /\ \/ /\ link[dev] /\ NoFault
          /\ Goto("handshake") /\ fresh' = TRUE
       \/ /\ IF link[dev] THEN Fault ELSE NoFault
          /\ Goto("resolveWait") /\ UNCHANGED fresh
    /\ Calm
    /\ UNCHANGED <<first, dev, excluded, shaken, alive, dstate, micOn, cause>>

ResolveAgain ==
    /\ pc = "resolveWait"
    /\ Goto("resolve")
    /\ Calm /\ NoFault
    /\ UNCHANGED <<first, dev, excluded, fresh, shaken, alive, dstate, micOn, cause>>

\* A failed vendor handshake is logged and forgotten.
Handshake ==
    /\ pc = "handshake"
    /\ \/ link[dev] /\ shaken' = "done" /\ NoFault
       \/ link[dev] /\ shaken' = "failed" /\ Fault
       \/ ~link[dev] /\ shaken' = "no" /\ NoFault
    /\ Goto(IF first THEN "serve" ELSE "acquire")
    /\ Calm
    /\ UNCHANGED <<first, dev, excluded, fresh, alive, dstate, micOn, cause>>

\* The D-Bus service; main gives up if its name is taken.
Serve ==
    /\ pc = "serve"
    /\ \/ Goto("acquire") /\ first' = FALSE /\ NoFault /\ UNCHANGED cause
       \/ Goto("done") /\ cause' = "name" /\ Fault /\ UNCHANGED first
    /\ Calm
    /\ UNCHANGED <<dev, excluded, fresh, shaken, alive, dstate, micOn>>

-----------------------------------------------------------------------------
(* Negotiation.                                                            *)

\* Mutant: the address of --device is excluded instead of the device's.
LockedOutExcludesFilter ==
    /\ cause' = "locked"
    /\ Goto("find")
    /\ excluded' = excluded \cup {Explicit}
    /\ first' = TRUE /\ dev' = NoDevice /\ dstate' = "disconnected"
    /\ fresh' = FALSE /\ shaken' = "no" /\ alive' = FALSE
    /\ Calm
    /\ UNCHANGED micOn

\* An error is_device_locked_error accepts: with --device main stops, without
\* it excludes the device for good and looks for another.
LockedOut ==
    /\ cause' = IF dev \in locked THEN "locked" ELSE "mistaken"
    /\ alive' = FALSE
    /\ IF Explicit # NoDevice
         THEN Goto("done") /\ UNCHANGED <<first, dev, excluded, fresh, shaken, dstate>>
         ELSE /\ Goto("find")
              /\ first' = TRUE /\ dev' = NoDevice
              /\ excluded' = excluded \cup {dev}
              /\ fresh' = FALSE /\ shaken' = "no"
              /\ dstate' = "disconnected"
    /\ Calm
    /\ UNCHANGED micOn

\* notify_io fails because another daemon holds the characteristic, because the
\* remote is gone, or for any other reason.  The error always says "exclusive"
\* (ble.rs:89-107).
AcquireFails ==
    /\ pc = "acquire"
    /\ IF dev \in locked \/ ~link[dev] THEN NoFault ELSE Fault
    /\ LockedOut

\* A write fails with NotPermitted or InProgress: another daemon is using the
\* remote, or BlueZ has reasons of its own.
Refused == IF dev \in locked THEN NoFault ELSE Fault

\* GET_CAPS is refused.
GetCapsRefused ==
    /\ pc = "getcaps" /\ alive
    /\ Refused
    /\ LockedOut

Acquire ==
    /\ pc = "acquire"
    /\ link[dev] /\ dev \notin locked
    /\ alive' = TRUE
    /\ Goto("getcaps")
    /\ Calm /\ NoFault
    /\ UNCHANGED <<first, dev, excluded, fresh, shaken, dstate, micOn, cause>>

CapsResp ==
    /\ pc = "getcaps"
    /\ alive /\ Ready
    /\ dstate' = "connected"
    /\ Goto("create")
    /\ Calm /\ NoFault
    /\ UNCHANGED <<first, dev, excluded, fresh, shaken, alive, micOn, cause>>

\* The CTL stream ends, GET_CAPS cannot be written, or no answer comes in time.
\* main tries again after a while, with the characteristics it has.
NegotiationFails ==
    /\ pc = "getcaps"
    /\ IF alive /\ Ready THEN Fault ELSE NoFault
    /\ alive' = FALSE
    /\ Goto("retryWait")
    /\ Calm
    /\ UNCHANGED <<first, dev, excluded, fresh, shaken, dstate, micOn, cause>>

Retry ==
    /\ pc = "retryWait"
    /\ Goto("acquire")
    /\ Calm /\ NoFault
    /\ UNCHANGED <<first, dev, excluded, fresh, shaken, alive, dstate, micOn, cause>>

\* create_protocol, and at once either a session or the next negotiation.
CreateProtocol ==
    /\ pc = "create"
    /\ IF dev \in NoCodec
         THEN Goto("acquire") /\ alive' = FALSE
         ELSE Goto("session") /\ UNCHANGED alive
    /\ Calm /\ NoFault
    /\ UNCHANGED <<first, dev, excluded, fresh, shaken, dstate, micOn, cause>>

-----------------------------------------------------------------------------
(* The session, seen from outside; MicSession is its inside.               *)

SessionRuns ==
    /\ pc = "session" /\ alive
    /\ \E s \in MicStates : dstate' = s /\ micOn' = (s = "streaming")
    /\ Calm /\ NoFault
    /\ UNCHANGED <<pc, first, dev, excluded, fresh, shaken, alive, cause>>

\* Disconnected; a write failed, or was refused; or run_session polled a
\* notification stream that had ended (MicSession!PolledAgain), a panic that
\* takes the daemon with it.
SessionEnds ==
    /\ pc = "session"
    /\ \/ ~alive /\ Goto("teardown") /\ NoFault /\ UNCHANGED cause
       \/ Goto("failed") /\ (IF alive THEN Fault ELSE NoFault) /\ UNCHANGED cause
       \/ alive /\ Goto("refused") /\ Refused /\ UNCHANGED cause
       \/ Goto("done") /\ cause' = "panic" /\ IF alive THEN Fault ELSE NoFault
    /\ alive' = FALSE
    /\ Calm
    /\ UNCHANGED <<first, dev, excluded, fresh, shaken, dstate, micOn>>

\* Mutant: forgets to send Disconnected.
TeardownSilent ==
    /\ pc \in {"teardown", "failed"}
    /\ Goto("check")
    /\ Calm /\ NoFault
    /\ UNCHANGED <<first, dev, excluded, fresh, shaken, alive, dstate, micOn, cause>>

\* The pipeline is torn down and joined; then back to the connection.
Teardown ==
    /\ pc \in {"teardown", "failed"}
    /\ dstate' = "disconnected"
    /\ Goto("check")
    /\ Calm /\ NoFault
    /\ UNCHANGED <<first, dev, excluded, fresh, shaken, alive, micOn, cause>>

\* The session ended with an error is_device_locked_error accepts.
TeardownLocked ==
    /\ pc = "refused"
    /\ NoFault
    /\ LockedOut

\* Ctrl+C.  In a session, MIC_CLOSE is written first, with the default Write
\* Command, which remotes ignore on this characteristic (ble.rs:77-80): the
\* remote's microphone stays as it is.  Outside a select! nobody listens.
CtrlC ==
    /\ ~interrupted
    /\ interrupted' = TRUE
    /\ IF pc \in Interruptible
         THEN Goto("done") /\ cause' = "interrupt"
         ELSE UNCHANGED <<pc, cause>>
    /\ UNCHANGED <<first, dev, excluded, fresh, shaken, alive, dstate, micOn, link, locked>>
    /\ NoFault

-----------------------------------------------------------------------------
(* The world.                                                              *)

\* The narrow window "negotiation": the link of the device in use changes
\* between its handshake and its session.
Negotiating == pc \in {"handshake", "serve", "acquire", "getcaps", "retryWait", "create"}
MayChange(d) == d = dev /\ Negotiating => "negotiation" \in Races

LinkUp(d) ==
    /\ pc # "done" /\ ~link[d] /\ MayChange(d)
    /\ link' = [link EXCEPT ![d] = TRUE]
    /\ pc' = IF d = dev /\ pc = "await" THEN "resolve" ELSE pc
    /\ UNCHANGED <<first, dev, excluded, fresh, shaken, alive, dstate, micOn, cause,
                   interrupted, locked, faults>>

LinkDown(d) ==
    /\ pc # "done" /\ link[d] /\ MayChange(d)
    /\ link' = [link EXCEPT ![d] = FALSE]
    /\ IF d = dev
         THEN fresh' = FALSE /\ shaken' = "no" /\ alive' = FALSE /\ micOn' = FALSE
         ELSE UNCHANGED <<fresh, shaken, alive, micOn>>
    /\ UNCHANGED <<pc, first, dev, excluded, dstate, cause, interrupted, locked, faults>>

OtherDaemon(d) ==
    /\ pc # "done" /\ d \in Rivals
    /\ locked' = IF d \in locked THEN locked \ {d} ELSE locked \cup {d}
    /\ UNCHANGED <<main, interrupted, link, faults>>

-----------------------------------------------------------------------------
Main ==
    \/ Find \/ FindFails \/ FindAgain
    \/ CheckConnected \/ SubscribeEvents \/ PollConnected
    \/ Resolve \/ ResolveAgain \/ Handshake \/ Serve
    \/ AcquireFails \/ GetCapsRefused
    \/ Acquire \/ CapsResp \/ NegotiationFails \/ Retry \/ CreateProtocol
    \/ SessionEnds \/ Teardown \/ TeardownLocked

Next ==
    \/ Main
    \/ SessionRuns
    \/ CtrlC
    \/ \E d \in Devices : LinkUp(d) \/ LinkDown(d) \/ OtherDaemon(d)

Spec == Init /\ [][Next]_vars

\* main goes on whenever it can; nobody else has to do anything.
FairSpec == Spec /\ WF_vars(Main)

-----------------------------------------------------------------------------
(* Properties.                                                             *)

\* The D-Bus state is "disconnected" unless main is in a session or between
\* the answer to GET_CAPS and the teardown (main.rs:394, :507).  Not so for a
\* remote without a common codec: main shows it as connected while it negotiates
\* with it over and over, without a pause (main.rs:397-400).
StateIsTrue ==
    dstate # "disconnected" =>
        pc \in {"create", "session", "teardown", "failed", "refused", "done"}
            \/ dev \in NoCodec

\* Streams that are alive were subscribed to on characteristics resolved on
\* the present connection, and after a vendor handshake on it, successful or not
\* (main.rs:520-536: handles may change, and remotes reset their ready state, on
\* reconnect).
HandlesAreFresh == alive => fresh /\ shaken # "no"

\* Nothing but main itself keeps the device from being served: it is connected,
\* free, shares a codec, and no vendor handshake it needs has failed.
Servable ==
    /\ dev # NoDevice /\ link[dev]
    /\ dev \notin locked \cup NoCodec
    /\ dev \in Vendor => shaken # "failed"

\* main waits to be told of a connection it has been told of, or that came up
\* before it listened.
Overlooked == pc = "await" /\ link[dev]

BackAgain == []<>(pc \in {"session", "done"})

\* A remote that can be served is served again: if it stays connected and free,
\* main gets back into a session, or has stopped, again and again,
\* whatever failed before; unless it has overlooked that the remote is there.
ComesBackIfNoticed == <>[](Servable /\ ~Overlooked) => BackAgain

\* Not true of the code: "ATVVoice automatically reconnects when the device
\* comes back" (README.md:108), whether it noticed at once or not.
ComesBack == <>[]Servable => BackAgain

\* Not true of the code: main gives a device up, by stopping or by excluding it
\* for good, only if another daemon really holds it (main.rs:116), and otherwise
\* waits for it to come back (README.md:108).
OnlyLockedIsGivenUp == cause # "mistaken"

\* Not true of the code: a shutdown leaves no microphone open (the design's
\* "Graceful shutdown on SIGTERM/SIGINT (sends MIC_CLOSE ...)").
ShutdownClosesMic == pc = "done" /\ cause = "interrupt" => ~micOn
=============================================================================
