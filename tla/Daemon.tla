------------------------------- MODULE Daemon -------------------------------
(***************************************************************************)
(* main with its D-Bus service (src/src/dbus.rs): the queue of commands,   *)
(* which outlives sessions, and the task that signals the states it finds  *)
(* in the watch channel.  Both live as long as main stays with a device.   *)
(*                                                                         *)
(* D-Bus clients are external: they call methods, and they know the State  *)
(* they read when the service came up and the signals since.               *)
(***************************************************************************)
EXTENDS Supervisor, Sequences

CONSTANTS
    Methods,    \* the methods clients call
    MaxCalls    \* bound: calls

ASSUME MethodsAssumption ==
    Methods \subseteq {"MicOpen", "MicClose", "MicToggle"} /\ MaxCalls \in Nat

VARIABLES
    task,       \* the signal task
    unseen,     \* the watch channel has a value the task has not been woken for
    prev,       \* prev_state
    told,       \* the state clients know of
    lost,       \* history: the last signal could not be sent
    queue,      \* calls not carried out: in the channel or waiting for room in it
    called      \* calls so far

busVars == <<task, unseen, prev, told, lost, queue, called>>
daemonVars == <<vars, busVars>>

States == MicStates \cup {"disconnected"}
Tasks == {"none", "spawned", "waiting", "woken", "emitting"}

BusTypeOK ==
    /\ SupTypeOK
    /\ task \in Tasks
    /\ unseen \in BOOLEAN /\ lost \in BOOLEAN
    /\ prev \in States /\ told \in States
    /\ queue \in Seq(Methods)
    /\ called \in 0 .. MaxCalls

DaemonInit ==
    /\ Init
    /\ task = "none" /\ unseen = FALSE
    /\ prev = "disconnected" /\ told = "disconnected" /\ lost = FALSE
    /\ queue = <<>> /\ called = 0

-----------------------------------------------------------------------------
(* What main does to the service.                                          *)

\* A new watch channel and a new queue.
NewBus ==
    /\ unseen' = FALSE /\ prev' = "disconnected" /\ told' = "disconnected"
    /\ lost' = FALSE /\ queue' = <<>>
    /\ UNCHANGED called

\* serve, unless D-Bus cannot be had.
ServesBus == task' \in {"spawned", "none"} /\ NewBus

\* The device is excluded: channel, queue and connection are dropped, and with
\* them the calls nobody has carried out.
DropsBus == task' = "none" /\ NewBus

\* The runtime polls a new task before a remote has answered GET_CAPS.
Prompt == "spawn" \in Races \/ task # "spawned"

\* state_tx.send wakes the task even if the value is the one it has: after every
\* answer to GET_CAPS, and whenever a session sends its state again.
Answered == pc = "getcaps" /\ pc' = "create"
Publishes ==
    /\ \/ dstate' = dstate /\ ~Answered /\ UNCHANGED unseen
       \/ /\ dstate' # dstate \/ Answered \/ (pc = "session" /\ pc' = pc)
          /\ Prompt
          /\ unseen' = (task # "none")
    /\ UNCHANGED <<task, prev, told, lost, queue, called>>

Bus ==
    \/ first /\ ~first' /\ ServesBus
    \/ ~first /\ first' /\ DropsBus
    \/ first' = first /\ Publishes

-----------------------------------------------------------------------------
(* The signal task.                                                        *)

Serving == task # "none" /\ pc # "done"
TaskStep == pc # "done" /\ UNCHANGED <<vars, queue, called>>

TaskStarts ==
    /\ task = "spawned" /\ task' = "waiting"
    /\ prev' = dstate
    /\ TaskStep
    /\ UNCHANGED <<unseen, told, lost>>

\* rx.changed() returns, and the value counts as seen.
TaskWakes ==
    /\ task = "waiting" /\ unseen
    /\ task' = "woken" /\ unseen' = FALSE
    /\ TaskStep
    /\ UNCHANGED <<prev, told, lost>>

\* Mutants: every wake-up is signalled; prev_state is set before it is compared.
TaskReadsAlways ==
    /\ task = "woken" /\ task' = "emitting" /\ prev' = dstate
    /\ TaskStep
    /\ UNCHANGED <<unseen, told, lost>>

TaskReadsItself ==
    /\ task = "woken" /\ task' = "waiting" /\ prev' = dstate
    /\ TaskStep
    /\ UNCHANGED <<unseen, told, lost>>

\* *rx.borrow(), which may be newer than what the task was woken for.
TaskReads ==
    /\ task = "woken"
    /\ task' = IF dstate # prev THEN "emitting" ELSE "waiting"
    /\ prev' = dstate
    /\ TaskStep
    /\ UNCHANGED <<unseen, told, lost>>

\* Mutant: what was sent while the signal was under way counts as seen.
TaskEmitsMarksSeen ==
    /\ task = "emitting" /\ task' = "waiting"
    /\ told' = prev /\ lost' = FALSE /\ unseen' = FALSE
    /\ TaskStep
    /\ UNCHANGED prev

\* mic_state_changed, which may fail.
TaskEmits ==
    /\ task = "emitting" /\ task' = "waiting"
    /\ \/ told' = prev /\ lost' = FALSE
       \/ lost' = TRUE /\ UNCHANGED told
    /\ TaskStep
    /\ UNCHANGED <<unseen, prev>>

SignalTask == TaskStarts \/ TaskWakes \/ TaskReads \/ TaskEmits

-----------------------------------------------------------------------------
(* Calls and the session that carries them out.                            *)

\* send_command: the caller waits while the channel is full.
Call ==
    /\ Serving
    /\ called < MaxCalls /\ called' = called + 1
    /\ \E cmd \in Methods : queue' = Append(queue, cmd)
    /\ UNCHANGED <<vars, task, unseen, prev, told, lost>>

\* What a command makes of the session's state.
After(cmd, s) ==
    CASE s = "connected" /\ cmd \in {"MicOpen", "MicToggle"} -> "opening"
      [] s \in {"opening", "streaming"} /\ cmd \in {"MicClose", "MicToggle"} -> "connected"
      [] OTHER -> s

\* The oldest command is carried out; the remote has not answered yet.  A write
\* that fails ends the session, and the command is gone.
CarriesOut ==
    /\ queue # <<>> /\ queue' = Tail(queue)
    /\ LET s == After(Head(queue), dstate)
       IN  \/ /\ dstate' = s
              /\ micOn' = (micOn /\ s = "streaming")
              /\ NoFault
              /\ UNCHANGED <<pc, alive>>
           \/ /\ s # dstate
              /\ \/ Goto("failed") /\ Fault
                 \/ Goto("refused") /\ Refused
              /\ alive' = FALSE
              /\ UNCHANGED <<dstate, micOn>>
    /\ unseen' = (unseen \/ dstate' # dstate)
    /\ Calm
    /\ UNCHANGED <<first, dev, excluded, fresh, shaken, cause, task, prev, told, lost, called>>

\* Mutant: the session only looks at the queue while the mic is open.
TakesCommandWhenActive ==
    pc = "session" /\ alive /\ dstate \in {"opening", "streaming"} /\ CarriesOut

\* The command_rx arm.
TakesCommand == pc = "session" /\ alive /\ CarriesOut

-----------------------------------------------------------------------------
DaemonNext ==
    \/ Next /\ Bus
    \/ SignalTask
    \/ Call
    \/ TakesCommand

DaemonSpec == DaemonInit /\ [][DaemonNext]_daemonVars

\* main and the signal task go on whenever they can.  A session that has a
\* command all the time takes it in the end: select! picks at random.
DaemonFairSpec ==
    /\ DaemonSpec
    /\ WF_daemonVars(Main /\ Bus) /\ WF_daemonVars(SignalTask) /\ WF_daemonVars(TakesCommand)

-----------------------------------------------------------------------------
(* Properties.                                                             *)

\* What clients were told last is the state, unless a newer one is on its way
\* (dbus.rs:127-152).  Not so after a signal that could not be sent: the task
\* does not send it again.
SignalsAreCurrent == task = "waiting" /\ ~unseen /\ ~lost => told = dstate

\* A signal always tells a new state (dbus.rs:124-131), although the watch
\* channel wakes the task for states that came and went.
SignalsAreNews ==
    [][task = "emitting" /\ task' = "waiting" /\ ~lost /\ ~lost' => told' # told]_daemonVars

\* A state that stays is made known in the end; only short ones are skipped.
SignalsCatchUp ==
    <>[][UNCHANGED dstate]_daemonVars => <>[](Serving => told = dstate \/ lost)

\* A call is carried out in the end, by this session or by the next one, if the
\* remote can be served and main has not overlooked it: sessions come and go, the
\* queue stays (main.rs:454).
CallsGetThrough ==
    <>[](Servable /\ ~Overlooked) => []<>(queue = <<>> \/ pc = "done")
=============================================================================
