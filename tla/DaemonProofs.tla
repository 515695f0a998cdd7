---------------------------- MODULE DaemonProofs ----------------------------
(***************************************************************************)
(* Theorems about Daemon: what the clients of its D-Bus service are told   *)
(* is true, for every set of remotes, any number of faults and calls, and  *)
(* every order of main and the signal task.                                *)
(***************************************************************************)
EXTENDS Daemon, SupervisorProofs

-----------------------------------------------------------------------------
(* The steps of main, alone and with the service.                          *)

\* main has published nothing before it serves D-Bus, and a session has been
\* published before it runs.
ServedFirst ==
    /\ first => dstate = "disconnected"
    /\ pc \in {"acquire", "getcaps", "retryWait", "create", "session", "teardown", "failed",
              "refused"}
         => ~first
Published == pc \in {"create", "session"} => dstate \in MicStates

MainInv == BaseInv /\ ServedFirst /\ Published

LEMMA MainInit == ASSUME Init PROVE MainInv
  BY BaseInit DEF Init, MainInv, ServedFirst, Published

LEMMA MainStep == ASSUME MainInv, [Next]_vars PROVE MainInv'
  <1> USE DevicesAssumption DEF MainInv, ServedFirst, Published, Goto, Calm
  <1>0. BaseInv'
    BY BaseStep
  <1>1. CASE AcquireFails \/ GetCapsRefused \/ TeardownLocked
    BY <1>0, <1>1 DEF AcquireFails, GetCapsRefused, TeardownLocked, LockedOut
  <1>2. CASE Find \/ FindFails \/ FindAgain
    BY <1>0, <1>2 DEF Find, FindFails, FindAgain
  <1>3. CASE CheckConnected \/ SubscribeEvents \/ PollConnected
    BY <1>0, <1>3 DEF CheckConnected, SubscribeEvents, PollConnected
  <1>4. CASE Resolve \/ ResolveAgain \/ Handshake \/ Serve
    BY <1>0, <1>4 DEF Resolve, ResolveAgain, Handshake, Serve
  <1>5. CASE Acquire \/ CapsResp \/ NegotiationFails \/ Retry \/ CreateProtocol
    BY <1>0, <1>5 DEF Acquire, CapsResp, NegotiationFails, Retry, CreateProtocol, MicStates
  <1>6. CASE SessionRuns \/ SessionEnds \/ Teardown
    BY <1>0, <1>6 DEF SessionRuns, SessionEnds, Teardown
  <1>7. CASE CtrlC
    BY <1>0, <1>7 DEF CtrlC
  <1>8. CASE \E d \in Devices : LinkUp(d) \/ LinkDown(d) \/ OtherDaemon(d)
    BY <1>0, <1>8 DEF LinkUp, LinkDown, OtherDaemon, main
  <1>9. CASE UNCHANGED vars
    BY <1>0, <1>9 DEF vars, main
  <1> QED
    BY <1>1, <1>2, <1>3, <1>4, <1>5, <1>6, <1>7, <1>8, <1>9 DEF Next, Main

\* A command is what a session may do anyway: change its state, or fail.
LEMMA CommandIsSession ==
    ASSUME MainInv, TakesCommand PROVE [SessionRuns \/ SessionEnds]_vars
  <1> DEFINE s == After(Head(queue), dstate)
  <1>1. s \in MicStates /\ (s = "streaming" => dstate = "streaming")
    BY DEF TakesCommand, CarriesOut, MainInv, Published, After, MicStates
  <1>2. micOn \in BOOLEAN
    BY DEF MainInv, BaseInv, SupTypeOK
  <1>3. CASE /\ dstate' = s
             /\ micOn' = (micOn /\ s = "streaming")
             /\ NoFault
             /\ UNCHANGED <<pc, alive>>
    <2>1. CASE s = "streaming"
      <3>1. micOn' = micOn
        BY <1>2, <1>3, <2>1
      <3> QED
        BY <1>1, <1>3, <2>1, <3>1 DEF TakesCommand, CarriesOut, Calm, NoFault, vars, main, world
    <2>2. CASE s # "streaming"
      BY <1>1, <1>3, <2>2 DEF TakesCommand, CarriesOut, SessionRuns, Calm, NoFault
    <2> QED
      BY <2>1, <2>2
  <1>4. CASE /\ s # dstate
             /\ (Goto("failed") /\ Fault) \/ (Goto("refused") /\ Refused)
             /\ alive' = FALSE
             /\ UNCHANGED <<dstate, micOn>>
    BY <1>4 DEF TakesCommand, CarriesOut, SessionEnds, Calm, Goto
  <1> QED
    BY <1>3, <1>4 DEF TakesCommand, CarriesOut

\* Whatever the service does, main makes a step of its own or none.
LEMMA StepOfMain == ASSUME MainInv, [DaemonNext]_daemonVars PROVE [Next]_vars
  <1>1. CASE Next /\ Bus
    BY <1>1
  <1>2. CASE SignalTask
    BY <1>2 DEF SignalTask, TaskStarts, TaskWakes, TaskReads, TaskEmits, TaskStep
  <1>3. CASE Call
    BY <1>3 DEF Call
  <1>4. CASE TakesCommand
    BY <1>4, CommandIsSession DEF Next, Main
  <1>5. CASE UNCHANGED daemonVars
    BY <1>5 DEF daemonVars
  <1> QED
    BY <1>1, <1>2, <1>3, <1>4, <1>5 DEF DaemonNext

-----------------------------------------------------------------------------
(* What the clients are told.                                              *)

\* Types that main's steps do not touch.
BusTyped ==
    /\ task \in Tasks
    /\ unseen \in BOOLEAN /\ lost \in BOOLEAN
    /\ prev \in States /\ told \in States
    /\ queue \in Seq(Methods)
    /\ called \in 0 .. MaxCalls

\* prev_state is what clients were told, unless a signal was lost, and the
\* state, unless the task has been or will be woken; a signal under way is news.
ToldIsPrev == task \in {"waiting", "woken"} => lost \/ told = prev
NewsUnderWay == task = "emitting" => lost \/ told # prev
PrevIsState == task \in {"waiting", "emitting"} => unseen \/ prev = dstate
NothingYet ==
    task = "spawned" => dstate = "disconnected" /\ told = "disconnected" /\ ~unseen

SignalInv == ToldIsPrev /\ NewsUnderWay /\ PrevIsState /\ NothingYet
BusInv == MainInv /\ BusTyped /\ SignalInv

LEMMA StateTyped == ASSUME MainInv PROVE dstate \in States
  BY DEF MainInv, BaseInv, SupTypeOK, States

LEMMA BusInit == ASSUME DaemonInit PROVE BusInv
  <1>1. MainInv
    BY MainInit DEF DaemonInit
  <1>2. queue \in Seq(Methods) /\ called \in 0 .. MaxCalls
    BY MethodsAssumption DEF DaemonInit
  <1>3. unseen \in BOOLEAN /\ lost \in BOOLEAN
    BY DEF DaemonInit
  <1>4. task \in Tasks /\ prev \in States /\ told \in States
    BY DEF DaemonInit, Tasks, States
  <1>5. SignalInv
    BY DEF DaemonInit, SignalInv, ToldIsPrev, NewsUnderWay, PrevIsState, NothingYet
  <1> QED
    BY <1>1, <1>2, <1>3, <1>4, <1>5 DEF BusInv, BusTyped

LEMMA NewBusTyped == ASSUME BusTyped, NewBus, task' \in Tasks PROVE BusTyped'
  <1>1. queue' \in Seq(Methods) /\ called' \in 0 .. MaxCalls
    BY DEF NewBus, BusTyped
  <1>2. unseen' \in BOOLEAN /\ lost' \in BOOLEAN
    BY DEF NewBus
  <1>3. prev' \in States /\ told' \in States
    BY DEF NewBus, States
  <1> QED
    BY <1>1, <1>2, <1>3 DEF BusTyped

\* main serves D-Bus before it has published anything.
LEMMA ServeIsSilent ==
    ASSUME MainInv, Next, first, ~first' PROVE dstate' = "disconnected"
  <1> USE DEF MainInv, ServedFirst
  <1>1. CASE AcquireFails \/ GetCapsRefused \/ TeardownLocked
    BY <1>1 DEF AcquireFails, GetCapsRefused, TeardownLocked, LockedOut
  <1>2. CASE Find \/ FindFails \/ FindAgain \/ CheckConnected \/ SubscribeEvents \/ PollConnected
    BY <1>2 DEF Find, FindFails, FindAgain, CheckConnected, SubscribeEvents, PollConnected
  <1>3. CASE Resolve \/ ResolveAgain \/ Handshake \/ Serve
    BY <1>3 DEF Resolve, ResolveAgain, Handshake, Serve
  <1>4. CASE Acquire \/ CapsResp \/ NegotiationFails \/ Retry \/ CreateProtocol
    BY <1>4 DEF Acquire, CapsResp, NegotiationFails, Retry, CreateProtocol
  <1>5. CASE SessionRuns \/ SessionEnds \/ Teardown \/ CtrlC
    BY <1>5 DEF SessionRuns, SessionEnds, Teardown, CtrlC
  <1>6. CASE \E d \in Devices : LinkUp(d) \/ LinkDown(d) \/ OtherDaemon(d)
    BY <1>6 DEF LinkUp, LinkDown, OtherDaemon, main
  <1> QED
    BY <1>1, <1>2, <1>3, <1>4, <1>5, <1>6 DEF Next, Main

LEMMA BusTypedStep ==
    ASSUME MainInv, BusTyped, [DaemonNext]_daemonVars PROVE BusTyped'
  <1>0. dstate \in States
    BY StateTyped
  <1>1. CASE Next /\ Bus
    <2>1. CASE ServesBus \/ DropsBus
      BY <2>1, NewBusTyped DEF ServesBus, DropsBus, Tasks
    <2>2. CASE Publishes
      BY <2>2 DEF BusTyped, Publishes
    <2> QED
      BY <1>1, <2>1, <2>2 DEF Bus
  <1>2. CASE SignalTask
    BY <1>0, <1>2 DEF SignalTask, TaskStarts, TaskWakes, TaskReads, TaskEmits, TaskStep,
                      BusTyped, Tasks
  <1>3. CASE Call
    <2>1. called' \in 0 .. MaxCalls
      BY <1>3, MethodsAssumption DEF Call, BusTyped
    <2>2. queue' \in Seq(Methods)
      BY <1>3 DEF Call, BusTyped
    <2> QED
      BY <1>3, <2>1, <2>2 DEF Call, BusTyped
  <1>4. CASE TakesCommand
    <2>1. queue' \in Seq(Methods)
      BY <1>4 DEF TakesCommand, CarriesOut, BusTyped
    <2> QED
      BY <1>4, <2>1 DEF TakesCommand, CarriesOut, BusTyped
  <1>5. CASE UNCHANGED daemonVars
    BY <1>5 DEF daemonVars, busVars, BusTyped
  <1> QED
    BY <1>1, <1>2, <1>3, <1>4, <1>5 DEF DaemonNext

LEMMA BusStep ==
    ASSUME "spawn" \notin Races, BusInv, [DaemonNext]_daemonVars PROVE BusInv'
  <1> USE DEF SignalInv, ToldIsPrev, NewsUnderWay, PrevIsState, NothingYet
  <1>0. MainInv' /\ dstate \in States /\ dstate' \in States
    BY StepOfMain, MainStep, StateTyped DEF BusInv, MainInv, BaseInv, SupTypeOK, States
  <1>1. BusTyped'
    BY BusTypedStep DEF BusInv
  <1>2. CASE Next /\ Bus
    <2>1. CASE first /\ ~first' /\ ServesBus
      <3>1. dstate' = "disconnected"
        BY <1>2, <2>1, ServeIsSilent DEF BusInv
      <3> QED
        BY <1>0, <1>1, <2>1, <3>1 DEF BusInv, ServesBus, NewBus
    <2>2. CASE ~first /\ first' /\ DropsBus
      BY <1>0, <1>1, <2>2 DEF BusInv, DropsBus
    <2>3. CASE first' = first /\ Publishes
      <3>1. CASE dstate' = dstate /\ ~Answered /\ UNCHANGED unseen
        BY <1>0, <1>1, <2>3, <3>1 DEF BusInv, BusTyped, Publishes
      <3>2. CASE Prompt /\ unseen' = (task # "none")
        <4>1. task # "spawned" /\ UNCHANGED <<task, prev, told, lost>>
          BY <2>3, <3>2 DEF Publishes, Prompt
        <4>2. task # "none" => unseen'
          BY <3>2
        <4> QED
          BY <1>0, <1>1, <4>1, <4>2 DEF BusInv
      <3> QED
        BY <2>3, <3>1, <3>2 DEF Publishes
    <2> QED
      BY <1>2, <2>1, <2>2, <2>3 DEF Bus
  <1>3. CASE SignalTask
    <2> USE <1>0, <1>1 DEF BusInv, BusTyped, TaskStep, Tasks, vars, main
    <2>1. CASE TaskStarts BY <2>1 DEF TaskStarts
    <2>2. CASE TaskWakes BY <2>2 DEF TaskWakes
    <2>3. CASE TaskReads BY <2>3 DEF TaskReads
    <2>4. CASE TaskEmits BY <2>4 DEF TaskEmits
    <2> QED
      BY <1>3, <2>1, <2>2, <2>3, <2>4 DEF SignalTask
  <1>4. CASE Call
    BY <1>0, <1>1, <1>4 DEF Call, BusInv, BusTyped, vars, main
  <1>5. CASE TakesCommand
    <2>1. task # "spawned"
      BY <1>5 DEF TakesCommand, CarriesOut, BusInv, MainInv, Published, MicStates
    <2> QED
      BY <1>0, <1>1, <1>5, <2>1 DEF TakesCommand, CarriesOut, BusInv, BusTyped
  <1>6. CASE UNCHANGED daemonVars
    BY <1>0, <1>1, <1>6 DEF daemonVars, busVars, BusInv, BusTyped, vars, main
  <1> QED
    BY <1>2, <1>3, <1>4, <1>5, <1>6 DEF DaemonNext

\* The daemon and its D-Bus service are typed, for every bound.
THEOREM BusTypeCorrect == DaemonSpec => []BusTypeOK
  <1>1. DaemonInit => MainInv /\ BusTyped
    BY MainInit, BusInit DEF BusInv
  <1>2. MainInv /\ BusTyped /\ [DaemonNext]_daemonVars => (MainInv /\ BusTyped)'
    BY StepOfMain, MainStep, BusTypedStep
  <1>3. MainInv /\ BusTyped => BusTypeOK
    BY DEF BusTyped, MainInv, BaseInv, BusTypeOK
  <1> QED
    BY <1>1, <1>2, <1>3, PTL DEF DaemonSpec

\* When the signal task rests, clients know the state, unless the last signal
\* could not be sent (dbus.rs:127-152).
THEOREM SignalsCurrentCorrect ==
    ASSUME "spawn" \notin Races PROVE DaemonSpec => []SignalsAreCurrent
  <1>1. DaemonInit => BusInv
    BY BusInit
  <1>2. BusInv /\ [DaemonNext]_daemonVars => BusInv'
    BY BusStep
  <1>3. BusInv => SignalsAreCurrent
    BY DEF BusInv, SignalInv, ToldIsPrev, PrevIsState, SignalsAreCurrent
  <1> QED
    BY <1>1, <1>2, <1>3, PTL DEF DaemonSpec

\* No signal repeats what clients know already (dbus.rs:124-131).
THEOREM SignalsNewsCorrect ==
    ASSUME "spawn" \notin Races PROVE DaemonSpec => SignalsAreNews
  <1> DEFINE News == task = "emitting" /\ task' = "waiting" /\ ~lost /\ ~lost' => told' # told
  <1>1. DaemonInit => BusInv
    BY BusInit
  <1>2. BusInv /\ [DaemonNext]_daemonVars => BusInv'
    BY BusStep
  <1>3. ASSUME BusInv, DaemonNext PROVE News
    <2>1. CASE Next /\ Bus
      BY <2>1 DEF Bus, ServesBus, DropsBus, NewBus, Publishes
    <2>2. CASE SignalTask
      BY <1>3, <2>2 DEF SignalTask, TaskStarts, TaskWakes, TaskReads, TaskEmits,
                        BusInv, SignalInv, NewsUnderWay
    <2>3. CASE Call \/ TakesCommand
      BY <2>3 DEF Call, TakesCommand, CarriesOut
    <2> QED
      BY <1>3, <2>1, <2>2, <2>3 DEF DaemonNext
  <1>4. BusInv /\ [DaemonNext]_daemonVars => [News]_daemonVars
    BY <1>3
  <1> QED
    BY <1>1, <1>2, <1>4, PTL DEF DaemonSpec, SignalsAreNews
=============================================================================
