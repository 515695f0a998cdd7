--------------------------- MODULE SupervisorProofs ---------------------------
(***************************************************************************)
(* Theorems about Supervisor, for every set of remotes and any number of   *)
(* faults.  One has the premise that no link changes during a negotiation; *)
(* TLC refutes it without.                                                 *)
(***************************************************************************)
EXTENDS Supervisor, TLAPS

\* A device has been chosen in every state that uses one.
DevChosen == pc \notin {"find", "findWait", "done"} => dev \in Devices

BaseInv == SupTypeOK /\ DevChosen

\* The count of faults stays in its range, whichever way a step treats it.
LEMMA FaultTyped == ASSUME SupTypeOK, Fault \/ NoFault PROVE faults' \in 0 .. MaxFaults
  BY FaultsAssumption DEF SupTypeOK, Fault, NoFault

LEMMA LockedOutTyped ==
    ASSUME BaseInv, dev \in Devices, LockedOut, Fault \/ NoFault PROVE BaseInv'
  BY DevicesAssumption, FaultTyped
  DEF BaseInv, SupTypeOK, DevChosen, LockedOut, Calm, Goto,
      Interruptible, Uninterruptible

LEMMA BaseInit == ASSUME Init PROVE BaseInv
  <1>1. faults \in 0 .. MaxFaults
    BY FaultsAssumption DEF Init
  <1>2. first \in BOOLEAN /\ fresh \in BOOLEAN /\ shaken = "no" /\ alive \in BOOLEAN
        /\ micOn \in BOOLEAN /\ interrupted \in BOOLEAN
    BY DEF Init
  <1>3. DevChosen /\ pc \in Interruptible /\ link \in [Devices -> BOOLEAN]
    BY DEF Init, DevChosen, Interruptible
  <1>4. dev = NoDevice /\ excluded = {} /\ locked = {} /\ cause = "none"
        /\ dstate = "disconnected"
    BY DEF Init
  <1> QED
    BY <1>1, <1>2, <1>3, <1>4 DEF BaseInv, SupTypeOK

\* Where main is and what it keeps of its device.
PartsTyped ==
    /\ first \in BOOLEAN /\ fresh \in BOOLEAN /\ alive \in BOOLEAN /\ micOn \in BOOLEAN
    /\ shaken \in {"no", "failed", "done"}
    /\ dstate \in MicStates \cup {"disconnected"}
    /\ cause \in {"none", "interrupt", "name", "locked", "mistaken", "panic"}

\* What a step of main that stays with its device leaves to be shown.
LEMMA StaysTyped ==
    ASSUME BaseInv, dev \in Devices, Fault \/ NoFault, PartsTyped',
           pc' \in {"check", "subscribe", "await", "poll", "resolve", "resolveWait",
                    "handshake", "serve", "acquire", "getcaps", "retryWait", "create",
                    "session", "teardown", "failed", "refused", "done"},
           UNCHANGED <<dev, excluded, interrupted, link, locked>>
    PROVE  BaseInv'
  <1>1. faults' \in 0 .. MaxFaults
    BY FaultTyped DEF BaseInv
  <1>2. /\ pc' \in Interruptible \cup Uninterruptible \cup {"done"}
        /\ dev' \in Devices \cup {NoDevice} /\ excluded' \subseteq Devices
        /\ interrupted' \in BOOLEAN /\ link' \in [Devices -> BOOLEAN] /\ locked' \subseteq Devices
    BY DEF BaseInv, SupTypeOK, Interruptible, Uninterruptible
  <1>3. SupTypeOK'
    BY <1>1, <1>2 DEF SupTypeOK, PartsTyped
  <1>4. DevChosen'
    BY DEF DevChosen
  <1> QED
    BY <1>3, <1>4 DEF BaseInv

LEMMA StaysBefore ==
    ASSUME BaseInv
    PROVE  (pc \notin {"find", "findWait", "done"} => dev \in Devices) /\ PartsTyped
  BY DEF BaseInv, DevChosen, SupTypeOK, PartsTyped

\* Discovery and connection keep the types.
LEMMA ConnectTyped ==
    ASSUME BaseInv,
           \/ Find \/ FindFails \/ FindAgain \/ CheckConnected \/ SubscribeEvents
           \/ PollConnected \/ Resolve \/ ResolveAgain \/ Handshake \/ Serve
    PROVE  BaseInv'
  <1>0. (pc \notin {"find", "findWait", "done"} => dev \in Devices) /\ PartsTyped
    BY StaysBefore
  <1>1. CASE Resolve
    <2>1. dev \in Devices /\ (Fault \/ NoFault)
      BY <1>0, <1>1 DEF Resolve
    <2>2. pc' \in {"handshake", "resolveWait"} /\ UNCHANGED <<dev, excluded, interrupted, link, locked>>
      BY <1>1 DEF Resolve, Goto, Calm
    <2>3. PartsTyped'
      BY <1>0, <1>1 DEF Resolve, PartsTyped
    <2> QED
      BY <2>1, <2>2, <2>3, StaysTyped
  <1>2. CASE ResolveAgain
    <2>1. dev \in Devices /\ (Fault \/ NoFault)
      BY <1>0, <1>2 DEF ResolveAgain
    <2>2. pc' \in {"resolve"} /\ UNCHANGED <<dev, excluded, interrupted, link, locked>>
      BY <1>2 DEF ResolveAgain, Goto, Calm
    <2>3. PartsTyped'
      BY <1>0, <1>2 DEF ResolveAgain, PartsTyped
    <2> QED
      BY <2>1, <2>2, <2>3, StaysTyped
  <1>3. CASE Handshake
    <2>1. dev \in Devices /\ (Fault \/ NoFault)
      BY <1>0, <1>3 DEF Handshake
    <2>2. pc' \in {"serve", "acquire"} /\ UNCHANGED <<dev, excluded, interrupted, link, locked>>
      BY <1>3 DEF Handshake, Goto, Calm
    <2>3. PartsTyped'
      BY <1>0, <1>3 DEF Handshake, PartsTyped
    <2> QED
      BY <2>1, <2>2, <2>3, StaysTyped
  <1>4. CASE Serve
    <2>1. dev \in Devices /\ (Fault \/ NoFault)
      BY <1>0, <1>4 DEF Serve
    <2>2. pc' \in {"acquire", "done"} /\ UNCHANGED <<dev, excluded, interrupted, link, locked>>
      BY <1>4 DEF Serve, Goto, Calm
    <2>3. PartsTyped'
      BY <1>0, <1>4 DEF Serve, PartsTyped
    <2> QED
      BY <2>1, <2>2, <2>3, StaysTyped
  <1> USE FaultTyped, DevicesAssumption
      DEF BaseInv, SupTypeOK, DevChosen, Calm, Goto,
          Interruptible, Uninterruptible
  <1>5. CASE Find BY <1>5 DEF Find
  <1>6. CASE FindFails BY <1>6 DEF FindFails
  <1>7. CASE FindAgain BY <1>7 DEF FindAgain
  <1>8. CASE CheckConnected BY <1>8 DEF CheckConnected
  <1>9. CASE SubscribeEvents BY <1>9 DEF SubscribeEvents
  <1>10. CASE PollConnected BY <1>10 DEF PollConnected
  <1> QED
    BY <1>1, <1>2, <1>3, <1>4, <1>5, <1>6, <1>7, <1>8, <1>9, <1>10

\* Negotiation and the session keep the types.
LEMMA ServeTyped ==
    ASSUME BaseInv,
           \/ AcquireFails \/ GetCapsRefused \/ Acquire \/ CapsResp \/ NegotiationFails \/ Retry
           \/ CreateProtocol \/ SessionRuns \/ SessionEnds \/ Teardown \/ TeardownLocked
    PROVE  BaseInv'
  <1>0. (pc \notin {"find", "findWait", "done"} => dev \in Devices) /\ PartsTyped
    BY StaysBefore
  <1>1. CASE AcquireFails \/ GetCapsRefused \/ TeardownLocked
    BY <1>0, <1>1, LockedOutTyped DEF AcquireFails, GetCapsRefused, TeardownLocked, Refused
  <1>2. CASE NegotiationFails
    <2>1. dev \in Devices /\ (Fault \/ NoFault)
      BY <1>0, <1>2 DEF NegotiationFails
    <2>2. pc' \in {"retryWait"} /\ UNCHANGED <<dev, excluded, interrupted, link, locked>>
      BY <1>2 DEF NegotiationFails, Goto, Calm
    <2>3. PartsTyped'
      BY <1>0, <1>2 DEF NegotiationFails, PartsTyped
    <2> QED
      BY <2>1, <2>2, <2>3, StaysTyped
  <1>3. CASE CreateProtocol
    <2>1. dev \in Devices /\ (Fault \/ NoFault)
      BY <1>0, <1>3 DEF CreateProtocol
    <2>2. pc' \in {"acquire", "session"} /\ UNCHANGED <<dev, excluded, interrupted, link, locked>>
      BY <1>3 DEF CreateProtocol, Goto, Calm
    <2>3. PartsTyped'
      BY <1>0, <1>3 DEF CreateProtocol, PartsTyped
    <2> QED
      BY <2>1, <2>2, <2>3, StaysTyped
  <1>4. CASE SessionEnds
    <2>1. dev \in Devices /\ (Fault \/ NoFault)
      BY <1>0, <1>4 DEF SessionEnds, Refused
    <2>2. pc' \in {"teardown", "failed", "refused", "done"} /\ UNCHANGED <<dev, excluded, interrupted, link, locked>>
      BY <1>4 DEF SessionEnds, Goto, Calm
    <2>3. PartsTyped'
      BY <1>0, <1>4 DEF SessionEnds, PartsTyped
    <2> QED
      BY <2>1, <2>2, <2>3, StaysTyped
  <1> USE FaultTyped, DevicesAssumption
      DEF BaseInv, SupTypeOK, DevChosen, Calm, Goto,
          Interruptible, Uninterruptible, MicStates
  <1>5. CASE Acquire BY <1>5 DEF Acquire
  <1>6. CASE CapsResp BY <1>6 DEF CapsResp
  <1>7. CASE Retry BY <1>7 DEF Retry
  <1>8. CASE SessionRuns BY <1>8 DEF SessionRuns
  <1>9. CASE Teardown BY <1>9 DEF Teardown
  <1> QED
    BY <1>1, <1>2, <1>3, <1>4, <1>5, <1>6, <1>7, <1>8, <1>9

LEMMA WorldTyped ==
    ASSUME BaseInv,
           CtrlC \/ \E d \in Devices : LinkUp(d) \/ LinkDown(d) \/ OtherDaemon(d)
    PROVE  BaseInv'
  <1> USE DEF BaseInv, SupTypeOK, DevChosen, Interruptible, Uninterruptible
  <1>1. CASE CtrlC BY <1>1 DEF CtrlC, Goto, NoFault
  <1>2. ASSUME NEW d \in Devices, LinkUp(d) PROVE BaseInv'
    BY <1>2 DEF LinkUp
  <1>3. ASSUME NEW d \in Devices, LinkDown(d) PROVE BaseInv'
    <2>1. link' \in [Devices -> BOOLEAN]
      BY <1>3 DEF LinkDown
    <2>2. fresh' \in BOOLEAN /\ shaken' \in {"no", "failed", "done"} /\ alive' \in BOOLEAN /\ micOn' \in BOOLEAN
      BY <1>3, Zenon DEF LinkDown
    <2> QED
      BY <1>3, <2>1, <2>2 DEF LinkDown
  <1>4. ASSUME NEW d \in Devices, OtherDaemon(d) PROVE BaseInv'
    BY <1>4 DEF OtherDaemon, main
  <1> QED
    BY <1>1, <1>2, <1>3, <1>4

LEMMA BaseStep == ASSUME BaseInv, [Next]_vars PROVE BaseInv'
  <1>1. CASE Next
    BY <1>1, ConnectTyped, ServeTyped, WorldTyped DEF Next, Main
  <1>2. CASE UNCHANGED vars
    BY <1>2 DEF vars, main, world, BaseInv, SupTypeOK, DevChosen
  <1> QED
    BY <1>1, <1>2

\* Every reachable state is typed, and a device has been chosen wherever main
\* uses one (main.rs:233-249 decides it, :377 goes back to deciding).
THEOREM SupTypeCorrect == Spec => [](SupTypeOK /\ DevChosen)
  <1>1. Init => BaseInv
    BY BaseInit
  <1>2. BaseInv /\ [Next]_vars => BaseInv'
    BY BaseStep
  <1> QED
    BY <1>1, <1>2, PTL DEF Spec, BaseInv

-----------------------------------------------------------------------------
(* Freshness of the handles.                                               *)

\* While main negotiates, it holds characteristics of the connection there is,
\* and has tried the vendor handshake on it.
NegotiatesFresh ==
    Negotiating => /\ fresh /\ link[dev]
                   /\ pc # "handshake" => shaken # "no"

\* Streams live in the states that own them, and rest on fresh handles.
StreamsFresh ==
    alive => fresh /\ shaken # "no" /\ pc \in {"getcaps", "create", "session", "done"}

FreshInv == BaseInv /\ NegotiatesFresh /\ StreamsFresh

LEMMA FreshInit == ASSUME Init PROVE FreshInv
  BY BaseInit DEF Init, FreshInv, NegotiatesFresh, StreamsFresh, Negotiating

LEMMA MainFresh ==
    ASSUME FreshInv, Main \/ SessionRuns
    PROVE  NegotiatesFresh' /\ StreamsFresh'
  <1> USE DEF FreshInv, NegotiatesFresh, StreamsFresh, Negotiating, Goto, Calm
  <1>1. CASE AcquireFails \/ GetCapsRefused \/ TeardownLocked
    BY <1>1 DEF AcquireFails, GetCapsRefused, TeardownLocked, LockedOut
  <1>2. CASE Find \/ FindFails \/ FindAgain
    BY <1>2 DEF Find, FindFails, FindAgain
  <1>3. CASE CheckConnected \/ SubscribeEvents \/ PollConnected
    BY <1>3 DEF CheckConnected, SubscribeEvents, PollConnected
  <1>4. CASE Resolve \/ ResolveAgain
    BY <1>4 DEF Resolve, ResolveAgain
  <1>5. CASE Handshake \/ Serve
    BY <1>5 DEF Handshake, Serve
  <1>6. CASE Acquire \/ CapsResp \/ NegotiationFails \/ Retry \/ CreateProtocol
    BY <1>6 DEF Acquire, CapsResp, NegotiationFails, Retry, CreateProtocol
  <1>7. CASE SessionRuns \/ SessionEnds \/ Teardown
    BY <1>7 DEF SessionRuns, SessionEnds, Teardown
  <1> QED
    BY <1>1, <1>2, <1>3, <1>4, <1>5, <1>6, <1>7 DEF Main

LEMMA WorldFresh ==
    ASSUME FreshInv, "negotiation" \notin Races,
           CtrlC \/ \E d \in Devices : LinkUp(d) \/ LinkDown(d) \/ OtherDaemon(d)
    PROVE  NegotiatesFresh' /\ StreamsFresh'
  <1> USE DEF FreshInv, NegotiatesFresh, StreamsFresh, Negotiating
  <1>1. CASE CtrlC
    BY <1>1 DEF CtrlC, Goto
  <1>2. ASSUME NEW d \in Devices, LinkUp(d)
        PROVE  NegotiatesFresh' /\ StreamsFresh'
    BY <1>2 DEF LinkUp, BaseInv, SupTypeOK
  <1>3. ASSUME NEW d \in Devices, LinkDown(d)
        PROVE  NegotiatesFresh' /\ StreamsFresh'
    <2>1. Negotiating => d # dev
      BY <1>3 DEF LinkDown, MayChange
    <2>2. CASE d = dev
      BY <1>3, <2>1, <2>2 DEF LinkDown
    <2>3. CASE d # dev
      BY <1>3, <2>3 DEF LinkDown, BaseInv, SupTypeOK
    <2> QED
      BY <2>2, <2>3
  <1>4. ASSUME NEW d \in Devices, OtherDaemon(d)
        PROVE  NegotiatesFresh' /\ StreamsFresh'
    BY <1>4 DEF OtherDaemon, main
  <1> QED
    BY <1>1, <1>2, <1>3, <1>4

LEMMA FreshStep ==
    ASSUME "negotiation" \notin Races, FreshInv, [Next]_vars PROVE FreshInv'
  <1>1. BaseInv'
    BY BaseStep DEF FreshInv
  <1>2. CASE Next
    BY <1>1, <1>2, MainFresh, WorldFresh DEF Next, FreshInv
  <1>3. CASE UNCHANGED vars
    BY <1>1, <1>3
    DEF vars, main, world, FreshInv, NegotiatesFresh, StreamsFresh, Negotiating
  <1> QED
    BY <1>2, <1>3

\* If no link changes during a negotiation, sessions run on characteristics of
\* their own connection, on which the vendor handshake has been tried
\* (main.rs:260-292 and :523-552), whatever fails.
THEOREM HandlesFreshUnlessRace ==
    ASSUME "negotiation" \notin Races PROVE Spec => []HandlesAreFresh
  <1>1. Init => FreshInv
    BY FreshInit
  <1>2. FreshInv /\ [Next]_vars => FreshInv'
    BY FreshStep
  <1>3. FreshInv => HandlesAreFresh
    BY DEF FreshInv, StreamsFresh, HandlesAreFresh
  <1> QED
    BY <1>1, <1>2, <1>3, PTL DEF Spec

-----------------------------------------------------------------------------
(* The State property.                                                     *)

\* While main looks for a device it has none.
Undecided == pc \in {"find", "findWait"} => dev = NoDevice

StateInv == StateIsTrue /\ Undecided

LEMMA StateStep == ASSUME StateInv, [Next]_vars PROVE StateInv'
  <1> USE DevicesAssumption DEF StateInv, StateIsTrue, Undecided, Goto, Calm
  <1>1. CASE AcquireFails \/ GetCapsRefused \/ TeardownLocked
    BY <1>1 DEF AcquireFails, GetCapsRefused, TeardownLocked, LockedOut
  <1>2. CASE Find \/ FindFails \/ FindAgain
    BY <1>2 DEF Find, FindFails, FindAgain
  <1>3. CASE CheckConnected \/ SubscribeEvents \/ PollConnected
    BY <1>3 DEF CheckConnected, SubscribeEvents, PollConnected
  <1>4. CASE Resolve \/ ResolveAgain \/ Handshake \/ Serve
    BY <1>4 DEF Resolve, ResolveAgain, Handshake, Serve
  <1>5. CASE Acquire \/ CapsResp \/ NegotiationFails \/ Retry \/ CreateProtocol
    BY <1>5 DEF Acquire, CapsResp, NegotiationFails, Retry, CreateProtocol
  <1>6. CASE SessionRuns \/ SessionEnds \/ Teardown
    BY <1>6 DEF SessionRuns, SessionEnds, Teardown
  <1>7. CASE CtrlC
    BY <1>7 DEF CtrlC
  <1>8. CASE \E d \in Devices : LinkUp(d) \/ LinkDown(d) \/ OtherDaemon(d)
    BY <1>8 DEF LinkUp, LinkDown, OtherDaemon, main
  <1>9. CASE UNCHANGED vars
    BY <1>9 DEF vars, main
  <1> QED
    BY <1>1, <1>2, <1>3, <1>4, <1>5, <1>6, <1>7, <1>8, <1>9 DEF Next, Main

\* The State property says something other than "disconnected" only around a
\* session, or for a remote that shares no codec with us (main.rs:394 and :507).
THEOREM StateCorrect == Spec => []StateIsTrue
  <1>1. Init => StateInv
    BY DEF Init, StateInv, StateIsTrue, Undecided
  <1>2. StateInv /\ [Next]_vars => StateInv'
    BY StateStep
  <1>3. StateInv => StateIsTrue
    BY DEF StateInv
  <1> QED
    BY <1>1, <1>2, <1>3, PTL DEF Spec
=============================================================================
