----------------------------- MODULE MicControl -----------------------------
(***************************************************************************)
(* What run_session promises to the remote and to the readers of the state *)
(* property, without saying when or why anything happens: the microphone   *)
(* is off, asked for or on, and each change of it goes with one command or *)
(* with none.                                                              *)
(***************************************************************************)
CONSTANTS
    StreamIds,   \* the stream ids a remote may announce
    NoId,        \* no stream id
    OpenId,      \* the id of the stream a MIC_OPEN starts
    TellsId      \* TRUE if MIC_CLOSE and the keepalive carry the stream id

VARIABLES
    mic,    \* "connected" (off), "opening" (asked for) or "streaming" (on)
    id,     \* the stream that is on, NoId if none is
    cmd     \* <<c>> if the last step told the remote c, <<>> otherwise

vars == <<mic, id, cmd>>

Tell(op, sid) == cmd' = <<[op |-> op, sid |-> IF TellsId THEN sid ELSE NoId]>>
TellOpen == cmd' = <<[op |-> "MIC_OPEN", sid |-> NoId]>>
TellNothing == cmd' = <<>>

Init == mic = "connected" /\ id = NoId /\ cmd = <<>>

\* The microphone is asked for only while it is off.
Ask ==
    /\ mic = "connected"
    /\ mic' = "opening"
    /\ TellOpen
    /\ UNCHANGED id

\* The remote starts a stream, asked for or not.
Start(s) ==
    /\ mic' = "streaming"
    /\ id' = s
    /\ TellNothing

\* Closing names the stream that is on or, while one is asked for, the stream
\* that MIC_OPEN will start.  The remote may already have stopped by itself,
\* and then, or when the command is lost, nothing is told.
Close ==
    /\ mic # "connected"
    /\ mic' = "connected"
    /\ id' = NoId
    /\ Tell("MIC_CLOSE", IF mic = "streaming" THEN id ELSE OpenId) \/ TellNothing

\* Only a stream that is on is kept alive, under its own id.
Refresh ==
    /\ mic = "streaming"
    /\ IF TellsId THEN Tell("MIC_EXTEND", id) ELSE TellOpen
    /\ UNCHANGED <<mic, id>>

Rest == TellNothing /\ UNCHANGED <<mic, id>>

Next == Ask \/ (\E s \in StreamIds : Start(s)) \/ Close \/ Refresh \/ Rest

Spec == Init /\ [][Next]_vars
=============================================================================
