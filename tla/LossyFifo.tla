----------------------------- MODULE LossyFifo -----------------------------
(***************************************************************************)
(* What the audio path between the session and PipeWire promises: samples  *)
(* are handed out in order, none twice, and the only ones that are ever    *)
(* dropped are older than the newest Keep.  Frame n is the samples         *)
(* n * FrameLen + 1 .. (n + 1) * FrameLen.                                 *)
(***************************************************************************)
EXTENDS Naturals, Sequences

CONSTANTS FrameLen, Keep

VARIABLES
    sent,   \* frames put in
    queue,  \* samples on their way
    got,    \* the samples handed out last
    open    \* somebody takes them

fifoVars == <<sent, queue, got, open>>

SamplesOf(n) == [i \in 1 .. FrameLen |-> n * FrameLen + i]

Init == sent = 0 /\ queue = <<>> /\ got = <<>> /\ open = TRUE

Put ==
    /\ sent' = sent + 1
    /\ queue' = IF open THEN queue \o SamplesOf(sent) ELSE <<>>
    /\ UNCHANGED <<got, open>>

\* n samples are handed out, d older ones dropped.
Hand(d, n) ==
    /\ open
    /\ d > 0 => d + Keep <= Len(queue)
    /\ d + n <= Len(queue)
    /\ got' = SubSeq(queue, d + 1, d + n)
    /\ queue' = SubSeq(queue, d + n + 1, Len(queue))
    /\ UNCHANGED <<sent, open>>

Close == open' = FALSE /\ queue' = <<>> /\ UNCHANGED <<sent, got>>

Next == Put \/ Close \/ \E d, n \in 0 .. Len(queue) : Hand(d, n)

Spec == Init /\ [][Next]_fifoVars
=============================================================================
