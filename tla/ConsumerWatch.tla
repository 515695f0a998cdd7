---------------------------- MODULE ConsumerWatch ----------------------------
(***************************************************************************)
(* How the PipeWire thread counts the clients of the microphone and tells  *)
(* the session (src/src/pw.rs:231-411, --mic-on-demand).  The thread       *)
(* listens to the registry: nodes and links come and go, and some time     *)
(* after a node has come its info says whether it is a monitor, such as a  *)
(* level meter.  A link to a monitor does not count.                       *)
(*                                                                         *)
(* PipeWire is external.  It reports our node's id before any link to it,  *)
(* removes the links of a node before the node, and reuses ids.            *)
(***************************************************************************)
EXTENDS Naturals, Sequences, FiniteSets

CONSTANTS
    Nodes,      \* ids of other nodes
    LinkIds,    \* ids of links to our node
    NoNode,     \* the absence of a node
    ChanCap     \* capacity of the channel to the session (main.rs:412)

ASSUME NodesAssumption == NoNode \notin Nodes
ASSUME LinkIdsAssumption == IsFiniteSet(LinkIds)
ASSUME ChanCapAssumption == ChanCap \in Nat \ {0}

VARIABLES
    kind,           \* kind[n]: what node n of PipeWire is
    ourLinks,       \* our_links: the node at the other end of each link
    nodeIsMonitor,  \* node_is_monitor; "vacant" before the first info
    lastCount,      \* last_count
    chan,           \* counts on their way to the session
    seen,           \* the count the session acts on
    missed          \* history: the last count that was sent was dropped

vars == <<kind, ourLinks, nodeIsMonitor, lastCount, chan, seen, missed>>

WatchTypeOK ==
    /\ kind \in [Nodes -> {"absent", "consumer", "monitor"}]
    /\ ourLinks \in [LinkIds -> Nodes \cup {NoNode}]
    /\ nodeIsMonitor \in [Nodes -> {"vacant", "no", "yes"}]
    /\ lastCount \in Nat
    /\ chan \in Seq(Nat) /\ Len(chan) <= ChanCap
    /\ seen \in Nat
    /\ missed \in BOOLEAN

Init ==
    /\ kind = [n \in Nodes |-> "absent"]
    /\ ourLinks = [l \in LinkIds |-> NoNode]
    /\ nodeIsMonitor = [n \in Nodes |-> "vacant"]
    /\ lastCount = 0 /\ chan = <<>> /\ seen = 0
    /\ missed = FALSE

\* The links that count.  A node without info counts as a client.
Counted(links, monitors) ==
    {l \in LinkIds : links[l] \in Nodes /\ monitors[links[l]] # "yes"}

\* Mutant: sends without asking for room.
RecountUnbounded(links, monitors) ==
    LET count == Cardinality(Counted(links, monitors))
    IN  /\ ourLinks' = links /\ nodeIsMonitor' = monitors
        /\ lastCount' = count
        /\ chan' = IF count # lastCount THEN Append(chan, count) ELSE chan
        /\ missed' = FALSE

\* The maps have changed; recount tells the session if the count has, too.
\* try_send drops what the channel has no room for, but last_count is set.
Recount(links, monitors) ==
    LET count == Cardinality(Counted(links, monitors))
    IN  /\ ourLinks' = links /\ nodeIsMonitor' = monitors
        /\ lastCount' = count
        /\ IF count = lastCount
             THEN UNCHANGED <<chan, missed>>
             ELSE /\ chan' = IF Len(chan) < ChanCap THEN Append(chan, count) ELSE chan
                  /\ missed' = (Len(chan) = ChanCap)

-----------------------------------------------------------------------------
(* The registry's events.                                                  *)

\* A node; its proxy is bound and will report its info.
NodeAdded(n) ==
    /\ kind[n] = "absent"
    /\ \E k \in {"consumer", "monitor"} : kind' = [kind EXCEPT ![n] = k]
    /\ UNCHANGED <<ourLinks, nodeIsMonitor, lastCount, chan, seen, missed>>

Infos(n) == IF kind[n] = "monitor" THEN BOOLEAN ELSE {FALSE}

\* A node's info.  stream.monitor flickers, so that a monitor may look like a
\* client; once it has been seen to be a monitor it stays one.
NodeInfo(n) ==
    /\ kind[n] # "absent"
    /\ \E isMonitor \in Infos(n) :
         \/ /\ isMonitor /\ nodeIsMonitor[n] # "yes"
            /\ Recount(ourLinks, [nodeIsMonitor EXCEPT ![n] = "yes"])
         \/ /\ ~isMonitor /\ nodeIsMonitor[n] = "vacant"
            /\ Recount(ourLinks, [nodeIsMonitor EXCEPT ![n] = "no"])
    /\ UNCHANGED <<kind, seen>>

LinkAdded(l, n) ==
    /\ ourLinks[l] = NoNode /\ kind[n] # "absent"
    /\ Recount([ourLinks EXCEPT ![l] = n], nodeIsMonitor)
    /\ UNCHANGED <<kind, seen>>

LinkRemoved(l) ==
    /\ ourLinks[l] # NoNode
    /\ Recount([ourLinks EXCEPT ![l] = NoNode], nodeIsMonitor)
    /\ UNCHANGED <<kind, seen>>

Unlinked(n) == \A l \in LinkIds : ourLinks[l] # n

\* Mutant: forgets the proxy and keeps what it knows of the node.
NodeRemovedKeepsInfo(n) ==
    /\ kind[n] # "absent" /\ Unlinked(n)
    /\ kind' = [kind EXCEPT ![n] = "absent"]
    /\ UNCHANGED <<ourLinks, nodeIsMonitor, lastCount, chan, seen, missed>>

NodeRemoved(n) ==
    /\ kind[n] # "absent" /\ Unlinked(n)
    /\ kind' = [kind EXCEPT ![n] = "absent"]
    /\ IF nodeIsMonitor[n] = "vacant"
         THEN UNCHANGED <<ourLinks, nodeIsMonitor, lastCount, chan, missed>>
         ELSE Recount(ourLinks, [nodeIsMonitor EXCEPT ![n] = "vacant"])
    /\ UNCHANGED seen

\* The session takes a count, unless it is busy for a while.
SessionTakes ==
    /\ chan # <<>>
    /\ seen' = Head(chan)
    /\ chan' = Tail(chan)
    /\ UNCHANGED <<kind, ourLinks, nodeIsMonitor, lastCount, missed>>

-----------------------------------------------------------------------------
Next ==
    \/ \E n \in Nodes :
         \/ NodeAdded(n) \/ NodeInfo(n) \/ NodeRemoved(n)
         \/ \E l \in LinkIds : LinkAdded(l, n)
    \/ \E l \in LinkIds : LinkRemoved(l)
    \/ SessionTakes

Spec == Init /\ [][Next]_vars

-----------------------------------------------------------------------------
(* Properties.                                                             *)

\* Clients in truth.
ClientLinks == {l \in LinkIds : ourLinks[l] # NoNode /\ kind[ourLinks[l]] = "consumer"}

\* The session has taken every count, and every monitor that is linked to us
\* has been found out.
Quiet ==
    /\ chan = <<>>
    /\ \A l \in LinkIds : ourLinks[l] # NoNode =>
         (kind[ourLinks[l]] = "monitor" => nodeIsMonitor[ourLinks[l]] = "yes")

\* Once all is quiet the session knows how many clients there are, whatever
\* came and went before, in whatever order, under whatever reused ids, unless
\* the last count was dropped.
SessionKnowsClients == Quiet /\ ~missed => seen = Cardinality(ClientLinks)
=============================================================================
