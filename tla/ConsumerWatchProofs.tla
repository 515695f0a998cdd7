------------------------ MODULE ConsumerWatchProofs ------------------------
(***************************************************************************)
(* Theorems about ConsumerWatch, for every set of nodes, every finite set  *)
(* of link ids and every capacity of the channel.                          *)
(***************************************************************************)
EXTENDS ConsumerWatch, SequenceTheorems, FiniteSetTheorems, TLAPS

\* last_count is the number of links that count.
CountExact == lastCount = Cardinality(Counted(ourLinks, nodeIsMonitor))

\* What the session knows, or will know when it has taken every count.
LastWord == IF chan = <<>> THEN seen ELSE chan[Len(chan)]

\* It is last_count, unless the last count was dropped.
InStep == ~missed => LastWord = lastCount

\* Only monitors are taken for monitors, nothing is known of a node that is
\* gone, and no link leads to one.
KindsAgree ==
    /\ \A n \in Nodes : nodeIsMonitor[n] = "yes" => kind[n] = "monitor"
    /\ \A n \in Nodes : kind[n] = "absent" => nodeIsMonitor[n] = "vacant"
    /\ \A l \in LinkIds : ourLinks[l] # NoNode => kind[ourLinks[l]] # "absent"

WatchInv == WatchTypeOK /\ CountExact /\ InStep /\ KindsAgree

LEMMA CountedIsNat ==
    ASSUME NEW links, NEW monitors
    PROVE  Cardinality(Counted(links, monitors)) \in Nat
  <1>1. Counted(links, monitors) \subseteq LinkIds
    BY DEF Counted
  <1>2. IsFiniteSet(Counted(links, monitors))
    BY <1>1, LinkIdsAssumption, FS_Subset
  <1> QED
    BY <1>2, FS_CardinalityType

\* recount keeps all that concerns the channel, whatever the maps become.
LEMMA RecountStep ==
    ASSUME WatchInv,
           NEW links \in [LinkIds -> Nodes \cup {NoNode}],
           NEW monitors \in [Nodes -> {"vacant", "no", "yes"}],
           Recount(links, monitors), UNCHANGED seen,
           kind' \in [Nodes -> {"absent", "consumer", "monitor"}]
    PROVE  WatchTypeOK' /\ CountExact' /\ InStep'
  <1> DEFINE count == Cardinality(Counted(links, monitors))
  <1>1. count \in Nat
    BY CountedIsNat
  <1> HIDE DEF count
  <1>2. /\ ourLinks' = links /\ nodeIsMonitor' = monitors
        /\ lastCount' = count
    BY DEF Recount, count
  <1>3. CountExact'
    BY <1>2 DEF CountExact, count
  <1>4. CASE count = lastCount
    <2>1. UNCHANGED <<chan, missed>>
      BY <1>4 DEF Recount, count
    <2> QED
      BY <1>1, <1>2, <1>3, <1>4, <2>1 DEF WatchInv, WatchTypeOK, InStep, LastWord
  <1>5. CASE count # lastCount /\ Len(chan) < ChanCap
    <2>0. Len(chan) # ChanCap
      BY <1>5, ChanCapAssumption DEF WatchInv, WatchTypeOK
    <2>1. chan' = Append(chan, count) /\ ~missed' /\ missed' \in BOOLEAN
      BY <1>5, <2>0, Zenon DEF Recount, count
    <2>2. /\ chan' \in Seq(Nat) /\ Len(chan') = Len(chan) + 1
          /\ chan'[Len(chan')] = count /\ chan' # <<>>
      BY <1>1, <2>1 DEF WatchInv, WatchTypeOK
    <2>3. Len(chan') <= ChanCap
      BY <1>5, <2>2, ChanCapAssumption DEF WatchInv, WatchTypeOK
    <2> QED
      BY <1>1, <1>2, <1>3, <2>1, <2>2, <2>3
      DEF WatchInv, WatchTypeOK, InStep, LastWord
  <1>6. CASE count # lastCount /\ ~(Len(chan) < ChanCap)
    <2>1. chan' = chan /\ missed' = (Len(chan) = ChanCap)
      BY <1>6 DEF Recount, count
    <2>2. Len(chan) = ChanCap
      BY <1>6, ChanCapAssumption DEF WatchInv, WatchTypeOK
    <2> QED
      BY <1>1, <1>2, <1>3, <2>1, <2>2 DEF WatchInv, WatchTypeOK, InStep
  <1> QED
    BY <1>4, <1>5, <1>6

LEMMA WatchInit == ASSUME Init PROVE WatchInv
  <1>1. Counted(ourLinks, nodeIsMonitor) = {}
    BY NodesAssumption DEF Init, Counted
  <1>2. Cardinality({}) = 0
    BY FS_EmptySet
  <1>3. CountExact /\ InStep
    BY <1>1, <1>2 DEF Init, CountExact, InStep, LastWord
  <1>4. chan \in Seq(Nat) /\ Len(chan) <= ChanCap
    BY ChanCapAssumption DEF Init
  <1>5. WatchTypeOK /\ KindsAgree
    BY <1>4, NodesAssumption DEF Init, WatchTypeOK, KindsAgree
  <1> QED
    BY <1>3, <1>5 DEF WatchInv

LEMMA NodeAddedStep == ASSUME WatchInv, NEW n \in Nodes, NodeAdded(n) PROVE WatchInv'
  <1>1. kind' \in [Nodes -> {"absent", "consumer", "monitor"}]
    BY DEF NodeAdded, WatchInv, WatchTypeOK
  <1>2. KindsAgree'
    BY NodesAssumption DEF NodeAdded, WatchInv, WatchTypeOK, KindsAgree
  <1> QED
    BY <1>1, <1>2 DEF NodeAdded, WatchInv, WatchTypeOK, CountExact, InStep, LastWord

LEMMA NodeInfoStep == ASSUME WatchInv, NEW n \in Nodes, NodeInfo(n) PROVE WatchInv'
  <1>1. PICK info \in {"no", "yes"} :
          /\ Recount(ourLinks, [nodeIsMonitor EXCEPT ![n] = info])
          /\ info = "yes" => kind[n] = "monitor"
    BY DEF NodeInfo, Infos
  <1> DEFINE monitors == [nodeIsMonitor EXCEPT ![n] = info]
  <1>2. /\ monitors \in [Nodes -> {"vacant", "no", "yes"}]
        /\ ourLinks \in [LinkIds -> Nodes \cup {NoNode}]
    BY DEF WatchInv, WatchTypeOK
  <1>3. kind[n] # "absent" /\ UNCHANGED <<kind, seen>>
    BY DEF NodeInfo
  <1>4. WatchTypeOK' /\ CountExact' /\ InStep'
    BY <1>1, <1>2, <1>3, RecountStep DEF WatchInv, WatchTypeOK
  <1>5. ourLinks' = ourLinks /\ nodeIsMonitor' = monitors
    BY <1>1 DEF Recount
  <1>6. KindsAgree'
    BY <1>1, <1>3, <1>5 DEF WatchInv, WatchTypeOK, KindsAgree
  <1> QED
    BY <1>4, <1>6 DEF WatchInv

LEMMA LinkAddedStep ==
    ASSUME WatchInv, NEW l \in LinkIds, NEW n \in Nodes, LinkAdded(l, n) PROVE WatchInv'
  <1> DEFINE links == [ourLinks EXCEPT ![l] = n]
  <1>1. /\ links \in [LinkIds -> Nodes \cup {NoNode}]
        /\ nodeIsMonitor \in [Nodes -> {"vacant", "no", "yes"}]
    BY DEF WatchInv, WatchTypeOK
  <1>2. Recount(links, nodeIsMonitor) /\ UNCHANGED <<kind, seen>> /\ kind[n] # "absent"
    BY DEF LinkAdded
  <1>3. WatchTypeOK' /\ CountExact' /\ InStep'
    BY <1>1, <1>2, RecountStep DEF WatchInv, WatchTypeOK
  <1>4. ourLinks' = links /\ nodeIsMonitor' = nodeIsMonitor
    BY <1>2 DEF Recount
  <1>5. KindsAgree'
    BY <1>2, <1>4 DEF WatchInv, WatchTypeOK, KindsAgree
  <1> QED
    BY <1>3, <1>5 DEF WatchInv

LEMMA LinkRemovedStep == ASSUME WatchInv, NEW l \in LinkIds, LinkRemoved(l) PROVE WatchInv'
  <1> DEFINE links == [ourLinks EXCEPT ![l] = NoNode]
  <1>1. /\ links \in [LinkIds -> Nodes \cup {NoNode}]
        /\ nodeIsMonitor \in [Nodes -> {"vacant", "no", "yes"}]
    BY DEF WatchInv, WatchTypeOK
  <1>2. Recount(links, nodeIsMonitor) /\ UNCHANGED <<kind, seen>>
    BY DEF LinkRemoved
  <1>3. WatchTypeOK' /\ CountExact' /\ InStep'
    BY <1>1, <1>2, RecountStep DEF WatchInv, WatchTypeOK
  <1>4. ourLinks' = links /\ nodeIsMonitor' = nodeIsMonitor
    BY <1>2 DEF Recount
  <1>5. KindsAgree'
    BY <1>2, <1>4 DEF WatchInv, WatchTypeOK, KindsAgree
  <1> QED
    BY <1>3, <1>5 DEF WatchInv

LEMMA NodeRemovedStep == ASSUME WatchInv, NEW n \in Nodes, NodeRemoved(n) PROVE WatchInv'
  <1>1. /\ kind' = [kind EXCEPT ![n] = "absent"]
        /\ kind' \in [Nodes -> {"absent", "consumer", "monitor"}]
        /\ UNCHANGED seen /\ Unlinked(n)
    BY DEF NodeRemoved, WatchInv, WatchTypeOK
  <1>2. CASE nodeIsMonitor[n] = "vacant"
    <2>1. UNCHANGED <<ourLinks, nodeIsMonitor, lastCount, chan, missed>>
      BY <1>2 DEF NodeRemoved
    <2>2. KindsAgree'
      BY <1>1, <1>2, <2>1, NodesAssumption
      DEF WatchInv, WatchTypeOK, KindsAgree, Unlinked
    <2> QED
      BY <1>1, <2>1, <2>2 DEF WatchInv, WatchTypeOK, CountExact, InStep, LastWord
  <1>3. CASE nodeIsMonitor[n] # "vacant"
    <2> DEFINE monitors == [nodeIsMonitor EXCEPT ![n] = "vacant"]
    <2>1. /\ monitors \in [Nodes -> {"vacant", "no", "yes"}]
          /\ ourLinks \in [LinkIds -> Nodes \cup {NoNode}]
      BY DEF WatchInv, WatchTypeOK
    <2>2. Recount(ourLinks, monitors)
      BY <1>3 DEF NodeRemoved
    <2>3. WatchTypeOK' /\ CountExact' /\ InStep'
      BY <1>1, <2>1, <2>2, RecountStep
    <2>4. ourLinks' = ourLinks /\ nodeIsMonitor' = monitors
      BY <2>2 DEF Recount
    <2>5. KindsAgree'
      BY <1>1, <2>4, NodesAssumption DEF WatchInv, WatchTypeOK, KindsAgree, Unlinked
    <2> QED
      BY <2>3, <2>5 DEF WatchInv
  <1> QED
    BY <1>2, <1>3

LEMMA SessionTakesStep == ASSUME WatchInv, SessionTakes PROVE WatchInv'
  <1>1. /\ chan \in Seq(Nat) /\ chan # <<>> /\ Len(chan) <= ChanCap
        /\ seen' = Head(chan) /\ chan' = Tail(chan)
        /\ UNCHANGED <<kind, ourLinks, nodeIsMonitor, lastCount, missed>>
    BY DEF SessionTakes, WatchInv, WatchTypeOK
  <1>2. /\ chan' \in Seq(Nat) /\ Len(chan') = Len(chan) - 1
        /\ Len(chan) \in Nat /\ Len(chan) > 0 /\ seen' \in Nat
    BY <1>1
  <1>3. WatchTypeOK'
    BY <1>1, <1>2, ChanCapAssumption DEF WatchInv, WatchTypeOK
  <1>4. CASE Len(chan) = 1
    <2>1. chan' = <<>> /\ seen' = chan[Len(chan)]
      BY <1>1, <1>2, <1>4
    <2> QED
      BY <1>1, <1>3, <2>1 DEF WatchInv, CountExact, InStep, LastWord, KindsAgree
  <1>5. CASE Len(chan) > 1
    <2> DEFINE m == Len(Tail(chan))
    <2>1. /\ m = Len(chan) - 1
          /\ \A i \in 1 .. m : Tail(chan)[i] = chan[i + 1]
      BY <1>1, HeadTailProperties
    <2>2. m \in 1 .. m /\ m + 1 = Len(chan)
      BY <1>2, <1>5, <2>1
    <2>3. Tail(chan)[m] = chan[Len(chan)]
      <3> HIDE DEF m
      <3> QED BY <2>1, <2>2
    <2>4. chan' # <<>>
      BY <1>2, <1>5
    <2>5. chan'[Len(chan')] = chan[Len(chan)]
      BY <1>1, <2>3, Zenon
    <2> QED
      BY <1>1, <1>3, <2>4, <2>5 DEF WatchInv, CountExact, InStep, LastWord, KindsAgree
  <1> QED
    BY <1>2, <1>4, <1>5

LEMMA WatchStep == ASSUME WatchInv, [Next]_vars PROVE WatchInv'
  <1>1. CASE UNCHANGED vars
    BY <1>1 DEF vars, WatchInv, WatchTypeOK, CountExact, InStep, LastWord, KindsAgree
  <1>2. CASE Next
    BY <1>2, NodeAddedStep, NodeInfoStep, LinkAddedStep, LinkRemovedStep,
       NodeRemovedStep, SessionTakesStep
    DEF Next
  <1> QED
    BY <1>1, <1>2

LEMMA WatchInvariant == Spec => []WatchInv
  <1>1. Init => WatchInv
    BY WatchInit
  <1>2. WatchInv /\ [Next]_vars => WatchInv'
    BY WatchStep
  <1> QED
    BY <1>1, <1>2, PTL DEF Spec

\* Every reachable state is typed; in particular the channel never holds more
\* counts than its capacity (pw.rs:286).
THEOREM WatchTypeCorrect == Spec => []WatchTypeOK
  <1>1. WatchInv => WatchTypeOK
    BY DEF WatchInv
  <1> QED
    BY <1>1, WatchInvariant, PTL

\* Once all is quiet the session knows the number of clients, unless the last
\* count was dropped (pw.rs:270-292, :392-405).
THEOREM SessionKnowsClientsCorrect == Spec => []SessionKnowsClients
  <1>1. WatchInv => SessionKnowsClients
    <2> SUFFICES ASSUME WatchInv, Quiet, ~missed PROVE seen = Cardinality(ClientLinks)
      BY DEF SessionKnowsClients
    <2>1. Counted(ourLinks, nodeIsMonitor) = ClientLinks
      BY NodesAssumption
      DEF WatchInv, WatchTypeOK, KindsAgree, Quiet, Counted, ClientLinks
    <2> QED
      BY <2>1 DEF WatchInv, CountExact, InStep, LastWord, Quiet
  <1> QED
    BY <1>1, WatchInvariant, PTL
=============================================================================
