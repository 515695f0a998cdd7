\* Two nodes that come as client or monitor and leave, two links.
CONSTANTS
    Nodes = {n1, n2}
    LinkIds = {l1, l2}
    NoNode = NoNode
    ChanCap = 2
    n1 = n1
    n2 = n2
    l1 = l1
    l2 = l2
SPECIFICATION Spec
INVARIANTS WatchTypeOK SessionKnowsClients
CHECK_DEADLOCK FALSE
