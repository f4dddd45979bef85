SPECIFICATION FairSpec
CONSTANTS
  g = g
  d = d
  l1 = l1
  l2 = l2
  r1 = r1
  Nodes <- GatewayAndNode
  Gateway = g
  Downstream = d
  Links <- TwoLinks
  Reqs <- OneReq
  MaxProbes = 2
CHECK_DEADLOCK FALSE
INVARIANT EntryFollowsLoop
PROPERTY Settles
