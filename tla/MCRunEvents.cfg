\* Two runs that share a node id, two requests for one of them or one for each (see
\* TwiceOrBoth), one fault; two messages under way.
\* The two requests of one run are alike; no request takes a step in a behaviour of the
\* feed, the only ones that DisconnectReleases is about.
SPECIFICATION Spec
CONSTANTS
  r1 = r1
  r2 = r2
  q1 = q1
  q2 = q2
  q3 = q3
  n1 = n1
  n2 = n2
  i1 = i1
  NoRun = NoRun
  Runs <- TwoRuns
  Requests = {q1, q2, q3}
  RunOf <- ThreeCalls
  NodesOf <- NodeEach
  IdOf <- EqualNodes
  Steps = 1
  MaxFaults = 1
  MaxInbox = 2
INVARIANTS
  IInv
  NothingIsRetained
PROPERTIES
  PollIsCurrent
  EventsInOrder
  DisconnectReleases
CONSTRAINT TwiceOrBoth
SYMMETRY Twins
CHECK_DEADLOCK FALSE
