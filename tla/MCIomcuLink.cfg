SPECIFICATION FairSpec
CONSTANTS
  t1 = t1
  t2 = t2
  none = none
  Threads = {t1, t2}
  NoThread = none
  Wrap = 2
  Depth = 1
  MaxRequests = 3
  MaxUnsolicited = 1
INVARIANT ArmedForHolder
INVARIANT OwnAnswer
PROPERTY CallReturns
PROPERTY RefinesRpc
