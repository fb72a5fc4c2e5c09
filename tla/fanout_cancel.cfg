SPECIFICATION FanoutSpec
CONSTANTS
  Kids = {e1, e2, e3}
  Concurrency = 2
  SharedHost = {e1, e2}
  HostCap = 1
  Trusted = {e1}
  SwarmMin = 2
  PolicyGated = {e2}
  Facts = {port}
  Threshold = 60
INVARIANT CancelledSwarmStays
CHECK_DEADLOCK FALSE
