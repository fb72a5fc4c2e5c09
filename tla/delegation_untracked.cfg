\* A cancel that meets a call between two awaited futures.
SPECIFICATION Spec
CONSTANTS
  a1 = a1
  a2 = a2
  a3 = a3
  Agents = {a1, a2, a3}
  Idle = Idle
  Root = Root
  Gone = Gone
  MaxCalls = 2
  MAX_DELEGATION_DEPTH = 8
  MAX_INFLIGHT_BUS_CALLS = 256
  Trusted <- Trust
  Gated <- Approvals
  RedispatchThreshold = 2
  Credits <- One
  CallsTimeOut = FALSE
  OperatorCancels = TRUE
  Prompted = {a1, a3}
  Stoppable = {}
INVARIANTS
  NoCircularWait
