\* A cancelled turn that ends silently.
SPECIFICATION Spec
CONSTANTS
  STEER_WAKE = STEER_WAKE
  SHUTDOWN = SHUTDOWN
  MaxJobs = 2
  MaxStops = 1
  MaxSteerInterrupts = 1
  IdleTimeout = FALSE
  PromptTimeout = TRUE
  StoreMayFail = FALSE
  ConnectMayFail = FALSE
  Ceiling = 0
  OnExhaustion = "pause"
  TurnCosts <- Costs
  InitialSpend <- Fresh
PROPERTIES
  NoTurnAfterCancel
