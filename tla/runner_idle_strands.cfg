\* A job submitted while an idled-out runner disconnects.
SPECIFICATION Spec
CONSTANTS
  STEER_WAKE = STEER_WAKE
  SHUTDOWN = SHUTDOWN
  MaxJobs = 2
  MaxStops = 1
  MaxSteerInterrupts = 1
  IdleTimeout = TRUE
  PromptTimeout = TRUE
  StoreMayFail = FALSE
  ConnectMayFail = FALSE
  Ceiling = 0
  OnExhaustion = "pause"
  TurnCosts <- Costs
  InitialSpend <- Fresh
INVARIANTS
  NoStrandedCallerEver
