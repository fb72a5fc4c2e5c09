\* Jobs queued behind the one that exhausted the budget.
SPECIFICATION Spec
CONSTANTS
  STEER_WAKE = STEER_WAKE
  SHUTDOWN = SHUTDOWN
  MaxJobs = 2
  MaxStops = 1
  MaxSteerInterrupts = 1
  IdleTimeout = FALSE
  PromptTimeout = TRUE
  StoreMayFail = FALSE
  ConnectMayFail = FALSE
  Ceiling = 1
  OnExhaustion = "pause"
  TurnCosts <- Costly
  InitialSpend <- Fresh
PROPERTIES
  OvershootIsOneTurn
