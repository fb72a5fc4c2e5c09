\* Progress of a runner that every exit of which is a stop, here also the
\* terminal stop of an exhausted budget.
SPECIFICATION FairSpec
CONSTANTS
  STEER_WAKE = STEER_WAKE
  SHUTDOWN = SHUTDOWN
  MaxJobs = 2
  MaxStops = 1
  MaxSteerInterrupts = 1
  IdleTimeout = FALSE
  PromptTimeout = TRUE
  StoreMayFail = FALSE
  ConnectMayFail = FALSE
  Ceiling = 1
  OnExhaustion = "stop"
  TurnCosts <- Costs
  InitialSpend <- Ledgers
PROPERTIES
  EveryCallerAnswered
  StopTerminates
  SteerIsServed
  ServesCallers
