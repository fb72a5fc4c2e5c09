\* Callers, stop, steer and cancel on a runner that may idle out, lose its
\* store or its gateway, be cancelled, and be parked by its budget.
SPECIFICATION Spec
CONSTANTS
  STEER_WAKE = STEER_WAKE
  SHUTDOWN = SHUTDOWN
  MaxJobs = 3
  MaxStops = 1
  MaxSteerInterrupts = 1
  IdleTimeout = TRUE
  PromptTimeout = TRUE
  StoreMayFail = TRUE
  ConnectMayFail = TRUE
  Ceiling = 1
  OnExhaustion = "pause"
  TurnCosts <- Costs
  InitialSpend <- Ledgers
INVARIANTS
  TypeOK
  NoStrandedCaller
  FifoOrder
  NeverSleepsOnWork
  GateTracksLedger
  ParkKept
PROPERTIES
  SettledOnce
  StopDrains
