SPECIFICATION Spec
CONSTANTS
  Observers = {o1}
  MaxPublished = 8
  RingSize = 3
  QueueSize = 2
  EvictAfter = 2
  CallIds = {c1, c2}
  MaxCalls = 3
  MaxFeeds = 3
  Agents = {a}
  Consoles = {k1}
  MaxId = 3
  MaxSerial = 3
  Keep = 1
  MaxRestarts = 1
  MaxFailures = 1
  Spenders = {s1, s2}
  Ceiling = 2
  PoolCeiling = 3
  MaxMade = 3
  MaxTurns = 3
  MaxCrashes = 2
  MaxIncarnations = 3
  Pids = {p1}
  Spawners = {w1}
  Stores = {A, B}
  ScopeCalls = {t1, t2}
  Public = {"y"}
  NoSnapshot = NoSnapshot
  Profiles <- MCProfiles
  Adhoc <- MCAdhoc
  Requests <- MCRequests
  MaxGeneration = 2
  MaxRules = 1
  ToolIds = {u1, u2}
  Deliveries = {d1, d2, d3}
  Capacity = 1
  HaltAt = 1
  MaxResets = 1
  Owners = {b1, b2}
  HttpCalls = {r1, r2}
  MaxTokens = 2
  AuditCalls = {x1, x2}
  ToolOf <- MCTools
  MaxReplays = 1
  Keys = {m1, m2}
  StaleKeys = {m2}
  Recorders = {n1, n2}
  Cap = 1
  Interval = 2
  MaxWrites = 2
  MaxEvents = 4
  MaxFaults = 1
  GateCalls = {g1}
  Commands = {ls, rm, out, bad, tool}
  Prohibited = {bad}
  OffScope = {out}
  Guarded = {rm, out, bad, tool}
  Risky = {rm}
  Plain = {ls}
  Fieldless = {tool}
  MaxBackends = 2
  MaxCodexTurns = 2
  Kids = {e1, e2, e3}
  Concurrency = 2
  SharedHost = {e1, e2}
  HostCap = 1
  Trusted = {e1}
  SwarmMin = 2
  PolicyGated = {e2}
  Facts = {port}
  Threshold = 60
  Triples = {"strong", "weak", "doc", "cred"}
  Secret = {"cred"}
  StrongTopic = "strong"
  WeakTopic = "weak"
  OldDocument = {"doc"}
  Authors = {v1, v2}
  Confidences = {995}
  TopConfidence = 990
  Floor = 1
  CuratePlans <- MCPlans
  MaxRows = 3
  MaxAsserts = 2
  MaxClock = 3
  Names = {"bus.write", "fetch", "list"}
  BareOf <- MCBareOf
  PrettyOf <- MCPrettyOf
  Polling = {"list"}
  Results <- MCResults
  Shared = {"fetch"}
  Native = FALSE
  LoopThreshold = 2
  LoopWindow = 3
  CrossWindow = 0
  MaxTracked = 2
  MaxUses = 3
  MaxNow = 2
  MaxTroubles = 1
INVARIANTS
  NoSilentLoss
  StopGuarantee
  InboxHolds
  LedgerIsWhole
  NoOrphanRunner
  AllowedOnRecord
  RulesAreSerial
  DecidedOnce
  CredentialBoundary
  ChainIsTrue
  StoreIsTrue
  GateHolds
  AbsenceIsAccounted
  FanoutHolds
  MemoryIsKept
  ToolCallsHold
PROPERTIES
  EvictsOnlyIdle
  IdsNotReissued
  EnforcementSurvives
  
CHECK_DEADLOCK FALSE
