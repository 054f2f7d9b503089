SPECIFICATION Spec
CONSTANTS
  Subjects = {s1}
  Torrents = {t1}
  Executors = {e1, e2}
  AttemptIds = {a1, a2, a3}
  Pollers = {p1}
  Clients = {}
  Null = Null
  MaxRetries = 2
  InitialDelay = 1
  MaxDelay = 2
  LeaseTtl = 2
  RetryDelays = {1}
  Observed <- Wanted
  BootstrapSkips = {FALSE}
  SkipEdits = FALSE
  ClockSteps <- Forward
  MaxLag = 0
  MaxTime = 2
  MaxRevision = 100
  MaxGeneration = 3
SYMMETRY Interchangeable
VIEW Relevant
CHECK_DEADLOCK FALSE
INVARIANTS
  NoLostWork
  SelectorsAgree
  RetryBudget
  LeaseExclusive
PROPERTIES
  ImplementsLifecycle
