SPECIFICATION Spec
CONSTANTS
  Null = Null
  acct1 = acct1
  acct2 = acct2
  r1 = r1
  r2 = r2
  r3 = r3
  Accounts = {acct1, acct2}
  Rows = {r1, r2}
  Configured <- MCConfigured
  FirstAccount = acct1
  AccountOf <- MCAccountOf
  Troubled = {r1}
  Batch = 4
  Concurrency = 2
  PollInterval = 2
  RetryInterval = 1
  IdleInterval = 1
  Lease = 2
  Delay = 1
  MaxDoings = 1
  MaxFaults = 1
CHECK_DEADLOCK FALSE
INVARIANTS
  ChangesTakeEffect
PROPERTIES
  PollsGoOn
  AttemptsGoOn
  StopEnds
