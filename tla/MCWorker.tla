------------------------------ MODULE MCWorker ------------------------------
EXTENDS SubscriptionWorker
CONSTANTS acct1, acct2, r1, r2, r3

MCAccountOf == [r \in Rows |-> IF r = r3 THEN acct2 ELSE acct1]
MCConfig(watcher, account) == [watcher |-> watcher, account |-> account]
MCConfigured ==
  {MCConfig("on", acct1), MCConfig("off", acct1), MCConfig("dry", acct2), MCConfig("on", acct2), MCConfig("on", Null)}
=============================================================================
