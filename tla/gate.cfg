SPECIFICATION FairSpec
CONSTANTS
  Request = {r1, r2, r3}
  Restorer = {o1}
  PoolSize = 3
  Free = Free
INVARIANTS TypeOK ReplacedOnlyWhenDrained NoWakeupIsLost
PROPERTIES ImplementsAccess RestoreCompletes BlockedRequestsEnter
