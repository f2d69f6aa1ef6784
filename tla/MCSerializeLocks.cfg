CONSTANTS
  r1 = r1
  r2 = r2
  r3 = r3
  r4 = r4
  Nobody = Nobody
  Run <- MCRun
  Key <- MCKey
  LockKeys <- MCLockKeys
SPECIFICATION FairLockSpec
PROPERTIES
  EveryRunGetsItsLocks
  ScopesSpec
