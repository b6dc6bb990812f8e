SPECIFICATION FairSpec
CONSTANTS
  m1 = m1
  a1 = a1
  sched = sched
  Instances <- MCInstances
  Manual <- MCManual
  Scheduler = sched
  Admins <- MCNoAdmins
  FailLimit = 2
  NoInst = NoInst
  NoOne = NoOne
PROPERTIES
  RunsEnd
  AutoDisabledRecovers
  BrokenIsDisabled
