SPECIFICATION Spec
CONSTANTS
  m1 = m1
  a1 = a1
  sched = sched
  Instances <- MCInstances
  Manual <- MCNoManual
  Scheduler = sched
  Admins <- MCAdmins
  FailLimit = 2
  NoInst = NoInst
  NoOne = NoOne
PROPERTIES
  ManualDisableHolds
