SPECIFICATION Spec
CONSTANTS
  m1 = m1
  a1 = a1
  sched = sched
  Instances <- MCInstances
  Manual <- MCManual
  Scheduler = sched
  Admins <- MCAdmins
  FailLimit = 3
  NoInst = NoInst
  NoOne = NoOne
INVARIANTS
  TypeOK
  NoOrphanRow
  WriteExclusion
  AutoMeansFailing
  FlagsExclusive
PROPERTIES
  StreakDisables
  OffStays
