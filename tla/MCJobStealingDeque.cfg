\* Three jobs, two thieves, an array that grows from one slot to four.
CONSTANTS
  j1 = j1
  j2 = j2
  j3 = j3
  owner = owner
  thief1 = thief1
  thief2 = thief2
  none = none
  garbage = garbage
  Jobs <- MCJobs
  NoJob <- none
  Garbage <- garbage
  Owner <- owner
  Thieves <- MCThieves
  Origin = 1
  InitialCapacity = 1
SPECIFICATION FairSpec
INVARIANT TypeOK
INVARIANT HandedOnce
INVARIANT NoJobLost
INVARIANT PopFailsOnlyWhenEmpty
INVARIANT IndInv
PROPERTY Linearizable
PROPERTY EveryJobIsHandedOut
