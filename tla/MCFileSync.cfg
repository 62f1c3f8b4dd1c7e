\* Two names, all policies, crashes, power losses and a user of the directory.
SPECIFICATION MCSpec
CONSTANTS
  a = a
  b = b
  FileNames <- TwoNames
  Policies = {"refuse", "retain", "prune"}
  Value <- Values
  MaxRev = 2
  MaxGen = 5
  Faults = {"stop", "power"}
  MaxFaults = 2
  MaxEdits = 1
  FirstUse = FALSE
  UserEdits = TRUE
INVARIANTS
  ReadersSafe
  CurrentClaimHolds
PROPERTIES
  NoNameLost
  FinishLeavesTwo
  ForeignKept
  SettlesCatchUp
CHECK_DEADLOCK FALSE
