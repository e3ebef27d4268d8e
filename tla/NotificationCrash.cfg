\* One worker, one registration, one crash.
SPECIFICATION Spec
CONSTANTS
  Workers = {w1}
  Regs = {r1}
  MaxAttempts = 2
  BatchSize = 2
  MaxRows = 2
  MaxFaults = 1
INVARIANT CrashDuplicatesNothing
