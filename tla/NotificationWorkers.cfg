SPECIFICATION Spec
CONSTANTS
  Workers = {w1, w2}
  Regs = {r1}
  MaxAttempts = 2
  BatchSize = 2
  MaxRows = 3
  MaxFaults = 1
INVARIANTS
  OneWorkerPerJob
  DeliveryAccounted
  AttemptsCounted
  RemindersCounted
PROPERTIES
  RowsSettle
