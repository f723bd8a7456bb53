\* Three calls, two of which may be taken over, an append that throws.
CONSTANTS
  Call = {c1, c2, c3}
  Actions = 1
  MaxAttempts = 2
  MaxFaults = 1
SPECIFICATION FairSpec
INVARIANTS
  OneOutcome
  AttemptsCounted
  ManualStands
  CancelledIsBacked
PROPERTIES
  CompletedIsFinal
  CallsEnd
