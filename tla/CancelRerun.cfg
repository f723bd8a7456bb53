\* Two calls, of which the first is taken over and goes on.
CONSTANTS
  Call = {c1, c2}
  Actions = 1
  MaxAttempts = 2
  MaxFaults = 0
SPECIFICATION Spec
PROPERTY
  CompletedNotRunAgain
