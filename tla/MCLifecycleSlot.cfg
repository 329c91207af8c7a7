\* One run that succeeds, with no error of the cleanup but a refused drop.
SPECIFICATION Spec
CONSTANTS
  r1 = r1
  r2 = r2
  r3 = r3
  Runs = {r1}
  Options <- NoOptions
  Identities = {"DEFAULT"}
  Concurrent = FALSE
  CleanupErrors = FALSE
INVARIANTS CleanupLeavesNothing
CHECK_DEADLOCK FALSE
