\* Runs one after the other, with any flags, ending anywhere, their cleanup failing in part.
SPECIFICATION Spec
CONSTANTS
  r1 = r1
  r2 = r2
  r3 = r3
  Runs = {r1, r2}
  Options <- AnyOptions
  Identities = {"DEFAULT", "NOTHING", "FULL", "INDEX"}
  Concurrent = FALSE
  CleanupErrors = TRUE
INVARIANTS TypeOK OriginalTableIntact UserTableKept SlotSeesEveryChange
CHECK_DEADLOCK FALSE
