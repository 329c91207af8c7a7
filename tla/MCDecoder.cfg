\* One row, written by statements and large transactions from before the setup
\* on, while somebody else adds and drops columns of the original table.
SPECIFICATION Spec
CONSTANTS
  a = a
  b = b
  c = c
  d = d
  x = x
  y = y
  Null = Null
  NoRow = NoRow
  Unchanged = Unchanged
  NoColumns = NoColumns
  InitColumns <- MCInitColumns
  LateColumns = {d}
  Alters <- MCAlters
  Toasted = {b}
  NotNull = {a}
  Vals <- MCVals
  Default = x
  MaxMessages = 3
  MaxDDL = 1
INVARIANTS TypeOK DecodedAsWritten RowAgreement
CHECK_DEADLOCK FALSE
