SPECIFICATION Spec
CONSTANTS
  Text = {Empty, x, y}
  Empty = Empty
  Foreign = {f, g}
  Msg = {m1, m2}
  NoObject = NoObject
  Addr = {a1, a2, a3}
  kEmptyString = kEmptyString
  Free = Free
  NULL = NULL
  MaxUnknown = 2
  MaxFields = 2
SYMMETRY Symmetry
INVARIANTS TypeOK EveryStringOwnedOnce AbsentReadsEmpty RoundTrip ParsingMerges ParseMeaning
PROPERTY ImplementsValues
CHECK_DEADLOCK FALSE
