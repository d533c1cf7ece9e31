SPECIFICATION Spec
CONSTANTS
  Paths = {1, 2}
  Documents = {3}
  Shas = {1, 2}
  MaxEdits = 2
INVARIANTS TypeOK RemovalIsReal
PROPERTIES NothingIsHidden SettledStaysQuiet
