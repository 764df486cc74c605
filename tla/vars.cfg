SPECIFICATION Spec
CONSTANTS
  v1 = v1
  v2 = v2
  vin = vin
  vout = vout
  Names <- Globals
  Word = 4
  Ints = {1, 3}
  Strs = {2}
  Exprs <- MCExprs
  MaxCmds = 4
  LocalIn = vin
  LocalOut = vout
SYMMETRY Same
INVARIANTS ReadsExact ArgumentsArrive
CHECK_DEADLOCK FALSE
