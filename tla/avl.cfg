SPECIFICATION Spec
CONSTANTS
  NULL = 0
  MaxNodes = 14
  MaxShift = 3
INVARIANTS OperationsExact WellFormed LookupsAgree
