SPECIFICATION Spec
CONSTANTS
  Radix = 8
  CppCases <- MCCppCases
  GoCases <- MCGoCases
  Olds <- MCOlds
INVARIANTS FormatExact RefusedExactly TransferIntact PrefixRefused
CHECK_DEADLOCK FALSE
