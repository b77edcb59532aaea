SPECIFICATION Spec
CONSTANTS
  Kernels = {"browser", "coder"}
  Forms = {"x", "y"}
  People = {"p"}
  Runs = {"r"}
  MaxLeaves = 2
  NoForm = "-"
  Nobody = "-"
PROPERTY UnknownIsReconciled
CHECK_DEADLOCK FALSE
