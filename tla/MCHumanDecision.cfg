SPECIFICATION Spec
CONSTANTS
  Kernels = {"browser", "coder"}
  Forms = {"x", "y"}
  People = {"p"}
  Runs = {r1, r2}
  MaxLeaves = 2
  NoForm = "-"
  Nobody = "-"
PROPERTIES NothingUnapproved OncePerLeave
SYMMETRY MCRunSymmetry
CHECK_DEADLOCK FALSE
