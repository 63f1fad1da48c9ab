SPECIFICATION Spec
CONSTANTS
  Binary = {"or", "and", "<", "+", "*", "**"}
  Prefix = {"not", "-"}
  MoreBinary = {"in", "not in", "==", "|", "^", "&", "<<", "-", "/"}
  Inputs <- MCInputs
INVARIANT ParsesBack
