SPECIFICATION Spec
CONSTANTS
  Count = 3
  Programs <- MCPrograms
  Attr = {"x", "y"}
  FieldTypes = {"int", "str"}
  Zero = "zero"
INVARIANTS
  TypeOK
  WellTyped
  AcceptsCompatible
PROPERTY
  RunsAsPython
CHECK_DEADLOCK FALSE
