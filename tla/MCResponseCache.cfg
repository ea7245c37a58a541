SPECIFICATION Spec
CONSTANTS
  Family <- MCFamily
  Command <- MCCommand
  Request = {1, 2}
INVARIANTS
  NoneOutdatedUnnoticed
PROPERTIES
  PagesCatchUp
