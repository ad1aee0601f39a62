\* The program ends, normally or not.
SPECIFICATION Spec
CHECK_DEADLOCK FALSE
INVARIANTS
  TypeOK
  UsesLive
  ParentsOutlive
  NothingLeft
