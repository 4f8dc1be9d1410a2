SPECIFICATION Spec
CONSTANTS
  ProcessNice = 10
  Inherited <- NiceValues
INVARIANTS
  SingleMaster
  ServesAsAsked
PROPERTIES
  StopInherited
