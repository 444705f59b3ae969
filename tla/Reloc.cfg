SPECIFICATION FairSpec
CONSTANTS
  Name = {"x", "f", "g"}
  Width <- OneWord
  Namespaces <- AllNamespaces
INVARIANTS
  Relocated
  CopiedWhole
  OneVariable
  CallsLand
PROPERTIES
  BoundOnce
  Handover
