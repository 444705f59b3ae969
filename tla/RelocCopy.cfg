SPECIFICATION Spec
CONSTANTS
  Name = {"x", "f", "g"}
  Width <- TwoWords
  Namespaces <- WideNamespaces
INVARIANT
  CopiedWhole
