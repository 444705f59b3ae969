SPECIFICATION FairSpec
CONSTANTS
  Dir = {"/lib", ".", "/opt", "/alt"}
  Soname = {"prog", "a", "b", "c", "none"}
  InitialPath <- FirstPath
  MAX_PATH = 4
  NoPath = NoPath
  Absent = Absent
  FileSystems <- AllDisks
  Programs <- AllPrograms
  Arguments = {"prog", "none"}
INVARIANTS
  TypeOK
  MappedOnce
  BackLinks
  DependenciesMapped
  Closed
  RpathFits
  BreadthFirst
PROPERTIES
  Termination
  Implements
