SPECIFICATION Spec
CONSTANTS
  Threads = {t1, t2}
  TisConns = {c1, c2}
  DbserConns = {d1}
  NoConn = NoConn
  NoAnswer = NoAnswer
  NoPackage = NoPackage
  Packages <- MCPackages
  Verdicts <- MCVerdicts
SYMMETRY Symmetry
CHECK_DEADLOCK FALSE
INVARIANTS
  TypeOK
  ToldIsStored
  OnceEach
PROPERTIES
  OwnVerdictUnlessShared
