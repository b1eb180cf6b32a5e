SPECIFICATION ShmSpec
CONSTANTS
  NbPages = 22
  PtSize = 2
  UserCode = 2
  UserStack = 6
  SPages = 1
  CPages = 1
  KPages = 2
  MinSize = 8
  Doublings = 1
  MaxFails = 0
  Key = {"a", "b"}
  Hash <- MCShmHash
  Proc = {p1, p2, p3}
  MaxPages = 3
INVARIANTS RefsCounted PagesAccounted
PROPERTIES SharedPromise
CHECK_DEADLOCK FALSE
VIEW UpToPages
SYMMETRY Sym
