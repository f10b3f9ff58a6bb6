CONSTANTS
  Ids = {i1}
  Confs = {blocking, allowing}
  AllowConfs = {allowing}
  Contents = {none, some}
  NoRules = none
  Handlers = {h1, h2}
  MaxHistory = 1
  MaxEdits = 2
  MaxTicks = 1
  MaxUpsets = 2
SPECIFICATION Spec
INVARIANTS PublishedIsCurrent ClassifiedUnderPolicy RequestsNotLost
CONSTRAINT MeetsNoOther
SYMMETRY Interchangeable
CHECK_DEADLOCK FALSE
