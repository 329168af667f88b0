SPECIFICATION Spec
CONSTANTS
  t1 = t1
  t2 = t2
  t3 = t3
  Tasks = {t1, t2}
  MaxSignIns = 2
  MaxLinks = 2
  MaxPasswords = 2
  MaxCuts = 2
  None = None
SYMMETRY Symmetry
INVARIANTS TypeOK OneSession RevocationsHold SingleUse PasswordIsLatest
PROPERTY NewestLinkOnly
