SPECIFICATION Spec
CONSTANTS
  t1 = t1
  t2 = t2
  p1 = p1
  p2 = p2
  Home = Home
  Launcher = Launcher
  Thread = {t1, t2}
  Preview = {p1}
  MaxAttempt = 2
  Permission = {f1}
  Keeper = {Home, Launcher}
  MaxEvent = 3
  MaxStart = 1
  MaxRestore = 1
INVARIANTS TypeOK AppliedAtMostOnce OutcomesAreTrue LedgerIsReconciled
PROPERTIES EndedStaysEnded OnlyDueExpires
SYMMETRY Symmetric
CHECK_DEADLOCK FALSE
