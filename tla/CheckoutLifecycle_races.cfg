SPECIFICATION Spec
CONSTANTS
  Payments = {p1, p2}
  Tasks = {t1, t2}
  None = None
  MaxObserved = 2
  MaxReconciled = 2
SYMMETRY MCSymmetry
CHECK_DEADLOCK FALSE
INVARIANT TypeOK
PROPERTY PaidLostToOutdatedTasksOnly
INVARIANT OrdersFollowPayments
