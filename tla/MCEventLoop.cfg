SPECIFICATION Spec
CONSTANTS
  main = main  t1 = t1  f1 = f1  f2 = f2  g1 = g1
  None = None
  Task = {main, t1}
  Main = main
  Future = {f1}
  Gathering = {g1}
  Delay = {1}
  MaxTime = 1
  MaxChildren = 2
INVARIANTS TypeOK OneResumption WaiterWillWake TimeoutDisarmed GivesUpOnlyStuck GatherFaithful
PROPERTY CancelIsNotLost
