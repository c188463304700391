SPECIFICATION FairSpec
CONSTANTS
  main = main  t1 = t1  f1 = f1  f2 = f2  g1 = g1
  None = None
  Task = {main, t1}
  Main = main
  Future = {f1}
  Gathering = {}
  Delay = {1, 2}
  MaxTime = 2
  MaxChildren = 2
PROPERTIES TimersOnTime WaitingEnds
