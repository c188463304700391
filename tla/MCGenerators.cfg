SPECIFICATION Spec
CONSTANTS
  main = main  g1 = g1  g2 = g2  e1 = e1
  Gen = {g1, g2}
  Main = main
  Errors = {"fault"}
  Guarded = {g1}
  Reraises = {main, g1}
  Delegates <- Mutual
  Thrown = {"fault", "stop"}
  MaxNest <- DeepInGenerator
  MaxSaved = 2
INVARIANTS TypeOK OneActivation SuspendedSlice DrivenHasNoState StopMeansReturned
PROPERTIES CallerUndisturbed DoneIsFinal
