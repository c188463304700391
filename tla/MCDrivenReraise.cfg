SPECIFICATION Spec
CONSTANTS
  main = main  g1 = g1  g2 = g2  e1 = e1
  Gen = {g1, g2}
  Main = main
  Errors = {e1}
  Guarded = {g1}
  Reraises = {main, g1, g2}
  Delegates <- Mutual
  Thrown = {e1}
  MaxNest <- DeepInGenerator
  MaxSaved = 2
PROPERTY CallerUndisturbed
