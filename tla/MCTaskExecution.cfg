CONSTANTS
  NumModules = 2
  t1 = t1
  t2 = t2
  Tasks = {t1, t2}
  Build = Build
  Projects <- MCProjects
  MaxDepth = 9
SPECIFICATION Spec
INVARIANTS MarksHaveOwners SequentialChain
PROPERTY AllEnd
