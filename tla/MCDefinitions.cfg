SPECIFICATION Spec
CONSTANTS
  Refs <- MCRefs
  NoDefault <- MCNoDefault
  Env <- MCEnv
  Projects <- MCProjects
INVARIANTS
  ModulesInherit
  
CHECK_DEADLOCK FALSE
