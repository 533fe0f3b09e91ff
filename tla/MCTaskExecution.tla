-------------------------- MODULE MCTaskExecution ---------------------------
(* TaskExecution for TLC: two modules, two tasks, the shapes of project in  *)
(* which references can go wrong.                                          *)
EXTENDS TaskExecution

CONSTANTS t1, t2

\* the placeholders of the build definition, of t1 and t2, of t1's runIf; the steps
Shape(build, one, two, cond, s1, s2) ==
  [refs |-> [o \in Tasks \cup {Build} |-> CASE o = Build -> build [] o = t1 -> one [] o = t2 -> two],
   conds |-> [t \in Tasks |-> IF t = t1 THEN cond ELSE <<>>],
   steps |-> [m \in Modules |-> IF m = 1 THEN s1 ELSE s2]]

\* as in welder's own welder.yaml: every build definition runs a helper task,
\* whose own definition inherits the reference
HelperInBuild == Shape(<<t1>>, <<>>, <<>>, <<>>, <<t2>>, <<t2>>)
\* two tasks that refer to each other, one of them a step of both modules
EachOther == Shape(<<>>, <<t2>>, <<t1>>, <<>>, <<t1>>, <<t1>>)
\* a step refers to the step before it; a condition refers to its own task
StepBefore == Shape(<<>>, <<>>, <<t1>>, <<t1>>, <<t1, t2>>, <<t2>>)
\* a task that refers to itself twice; that and, in its condition, to another
ItselfTwice == Shape(<<>>, <<t1, t1>>, <<>>, <<>>, <<t1>>, <<t1>>)
Condition == Shape(<<>>, <<t1, t1>>, <<>>, <<t2>>, <<t1>>, <<t2>>)

MCProjects == {HelperInBuild, EachOther, StepBefore, ItselfTwice, Condition}
=============================================================================
