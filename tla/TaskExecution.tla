--------------------------- MODULE TaskExecution ----------------------------
(***************************************************************************)
(* How welder runs the tasks of its modules, and the tasks that            *)
(* definitions refer to with ${task:<name>...} placeholders.               *)
(*                                                                         *)
(* Before anything is run, its effective definition is calculated: the     *)
(* templates of a module's build definition, and those of a task's own     *)
(* definition after it (ActualBuildDefinitionFor, ActualTaskDefinitionFor). *)
(* A placeholder runs the task it names (Tpl.extTask), whose definition is *)
(* calculated first, and so on.  What keeps that from going round in       *)
(* circles is a mark per task (ExecutingTask, ExecutedTask), in one map    *)
(* that the contexts of all modules share.                                 *)
(*                                                                         *)
(* Each module has a stack of calls.  A call is a record: op is "define",  *)
(* "placeholder" or "run", task what it is about, at how far it got, todo  *)
(* the placeholders it has yet to evaluate.                                *)
(***************************************************************************)
EXTENDS Integers, Sequences, SequencesExt

CONSTANTS
  NumModules, \* modules of the project, in the order they are started
  Tasks,      \* names of its tasks
  Build,      \* stands for the build definition of a module
  Projects,   \* the projects considered; see ProjectType
  MaxDepth    \* bound: calls a module may be in before it meets another placeholder

Modules == 1..NumModules

\* refs: the placeholders of a definition in the order the template engine
\* meets them (several passes over a definition meet one several times);
\* conds: those of a task's runIf; steps: the tasks a module lists.
ProjectType == [refs: [Tasks \cup {Build} -> Seq(Tasks)], conds: [Tasks -> Seq(Tasks)],
                steps: [Modules -> Seq(Tasks)]]

ASSUME ConstantsAssumption ==
  /\ NumModules \in Nat
  /\ Build \notin Tasks
  /\ \A p \in Projects : p \in ProjectType

ASSUME DepthAssumption == MaxDepth \in Nat

VARIABLES
  project,  \* one of Projects
  parallel, \* the --parallel flag
  deferred, \* TRUE for RunSteps, FALSE for runAfterTasks
  marks,    \* executingTasks, shared
  cached,   \* the definitions calculated so far, per module
  at,       \* where RunSteps (or runAfterTasks) of each module is
  step,     \* the step it is at
  held,     \* the deferred calls of ExecutedTask, oldest first
  stack,    \* its calls
  ret       \* what the last call of it returned

frozen == <<project, parallel, deferred>>
vars == <<frozen, marks, cached, at, step, held, stack, ret>>

Call(op, task, where, todo) == [op |-> op, task |-> task, at |-> where, todo |-> todo]
DefineCall(owner)    == Call("define", owner, "start", project.refs[owner])
PlaceholderCall(t)   == Call("placeholder", t, "check", <<>>)
RunCall(t)           == Call("run", t, "cond", project.conds[t])

Steps(m) == project.steps[m]
Current(m) == Steps(m)[step[m]]
Idle(m) == stack[m] = <<>>
Doing(m, op, where) == stack[m] # <<>> /\ Last(stack[m]).op = op /\ Last(stack[m]).at = where

\* the stack of m with its last call replaced by the calls s
Instead(m, s) == [stack EXCEPT ![m] = Front(@) \o s]
Push(m, call) == [stack EXCEPT ![m] = Append(@, call)]

Init ==
  /\ project \in Projects
  /\ parallel \in BOOLEAN
  /\ deferred \in BOOLEAN
  /\ marks = [t \in Tasks |-> FALSE]
  /\ cached = {}
  /\ at = [m \in Modules |-> "idle"]
  /\ step = [m \in Modules |-> 1]
  /\ held = [m \in Modules |-> <<>>]
  /\ stack = [m \in Modules |-> <<>>]
  /\ ret = [m \in Modules |-> "ok"]
-----------------------------------------------------------------------------
(* RunSteps and runAfterTasks of a module.                                 *)

\* In order without --parallel, and then only if the module before succeeded.
Start(m) ==
  /\ at[m] = "idle"
  /\ parallel \/ \A k \in Modules : k < m => at[k] = "done"
  /\ at' = [at EXCEPT ![m] = "build"]
  /\ stack' = Push(m, DefineCall(Build))
  /\ UNCHANGED <<frozen, marks, cached, step, held, ret>>

BuildDefined(m) ==
  /\ at[m] = "build" /\ Idle(m)
  /\ at' = [at EXCEPT ![m] = IF ret[m] = "ok" THEN "next" ELSE "unwind"]
  /\ UNCHANGED <<frozen, marks, cached, step, held, stack, ret>>

\* The definition of the step's task is calculated before the task is marked.
NextStep(m) ==
  /\ at[m] = "next" /\ Idle(m)
  /\ IF step[m] <= Len(Steps(m))
     THEN at' = [at EXCEPT ![m] = "define"] /\ stack' = Push(m, DefineCall(Current(m)))
     ELSE at' = [at EXCEPT ![m] = "unwind"] /\ UNCHANGED stack
  /\ UNCHANGED <<frozen, marks, cached, step, held, ret>>

\* ExecutingTask, whoever else may have marked the task; RunSteps defers the
\* call of ExecutedTask to its own end.
MarkStep(m) ==
  /\ at[m] = "define" /\ Idle(m)
  /\ IF ret[m] = "ok"
     THEN /\ marks' = [marks EXCEPT ![Current(m)] = TRUE]
          /\ held' = [held EXCEPT ![m] = IF deferred THEN Append(@, Current(m)) ELSE @]
          /\ stack' = Push(m, RunCall(Current(m)))
          /\ at' = [at EXCEPT ![m] = "run"]
     ELSE /\ at' = [at EXCEPT ![m] = "unwind"]
          /\ UNCHANGED <<marks, held, stack>>
  /\ UNCHANGED <<frozen, cached, step, ret>>

\* Mutant: runAfterTasks returns a failure without clearing the mark.
StepReturnsEarly(m) ==
  /\ at[m] = "run" /\ Idle(m)
  /\ marks' = [marks EXCEPT ![Current(m)] = deferred \/ ret[m] = "error"]
  /\ IF ret[m] = "ok"
     THEN at' = [at EXCEPT ![m] = "next"] /\ step' = [step EXCEPT ![m] = @ + 1]
     ELSE at' = [at EXCEPT ![m] = "unwind"] /\ UNCHANGED step
  /\ UNCHANGED <<frozen, cached, held, stack, ret>>

\* The scripts of a step have run; runAfterTasks clears the mark either way.
StepReturns(m) ==
  /\ at[m] = "run" /\ Idle(m)
  /\ marks' = IF deferred THEN marks ELSE [marks EXCEPT ![Current(m)] = FALSE]
  /\ IF ret[m] = "ok"
     THEN at' = [at EXCEPT ![m] = "next"] /\ step' = [step EXCEPT ![m] = @ + 1]
     ELSE at' = [at EXCEPT ![m] = "unwind"] /\ UNCHANGED step
  /\ UNCHANGED <<frozen, cached, held, stack, ret>>

\* RunSteps returns: its deferred calls clear the marks, last one first.
Unwind(m) ==
  /\ at[m] = "unwind"
  /\ IF held[m] # <<>>
     THEN /\ marks' = [marks EXCEPT ![Last(held[m])] = FALSE]
          /\ held' = [held EXCEPT ![m] = Front(@)]
          /\ UNCHANGED at
     ELSE /\ at' = [at EXCEPT ![m] = IF ret[m] = "ok" THEN "done" ELSE "failed"]
          /\ UNCHANGED <<marks, held>>
  /\ UNCHANGED <<frozen, cached, step, stack, ret>>
-----------------------------------------------------------------------------
(* Calculating a definition.                                               *)

\* The caches are looked up by a hash of the context that includes the marks, in
\* the random order of a map: what was calculated before may be found or not.
UseCached(m) ==
  /\ Doing(m, "define", "start")
  /\ <<m, Last(stack[m]).task>> \in cached
  /\ stack' = Instead(m, <<>>)
  /\ ret' = [ret EXCEPT ![m] = "ok"]
  /\ UNCHANGED <<frozen, marks, cached, at, step, held>>

\* There is no such task or module, or its templates or its merging fail half
\* way; the build definition is cached all the same, and found good later.
DefineFails(m) ==
  LET c == Last(stack[m]) IN
  /\ \/ Doing(m, "define", "start") /\ UNCHANGED cached
     \/ /\ Doing(m, "define", "own")
        /\ cached' = IF c.task = Build THEN cached \cup {<<m, Build>>} ELSE cached
  /\ stack' = Instead(m, <<>>)
  /\ ret' = [ret EXCEPT ![m] = "error"]
  /\ UNCHANGED <<frozen, marks, at, step, held>>

\* A task's definition needs that of the module it runs for.
Define(m) ==
  LET c == Last(stack[m]) IN
  /\ Doing(m, "define", "start")
  /\ stack' = IF c.task = Build
              THEN Instead(m, <<[c EXCEPT !.at = "own"]>>)
              ELSE Instead(m, <<[c EXCEPT !.at = "module"], DefineCall(Build)>>)
  /\ UNCHANGED <<frozen, marks, cached, at, step, held, ret>>

ModuleDefined(m) ==
  /\ Doing(m, "define", "module")
  /\ stack' = Instead(m, IF ret[m] = "ok" THEN <<[Last(stack[m]) EXCEPT !.at = "own"]>>
                                          ELSE <<>>)
  /\ UNCHANGED <<frozen, marks, cached, at, step, held, ret>>

\* The template engine meets a placeholder, in a definition or in a runIf.
Evaluate(m) ==
  LET c == Last(stack[m]) IN
  /\ Doing(m, "define", "own") \/ Doing(m, "run", "cond")
  /\ c.todo # <<>>
  /\ Len(stack[m]) < MaxDepth
  /\ stack' = Instead(m, <<[c EXCEPT !.todo = Tail(@)], PlaceholderCall(Head(c.todo))>>)
  /\ UNCHANGED <<frozen, marks, cached, at, step, held, ret>>

Defined(m) ==
  /\ Doing(m, "define", "own")
  /\ Last(stack[m]).todo = <<>>
  /\ stack' = Instead(m, <<>>)
  /\ cached' = cached \cup {<<m, Last(stack[m]).task>>}
  /\ ret' = [ret EXCEPT ![m] = "ok"]
  /\ UNCHANGED <<frozen, marks, at, step, held>>
-----------------------------------------------------------------------------
(* Evaluating a placeholder: extTask.                                      *)

\* Mutant: waits for a task that is being executed.
CheckWaits(m) ==
  LET c == Last(stack[m]) IN
  /\ Doing(m, "placeholder", "check")
  /\ ~marks[c.task]
  /\ stack' = Instead(m, <<[c EXCEPT !.at = "mark"]>>)
  /\ UNCHANGED <<frozen, marks, cached, at, step, held, ret>>

\* IsExecutingTask: a marked task is refused and the placeholder stays as it is.
Check(m) ==
  LET c == Last(stack[m]) IN
  /\ Doing(m, "placeholder", "check")
  /\ stack' = Instead(m, IF marks[c.task] THEN <<>> ELSE <<[c EXCEPT !.at = "mark"]>>)
  /\ UNCHANGED <<frozen, marks, cached, at, step, held, ret>>

\* Mutant: the task is not marked.
MarkNothing(m) ==
  LET c == Last(stack[m]) IN
  /\ Doing(m, "placeholder", "mark")
  /\ stack' = Instead(m, <<[c EXCEPT !.at = "defined"], DefineCall(c.task)>>)
  /\ UNCHANGED <<frozen, marks, cached, at, step, held, ret>>

Mark(m) ==
  LET c == Last(stack[m]) IN
  /\ Doing(m, "placeholder", "mark")
  /\ marks' = [marks EXCEPT ![c.task] = TRUE]
  /\ stack' = Instead(m, <<[c EXCEPT !.at = "defined"], DefineCall(c.task)>>)
  /\ UNCHANGED <<frozen, cached, at, step, held, ret>>

RunReferenced(m) ==
  LET c == Last(stack[m]) IN
  /\ Doing(m, "placeholder", "defined")
  /\ stack' = Instead(m, IF ret[m] = "ok" THEN <<[c EXCEPT !.at = "clear"], RunCall(c.task)>>
                                          ELSE <<[c EXCEPT !.at = "clear"]>>)
  /\ UNCHANGED <<frozen, marks, cached, at, step, held, ret>>

\* The deferred ExecutedTask; what the task returned only shows in the text.
Unmark(m) ==
  /\ Doing(m, "placeholder", "clear")
  /\ marks' = [marks EXCEPT ![Last(stack[m]).task] = FALSE]
  /\ stack' = Instead(m, <<>>)
  /\ UNCHANGED <<frozen, cached, at, step, held, ret>>

\* RunScripts returns: skipped by its condition, run, or failed.
RunReturns(m) ==
  /\ Doing(m, "run", "cond")
  /\ Last(stack[m]).todo = <<>>
  /\ stack' = Instead(m, <<>>)
  /\ \E r \in {"ok", "error"} : ret' = [ret EXCEPT ![m] = r]
  /\ UNCHANGED <<frozen, marks, cached, at, step, held>>
-----------------------------------------------------------------------------
Ended(m) == \/ at[m] \in {"done", "failed"}
            \/ ~parallel /\ at[m] = "idle" /\ \E k \in Modules : k < m /\ at[k] = "failed"

\* every module has ended, is not started because one before it failed, or is
\* where the model does not follow it any further
Finished ==
  /\ \A m \in Modules : Ended(m) \/ Len(stack[m]) >= MaxDepth
  /\ UNCHANGED vars

Module(m) ==
  \/ Start(m) \/ BuildDefined(m) \/ NextStep(m) \/ MarkStep(m) \/ StepReturns(m) \/ Unwind(m)
  \/ UseCached(m) \/ DefineFails(m) \/ Define(m) \/ ModuleDefined(m) \/ Evaluate(m)
  \/ Defined(m) \/ Check(m) \/ Mark(m) \/ RunReferenced(m) \/ Unmark(m) \/ RunReturns(m)

Next == (\E m \in Modules : Module(m)) \/ Finished

\* The goroutines of the modules are scheduled, and scripts end.
Fairness == \A m \in Modules : WF_vars(Module(m))

Spec == Init /\ [][Next]_vars /\ Fairness
-----------------------------------------------------------------------------
(* Properties.                                                             *)

\* positions of the stack whose placeholder is executing its task
Active(m) == {i \in DOMAIN stack[m] : /\ stack[m][i].op = "placeholder"
                                      /\ stack[m][i].at \in {"defined", "clear"}}

\* the tasks in the call chain of module m: its step's and its placeholders'
Chain(m) == {stack[m][i].task : i \in Active(m)}
              \cup (IF at[m] = "run" THEN {Current(m)} ELSE {})

\* A mark never outlives the calls that answer for it: every marked task is in
\* some module's call chain, or is a step whose deferred clearing is still due.
\* No path (refusal, failed definition, failed script, clearing by another
\* module) leaves a task marked for good, which would refuse it for ever after.
MarksHaveOwners ==
  \A t \in Tasks : marks[t] => \E m \in Modules : t \in Chain(m) \cup ToSet(held[m])

\* "recursion is not allowed" (template.go:89): no task is executed inside itself.
NoRecursion ==
  \A m \in Modules :
    /\ \A i, k \in Active(m) : i # k => stack[m][i].task # stack[m][k].task
    /\ at[m] = "run" => \A i \in Active(m) : stack[m][i].task # Current(m)

\* Where one module runs at a time the marks are what they are meant to be: whatever is
\* in the call chain is marked, so that no placeholder below it enters it again.
SequentialChain ==
  ~parallel => NoRecursion /\ \A m \in Modules : \A t \in Chain(m) : marks[t]

\* The modules run in parallel, and on the way to run some task two placeholders or
\* more may be met: those of its definition, its runIf and the build definition.
Tangled ==
  /\ parallel
  /\ \E t \in Tasks :
       Len(project.refs[t]) + Len(project.conds[t]) + Len(project.refs[Build]) >= 2

\* Evaluation ends, before any stack of calls is at its bound: definitions that refer
\* to each other, or to themselves, do not keep a module busy for ever, however the
\* modules interleave.  Excepted are the tangled projects under --parallel, for
\* which the protection against recursion (template.go:89) fails: a module that
\* clears the mark of a task lets the other one enter the task again, whose further
\* placeholders clear its mark for the first one, and so on without end.
AllEnd == Tangled \/ <>(\A m \in Modules : Ended(m))
=============================================================================
