------------------------------ MODULE Pipelines ------------------------------
(***************************************************************************)
(* Bitbucket Pipelines on the local machine: `welder bitbucket-pipelines   *)
(* execute`, and Run as the package offers it (with no run parameters,     *)
(* where parallel groups are really started in parallel).                  *)
(*                                                                         *)
(* Every step runs in a container of its own and every pipe in another     *)
(* one.  Containers are found again by the label with their run ID, which  *)
(* is a shortened name, by any process on the daemon.                      *)
(*                                                                         *)
(* A container is <<p, s, i>>: the one of step s in process p (i = 0), or  *)
(* the one of the pipe that is item i of that step's script.               *)
(***************************************************************************)
EXTENDS Naturals, Sequences, SequencesExt, FiniteSets

CONSTANTS
  Processes,
  Scenarios,    \* functions from Processes to [cli, parallel, limit, git, branch, step,
                \* skipPipes, atlassian, given]
  Branches,     \* functions from the branches that are configured, and "default", to
                \* sequences of groups [parallel, steps]
  Steps,
  Image,        \* of a step, or "none"
  RootImage,    \* of the whole configuration, or "none"
  LinuxImages,
  ImageValue,   \* of a step: what its image says of the variable that is followed, or Unset
  Script,       \* of a step, a sequence of [kind, name, exports, prints, image]
  Project,      \* its name, a sequence of characters
  StepName,     \* of a step, a sequence of characters
  MaxIdLength,  \* of a run ID
  Skipped,      \* names of scripts and pipes that --atlassian leaves out
  MaxFailures,  \* bound: calls of the daemon and commands that fail
  MaxDeaths     \* bound: processes that are killed or panic

AllSteps == UNION {ToSet(g.steps) : g \in UNION {ToSet(Branches[b]) : b \in DOMAIN Branches}}

\* A step of any branch has a command, also when the current branch does not have it.
CommandNames == {"all"} \union AllSteps

Unset == "unset"

ASSUME ConstantsAssumption ==
  /\ IsFiniteSet(Processes) /\ IsFiniteSet(Steps)
  /\ "default" \in DOMAIN Branches
  /\ \A s \in Steps : Script[s] \in Seq(ToSet(Script[s]))
  /\ \A x \in Scenarios, p \in Processes : x[p].cli \in BOOLEAN /\ x[p].step \in CommandNames
  /\ MaxIdLength \in Nat /\ MaxFailures \in Nat /\ MaxDeaths \in Nat

\* A step is one place of the configuration: a branch has it once.
ASSUME BranchesAssumption ==
  \A b \in DOMAIN Branches :
    /\ Branches[b] \in Seq([parallel : BOOLEAN, steps : Seq(Steps)])
    /\ \A g, h \in DOMAIN Branches[b] :
         \A k \in DOMAIN Branches[b][g].steps, l \in DOMAIN Branches[b][h].steps :
           Branches[b][g].steps[k] = Branches[b][h].steps[l] => g = h /\ k = l

\* Only commands export variables.
ASSUME PipesAssumption ==
  \A s \in Steps : \A i \in DOMAIN Script[s] :
    Script[s][i].kind = "pipe" => Script[s][i].exports = Unset

Job == Processes \X Steps

VARIABLES
  scenario,
  pc, result, \* of Run in a process
  plan, next, \* the steps to run and the position in them
  cancelled,  \* processes whose context was cancelled by a parallel step that failed
  at, item,   \* of the steps: where they are, and in which item of the script
  ok,         \* how the pipe ended
  env,        \* what RunContext.Env says of one variable: all the values in the list,
              \* at first the one that PipelinesEnv gives it, if any
  closed,     \* the step's output streams are closed
  containers,
  abandoned,  \* containers whose creator will not remove them
  ran,        \* per process: the items <<s, i>> whose commands ran well, in order
  failures, deaths

step == <<at, item, ok, env, closed>>
process == <<pc, result, plan, next>>
vars == <<scenario, process, cancelled, step, containers, abandoned, ran, failures, deaths>>

Init ==
  /\ scenario \in Scenarios
  /\ pc = [p \in Processes |-> "idle"] /\ result = [p \in Processes |-> "none"]
  /\ plan = [p \in Processes |-> <<>>] /\ next = [p \in Processes |-> 1] /\ cancelled = {}
  /\ at = [j \in Job |-> "idle"] /\ item = [j \in Job |-> 1]
  /\ ok = [j \in Job |-> TRUE]
  /\ env = [j \in Job |->
              IF scenario[j[1]].given = Unset THEN <<>> ELSE <<scenario[j[1]].given>>]
  /\ closed = [j \in Job |-> FALSE]
  /\ containers = {} /\ abandoned = {}
  /\ ran = [p \in Processes |-> <<>>]
  /\ failures = 0 /\ deaths = 0
-----------------------------------------------------------------------------
(* What to run. *)

Cli(p) == scenario[p].cli

\* --branch counts for the command line only.
NeedsGit(x) == ~x.cli \/ x.branch = "none"
Branch(x) == IF NeedsGit(x) THEN x.git ELSE x.branch

Groups(x) == Branches[IF Branch(x) \in DOMAIN Branches THEN Branch(x) ELSE "default"]

\* The parallel groups are gone after that.
filterSteps(x) ==
  LET all == FlattenSeq([g \in DOMAIN Groups(x) |-> Groups(x)[g].steps]) IN
  FlattenSeq([k \in DOMAIN all |-> IF x.step \in {"all", all[k]} THEN <<all[k]>> ELSE <<>>])

\* StartParallel calls back at once unless the context is a parallel one.
PlanOf(x) ==
  IF x.cli THEN [k \in DOMAIN filterSteps(x) |-> [step |-> filterSteps(x)[k], async |-> FALSE]]
  ELSE FlattenSeq([g \in DOMAIN Groups(x) |->
         [k \in DOMAIN Groups(x)[g].steps |->
            [step |-> Groups(x)[g].steps[k],
             async |-> Groups(x)[g].parallel /\ x.parallel]]])

Async(p, s) == [step |-> s, async |-> TRUE] \in ToSet(plan[p])

ImageOf(s) == IF Image[s] # "none" THEN Image[s] ELSE RootImage

ShouldSkipScript(p, s, i) ==
  /\ Cli(p)
  /\ \/ Script[s][i].kind = "pipe" /\ scenario[p].skipPipes
     \/ scenario[p].atlassian /\ Script[s][i].name \in Skipped
-----------------------------------------------------------------------------
(* Run IDs, the environment. *)

CleanupDockerID(id) ==
  SubSeq(id, 1, IF Len(id) - 1 > MaxIdLength THEN MaxIdLength ELSE Len(id) - 1)

\* 0 is the step itself.
Items == UNION {0..Len(Script[s]) : s \in Steps}

RunIDs == [s \in Steps |-> [i \in 0..Len(Script[s]) |->
             CleanupDockerID(Project \o (IF i = 0 THEN StepName[s] ELSE Script[s][i].name))]]
RunID(c) == RunIDs[c[2]][c[3]]

\* Mutant: containers are found by what their run ID begins with.
Prefixed(id) == {c \in containers : IsPrefix(SubSeq(id, 1, Len(Project)), RunID(c))}

\* cleanupContainers: all containers of the daemon with the label.
Labelled(id) == {c \in containers : RunID(c) = id}

\* Destroy removes the first that is listed.  With a cancelled context it removes none,
\* and says nothing.
Destroy(p, id) ==
  IF p \in cancelled \/ Labelled(id) = {} THEN UNCHANGED containers
  ELSE \E c \in Labelled(id) : containers' = containers \ {c}

\* What a command of step s sees: of several values the daemon takes the last, and without
\* any the one that the container has from its image.
Visible(list, s) == IF list = <<>> THEN ImageValue[s] ELSE list[Len(list)]

SliceDistinct(list) ==
  LET kept[n \in 0..Len(list)] ==
        IF n = 0 THEN <<>>
        ELSE IF list[n] \in ToSet(kept[n - 1]) THEN kept[n - 1] ELSE Append(kept[n - 1], list[n])
  IN  kept[Len(list)]

\* Mutant: every command gets the environment of the step.
KeepNothing(list, s, exported) == list

\* ExecCommand: the environment after the command, whatever the command exported, goes
\* before the list so far.
KeepEnvironment(list, s, exported) ==
  IF ImageOf(s) \notin LinuxImages THEN list
  ELSE LET after == IF exported # Unset THEN exported ELSE Visible(list, s) IN
       SliceDistinct((IF after = Unset THEN <<>> ELSE <<after>>) \o list)
-----------------------------------------------------------------------------
(* The process. *)

Lives(p) == pc[p] \in {"started", "steps", "in step", "done"}
Goto(j, where) == at' = [at EXCEPT ![j] = where]
Failure == failures < MaxFailures /\ failures' = failures + 1

\* Removals that a process still owes: the deferred calls of Destroy.
Working == {"script", "pipe start", "pipe remove", "pipe create", "pipe", "pipe end", "close",
            "leave"}
HeldBy(p) ==
  {c \in {p} \X Steps \X Items :
     \/ c[3] = 0 /\ at[<<p, c[2]>>] \in Working
     \/ c[3] = item[<<p, c[2]>>] /\ at[<<p, c[2]>>] \in {"pipe", "pipe end"}}
Held == UNION {HeldBy(p) : p \in {q \in Processes : Lives(q)}}

\* The tokens for the API are asked for; PIPELINES_JWT_TOKEN is taken over.
Execute(p) ==
  /\ pc[p] = "idle" /\ pc' = [pc EXCEPT ![p] = "started"]
  /\ UNCHANGED <<scenario, result, plan, next, cancelled, step, containers, abandoned, ran, failures, deaths>>

End(p, res) == pc' = [pc EXCEPT ![p] = "done"] /\ result' = [result EXCEPT ![p] = res]

DetectBranch(p) ==
  /\ pc[p] = "started"
  /\ \/ /\ pc' = [pc EXCEPT ![p] = "steps"] /\ plan' = [plan EXCEPT ![p] = PlanOf(scenario[p])]
        /\ UNCHANGED <<result, failures>>
     \/ NeedsGit(scenario[p]) /\ Failure /\ End(p, "error") /\ UNCHANGED plan
  /\ UNCHANGED <<scenario, next, cancelled, step, containers, abandoned, ran, deaths>>

StartStep(p) ==
  /\ pc[p] = "steps" /\ next[p] <= Len(plan[p])
  /\ UNCHANGED plan /\ LET e == plan[p][next[p]] IN
     IF e.async
     THEN /\ next' = [next EXCEPT ![p] = @ + 1] /\ UNCHANGED pc
          /\ Goto(<<p, e.step>>, "queued")
     ELSE /\ pc' = [pc EXCEPT ![p] = "in step"] /\ UNCHANGED next
          /\ Goto(<<p, e.step>>, "start")
  /\ UNCHANGED <<scenario, result, cancelled, item, ok, env, closed, containers, abandoned, ran,
                 failures, deaths>>

EndStep(p) ==
  /\ pc[p] = "in step"
  /\ UNCHANGED plan /\ LET s == plan[p][next[p]].step IN
     \/ /\ at[<<p, s>>] = "done"
        /\ next' = [next EXCEPT ![p] = @ + 1] /\ pc' = [pc EXCEPT ![p] = "steps"]
        /\ UNCHANGED result
     \/ at[<<p, s>>] = "failed" /\ End(p, "error") /\ UNCHANGED next
  /\ UNCHANGED <<scenario, cancelled, step, containers, abandoned, ran, failures, deaths>>

\* Nobody waits for the steps that were started in parallel.
Return(p) ==
  /\ pc[p] = "steps" /\ next[p] > Len(plan[p])
  /\ End(p, "nil")
  /\ UNCHANGED <<scenario, plan, next, cancelled, step, containers, abandoned, ran, failures, deaths>>

Exit(p) ==
  /\ pc[p] = "done" /\ pc' = [pc EXCEPT ![p] = "exited"]
  /\ abandoned' = abandoned \union HeldBy(p)
  /\ UNCHANGED <<scenario, result, plan, next, cancelled, step, containers, ran, failures, deaths>>

\* The process is killed; or a step that has no container yet panics, because an answer of
\* the Bitbucket API that never came is dereferenced.
Die(p) ==
  /\ Lives(p) /\ deaths < MaxDeaths /\ deaths' = deaths + 1
  /\ pc' = [pc EXCEPT ![p] = "exited"]
  /\ abandoned' = abandoned \union HeldBy(p)
  /\ UNCHANGED <<scenario, result, plan, next, cancelled, step, containers, ran, failures>>
-----------------------------------------------------------------------------
(* A step. *)

In(p, s, where) == Lives(p) /\ at[<<p, s>>] = where

\* The group of the parallel steps cancels the context with the first error.
Cancel(p, s, res) ==
  cancelled' = IF res = "failed" /\ Async(p, s) THEN cancelled \union {p} ELSE cancelled

EndOfJob(p, s, res) == Goto(<<p, s>>, res) /\ Cancel(p, s, res)

Begun(p) == {s \in Steps : Async(p, s) /\ at[<<p, s>>] \notin {"idle", "queued", "done", "failed"}}

Acquire(p, s) ==
  /\ In(p, s, "queued")
  /\ \/ /\ scenario[p].limit \in Nat \ 1..Cardinality(Begun(p))
        /\ Goto(<<p, s>>, "start") /\ UNCHANGED cancelled
     \/ scenario[p].limit > 0 /\ p \in cancelled /\ EndOfJob(p, s, "failed")
  /\ UNCHANGED <<scenario, process, item, ok, env, closed, containers, abandoned, ran, failures, deaths>>

\* The environment, the image and the volumes.
StartOfStep(p, s) ==
  /\ In(p, s, "start")
  /\ \/ ImageOf(s) # "none" /\ Goto(<<p, s>>, "remove") /\ UNCHANGED <<cancelled, failures>>
     \/ /\ EndOfJob(p, s, "failed")
        /\ IF ImageOf(s) = "none" THEN UNCHANGED failures ELSE Failure
  /\ UNCHANGED <<scenario, process, item, ok, env, closed, containers, abandoned, ran, deaths>>

RemoveOrphan(p, s) ==
  /\ In(p, s, "remove") /\ Destroy(p, RunID(<<p, s, 0>>)) /\ Goto(<<p, s>>, "create")
  /\ UNCHANGED <<scenario, process, cancelled, item, ok, env, closed, abandoned, ran, failures, deaths>>

\* The creation may fail before or after there is a container.
FailToCreate(p, c) ==
  \/ p \in cancelled /\ UNCHANGED <<containers, abandoned, failures>>
  \/ Failure /\ UNCHANGED <<containers, abandoned>>
  \/ /\ p \notin cancelled /\ Failure
     /\ containers' = containers \union {c} /\ abandoned' = abandoned \union {c}

Create(p, s) ==
  /\ In(p, s, "create")
  /\ \/ /\ p \notin cancelled /\ Goto(<<p, s>>, "script")
        /\ containers' = containers \union {<<p, s, 0>>}
        /\ UNCHANGED <<cancelled, abandoned, failures>>
     \/ FailToCreate(p, <<p, s, 0>>) /\ EndOfJob(p, s, "failed")
  /\ UNCHANGED <<scenario, process, item, ok, env, closed, ran, deaths>>

\* From here on every error passes the deferred Destroy.
FailJob(p, s) == Goto(<<p, s>>, "leave") /\ ok' = [ok EXCEPT ![<<p, s>>] = FALSE]
NextItem(p, s) == item' = [item EXCEPT ![<<p, s>>] = @ + 1]
AtItem(p, s, kind) ==
  /\ In(p, s, "script") /\ item[<<p, s>>] \in DOMAIN Script[s]
  /\ Script[s][item[<<p, s>>]].kind = kind

Skip(p, s) ==
  /\ AtItem(p, s, "script") \/ AtItem(p, s, "pipe")
  /\ ShouldSkipScript(p, s, item[<<p, s>>]) /\ NextItem(p, s)
  /\ UNCHANGED <<scenario, process, cancelled, at, ok, env, closed, containers, abandoned, ran,
                 failures, deaths>>

\* What comes of a command in the container of a step: nothing without the container, and
\* an error when it prints to streams that a pipe has closed.
Runs(p, s, it) ==
  <<p, s, 0>> \in containers /\ p \notin cancelled /\ (it.prints => ~closed[<<p, s>>])

\* Mutant: the exit code of a command is not looked at.
RunScriptAnyway(p, s) ==
  /\ AtItem(p, s, "script") /\ ~ShouldSkipScript(p, s, item[<<p, s>>])
  /\ LET i == item[<<p, s>>] IN
     \/ /\ Runs(p, s, Script[s][i]) /\ NextItem(p, s)
        /\ env' = [env EXCEPT ![<<p, s>>] = KeepEnvironment(@, s, Script[s][i].exports)]
        /\ \/ ran' = [ran EXCEPT ![p] = Append(@, <<s, i>>)] /\ UNCHANGED failures
           \/ Failure /\ UNCHANGED ran
        /\ UNCHANGED <<at, ok>>
     \/ ~Runs(p, s, Script[s][i]) /\ FailJob(p, s) /\ UNCHANGED <<item, env, ran, failures>>
  /\ UNCHANGED <<scenario, process, cancelled, closed, containers, abandoned, deaths>>

\* That the environment cannot be read after a command is only a warning.
RunScript(p, s) ==
  /\ AtItem(p, s, "script") /\ ~ShouldSkipScript(p, s, item[<<p, s>>])
  /\ LET i == item[<<p, s>>] IN
     \/ /\ Runs(p, s, Script[s][i]) /\ NextItem(p, s)
        /\ \/ env' = [env EXCEPT ![<<p, s>>] = KeepEnvironment(@, s, Script[s][i].exports)]
              /\ UNCHANGED failures
           \/ ImageOf(s) \in LinuxImages /\ Failure /\ UNCHANGED env
        /\ ran' = [ran EXCEPT ![p] = Append(@, <<s, i>>)]
        /\ UNCHANGED <<at, ok>>
     \/ /\ FailJob(p, s) /\ UNCHANGED <<item, env, ran>>
        /\ IF Runs(p, s, Script[s][i]) THEN Failure ELSE UNCHANGED failures
  /\ UNCHANGED <<scenario, process, cancelled, closed, containers, abandoned, deaths>>

\* The explicit Destroy, then the streams are closed and their readers end.
DestroyAtEnd(p, s) ==
  /\ In(p, s, "script") /\ item[<<p, s>>] > Len(Script[s])
  /\ Destroy(p, RunID(<<p, s, 0>>)) /\ Goto(<<p, s>>, "close")
  /\ UNCHANGED <<scenario, process, cancelled, item, ok, env, closed, abandoned, ran, failures, deaths>>

Close(p, s) ==
  /\ In(p, s, "close") /\ closed' = [closed EXCEPT ![<<p, s>>] = TRUE]
  /\ Goto(<<p, s>>, "leave")
  /\ UNCHANGED <<scenario, process, cancelled, item, ok, env, containers, abandoned, ran, failures, deaths>>

\* Mutant: a step that failed leaves without its deferred call.
LeaveIfWell(p, s) ==
  /\ In(p, s, "leave")
  /\ IF ok[<<p, s>>] THEN Destroy(p, RunID(<<p, s, 0>>)) ELSE UNCHANGED containers
  /\ abandoned' = IF p \in cancelled THEN abandoned \union {<<p, s, 0>>} ELSE abandoned
  /\ EndOfJob(p, s, IF ok[<<p, s>>] THEN "done" ELSE "failed")
  /\ UNCHANGED <<scenario, process, item, ok, env, closed, ran, failures, deaths>>

\* The deferred Destroy.
Leave(p, s) ==
  /\ In(p, s, "leave")
  /\ Destroy(p, RunID(<<p, s, 0>>))
  /\ abandoned' = IF p \in cancelled THEN abandoned \union {<<p, s, 0>>} ELSE abandoned
  /\ EndOfJob(p, s, IF ok[<<p, s>>] THEN "done" ELSE "failed")
  /\ UNCHANGED <<scenario, process, item, ok, env, closed, ran, failures, deaths>>
-----------------------------------------------------------------------------
(* A pipe in the script of a step. *)

\* pipe.yml may have to be fetched.
StartPipe(p, s) ==
  /\ AtItem(p, s, "pipe") /\ ~ShouldSkipScript(p, s, item[<<p, s>>])
  /\ \/ Goto(<<p, s>>, "pipe remove") /\ UNCHANGED <<ok, failures>>
     \/ Failure /\ FailJob(p, s)
  /\ UNCHANGED <<scenario, process, cancelled, item, env, closed, containers, abandoned, ran, deaths>>

\* The same panic, but in a step that has deferred a Destroy.
NoAnswerInPipe(p, s) ==
  /\ AtItem(p, s, "pipe") /\ ~ShouldSkipScript(p, s, item[<<p, s>>])
  /\ deaths < MaxDeaths /\ deaths' = deaths + 1
  /\ pc' = [pc EXCEPT ![p] = "exited"]
  /\ Destroy(p, RunID(<<p, s, 0>>))
  /\ abandoned' = abandoned \union (HeldBy(p) \ (IF p \in cancelled THEN {} ELSE {<<p, s, 0>>}))
  /\ UNCHANGED <<scenario, result, plan, next, cancelled, step, ran, failures>>

RemovePipeOrphan(p, s) ==
  /\ In(p, s, "pipe remove") /\ Destroy(p, RunID(<<p, s, item[<<p, s>>]>>))
  /\ Goto(<<p, s>>, "pipe create")
  /\ UNCHANGED <<scenario, process, cancelled, item, ok, env, closed, abandoned, ran, failures, deaths>>

CreatePipe(p, s) ==
  /\ In(p, s, "pipe create")
  /\ LET c == <<p, s, item[<<p, s>>]>> IN
     \/ /\ p \notin cancelled /\ Goto(<<p, s>>, "pipe")
        /\ containers' = containers \union {c} /\ UNCHANGED <<ok, abandoned, failures>>
     \/ FailToCreate(p, c) /\ FailJob(p, s)
  /\ UNCHANGED <<scenario, process, cancelled, item, env, closed, ran, deaths>>

\* There are no commands, and only an image that is not based on Linux runs its own.
RunPipe(p, s) ==
  /\ In(p, s, "pipe") /\ Goto(<<p, s>>, "pipe end")
  /\ LET i == item[<<p, s>>] IN
     IF Script[s][i].image \in LinuxImages THEN UNCHANGED <<ok, ran, failures>>
     ELSE LET runs == <<p, s, i>> \in containers /\ p \notin cancelled IN
          \/ runs /\ ran' = [ran EXCEPT ![p] = Append(@, <<s, i>>)] /\ UNCHANGED <<ok, failures>>
          \/ /\ ok' = [ok EXCEPT ![<<p, s>>] = FALSE] /\ UNCHANGED ran
             /\ IF runs THEN Failure ELSE UNCHANGED failures
  /\ UNCHANGED <<scenario, process, cancelled, item, env, closed, containers, abandoned, deaths>>

\* Its deferred calls close the streams it shares with the step.
EndPipe(p, s) ==
  /\ In(p, s, "pipe end") /\ closed' = [closed EXCEPT ![<<p, s>>] = TRUE]
  /\ Destroy(p, RunID(<<p, s, item[<<p, s>>]>>))
  /\ abandoned' = IF p \in cancelled THEN abandoned \union {<<p, s, item[<<p, s>>]>>} ELSE abandoned
  /\ IF ok[<<p, s>>] THEN NextItem(p, s) /\ Goto(<<p, s>>, "script")
     ELSE Goto(<<p, s>>, "leave") /\ UNCHANGED item
  /\ UNCHANGED <<scenario, process, cancelled, ok, env, ran, failures, deaths>>
-----------------------------------------------------------------------------
Next ==
  \/ \E p \in Processes :
       \/ Execute(p) \/ DetectBranch(p) \/ StartStep(p) \/ EndStep(p) \/ Return(p)
       \/ Exit(p) \/ Die(p)
  \/ \E p \in Processes, s \in Steps :
       \/ Acquire(p, s) \/ StartOfStep(p, s) \/ RemoveOrphan(p, s)
       \/ Create(p, s) \/ Skip(p, s) \/ RunScript(p, s) \/ DestroyAtEnd(p, s)
       \/ Close(p, s) \/ Leave(p, s)
       \/ StartPipe(p, s) \/ NoAnswerInPipe(p, s) \/ RemovePipeOrphan(p, s)
       \/ CreatePipe(p, s) \/ RunPipe(p, s) \/ EndPipe(p, s)

Spec == Init /\ [][Next]_vars
-----------------------------------------------------------------------------
(* Correctness. *)

Ids == {RunID(c) : c \in containers}

\* Whatever fails and whoever removes whose containers: of each run ID there are never
\* more containers than processes that are still going to remove one, and those that were
\* left by a creation that failed half-way, a process that died or a context that was
\* cancelled.  A sequential run that ends by itself leaves nothing of that kind.
NoContainerForgotten ==
  \A id \in Ids : Cardinality(Labelled(id))
                    <= Cardinality({c \in Held \union abandoned : RunID(c) = id})

Sequential(p) == \A s \in Steps : ~Async(p, s)

\* The steps that are asked for, of the branch.
Chosen(x, s) ==
  /\ \E g \in ToSet(Groups(x)) : s \in ToSet(g.steps)
  /\ x.cli => x.step \in {"all", s}

\* The items of a process' pipeline that have something to run.
Wanted(p) ==
  {x \in Steps \X Items :
     /\ Chosen(scenario[p], x[1])
     /\ x[2] \in DOMAIN Script[x[1]] /\ ~ShouldSkipScript(p, x[1], x[2])
     /\ LET it == Script[x[1]][x[2]] IN ~(it.kind = "pipe" /\ it.image \in LinuxImages)}

\* The order of the configuration.
Precedes(x, s, t) ==
  LET groups == Groups(x) IN
  \E g, h \in DOMAIN groups :
    \E k \in DOMAIN groups[g].steps, l \in DOMAIN groups[h].steps :
      /\ groups[g].steps[k] = s /\ groups[h].steps[l] = t
      /\ g < h \/ (g = h /\ k < l)
Earlier(p, x, y) == Precedes(scenario[p], x[1], y[1]) \/ (x[1] = y[1] /\ x[2] < y[2])

\* A sequential run executes the steps of its branch, and the items of their scripts, in
\* order, each once and none of them after one that failed; when it returns no error, all
\* of them ran well.  (The pipes with an image based on Linux are not among them: their
\* commands are never run.  A parallel run promises nothing of the kind.)
SuccessMeansRan ==
  \A p \in Processes : Sequential(p) /\ Lives(p) =>
    /\ \A m, n \in DOMAIN ran[p] : m < n => Earlier(p, ran[p][m], ran[p][n])
    /\ \A x \in ToSet(ran[p]), y \in Wanted(p) : Earlier(p, y, x) => y \in ToSet(ran[p])
    /\ ToSet(ran[p]) \subseteq Wanted(p)
    /\ result[p] = "nil" => ToSet(ran[p]) = Wanted(p)

\* Others that may remove the container of step s: processes at work on, or past, a step or
\* pipe with the same run ID, and the step's own pipes up to the present one.
Rivals(p, s) ==
  {c \in Processes \X Steps \X Items :
     /\ c # <<p, s, 0>> /\ at[<<c[1], c[2]>>] # "idle"
     /\ \/ c[3] = 0
        \/ /\ c[3] \in DOMAIN Script[c[2]] /\ Script[c[2]][c[3]].kind = "pipe"
           /\ c[3] <= item[<<c[1], c[2]>>]
     /\ RunID(c) = RunID(<<p, s, 0>>)}

\* A step keeps its container up to the end of its script, unless something else whose name
\* comes to the same run ID has been started.
ContainerStays ==
  \A p \in Processes, s \in Steps :
    /\ Lives(p) /\ at[<<p, s>>] \in Working \ {"close", "leave"}
    /\ Rivals(p, s) = {}
    => <<p, s, 0>> \in containers

\* What the scripts of a step have exported so far.
Exported(p, s) ==
  {Script[s][x[2]].exports : x \in {y \in ToSet(ran[p]) : y[1] = s}} \ {Unset}

\* What a variable is before the first command: as PipelinesEnv has it, else the image.
Inherited(p, s) == IF scenario[p].given # Unset THEN scenario[p].given ELSE ImageValue[s]

Known(p, s) == (Exported(p, s) \union {Inherited(p, s)}) \ {Unset}

\* Nothing is made up and nothing is lost, whatever the scripts, pipes and other processes
\* do: the next command of a step on Linux sees a value that a command before it exported
\* or that was inherited; and unless a call of the daemon failed, all that was exported is
\* still carried, and a variable that has a value is not unset.  With one value that is the
\* one.  With several (two exports, or one of a variable that was inherited) it is any of
\* them, seldom the one exported last: the dump after each command goes before the list, and
\* of the list the last counts.
EnvironmentIsKept ==
  \A p \in Processes, s \in Steps :
    at[<<p, s>>] = "script" /\ ImageOf(s) \in LinuxImages =>
      /\ Visible(env[<<p, s>>], s) \in Known(p, s) \union {Unset}
      /\ failures = 0 =>
           /\ Exported(p, s) \subseteq ToSet(env[<<p, s>>])
           /\ Visible(env[<<p, s>>], s) = Unset => Known(p, s) = {}
=============================================================================
