----------------------------- MODULE Definitions -----------------------------
(***************************************************************************)
(* How a command finds the effective definitions of a module: of its       *)
(* build and deployment, the tasks its steps name and its Docker images.   *)
(*                                                                         *)
(* Definitions are calculated in a context, whose build args the           *)
(* calculation replaces by what it found, and put into caches that all     *)
(* contexts of a process share, under a hash of the context.  Contexts are *)
(* copied (NewBuildContext): "command" is the one of the command line,     *)
(* "module" its copy for a module, "run" the copy in which RunSteps works. *)
(* Maps are shared where the code copies the struct that holds them: a     *)
(* returned definition and the cached one have the same maps.              *)
(*                                                                         *)
(* One module of the project is followed.  What ${task:...} and            *)
(* ${project:version} add to this is in TaskExecution and Versions.        *)
(***************************************************************************)
EXTENDS RunDefinitions, FiniteSets

CONSTANTS
  Projects,  \* the projects considered
  Env        \* the environment that is deployed to

\* A section is [build, deploy, envs, images]; envs maps Env to a run
\* definition, if the section has it.  A step is [kind, task, env], an image
\* [arg, after]: the value of a build argument and the tasks after its build,
\* or "" for scripts.
VARIABLES
  project,   \* the file: sections, tasks, profiles and the command line
  command,   \* [kind, task, module]: "run", "build", "deploy" or "images"
  envs,      \* profile |-> the envs of its section, as they are in memory
  args,      \* build args of the contexts
  marks,     \* executingTasks
  cache,     \* the four caches of the root definition
  at,        \* where the command is
  todo,      \* steps or tasks that are left
  current,   \* key of the cached definition whose maps RunSteps holds
  seen,      \* the tasks whose definition was calculated
  got        \* what the last call returned

frozen == <<project, command>>
vars == <<frozen, envs, args, marks, cache, at, todo, current, seen, got>>

Deploying == command.kind = "deploy"
Module == project.module
Profile(p) == project.profiles[p]
None == [kind |-> "none"]

\* NewCommonContext and NewBuildContext copy the args.
Copy(from, to) == [args EXCEPT ![to] = args[from]]
-----------------------------------------------------------------------------
(* Profiles.                                                               *)

\* Those of the command line come first and in its order; those that a mode
\* or a condition activates follow as the map of profiles gives them.
ActiveProfiles ==
  LET Named == SelectSeq(project.named, LAMBDA p : p \in DOMAIN project.profiles)
  IN  {Named \o more : more \in SetToSeqs(project.activated \ ToSet(Named))}

\* MergeDeployEnvironments, for the environment deployed to: what the module
\* says of it, then the profiles, then the defaults.
EnvRun(order) ==
  LET Have(s) == Env \in DOMAIN s
      Found == (IF Have(Module.envs) THEN <<Module.envs[Env]>> ELSE <<>>)
               \o [i \in DOMAIN SelectSeq(order, LAMBDA p : Have(envs[p])) |->
                     envs[SelectSeq(order, LAMBDA p : Have(envs[p]))[i]][Env]]
               \o (IF Have(project.default.envs) THEN <<project.default.envs[Env]>> ELSE <<>>)
  IN  FoldLeft(LAMBDA run, from : MergeRunDefinitions(from, run),
               [args |-> NoEntries, env |-> NoEntries, volumes |-> <<>>, workDir |-> ""], Found)

\* Without an environment of the module AddIfNotExist takes over the first
\* profile's, maps included: what is merged into it stays in the profile.
EnvsAfter(order) ==
  LET Holders == SelectSeq(order, LAMBDA p : Env \in DOMAIN envs[p])
      Keep(map, merged) == IF map = NoEntries THEN map ELSE merged
  IN  IF Env \in DOMAIN Module.envs \/ Holders = <<>> THEN envs
      ELSE [envs EXCEPT ![Holders[1]] =
              [@ EXCEPT ![Env] = [@ EXCEPT !.args = Keep(@, EnvRun(order).args),
                                           !.env = Keep(@, EnvRun(order).env)]]]
-----------------------------------------------------------------------------
(* Calculating definitions.                                                *)

\* Mutant: the args of the command line are merged last.
CalcArgsLast(res, given, order, deploying) ==
  LET From(section, def) ==
        Inherit(section.build, IF deploying THEN Inherit(section.deploy, def) ELSE def)
      merged == From(project.default, FoldLeft(LAMBDA def, p : From(Profile(p), def), res, order))
      crossed == CrossReferences([merged EXCEPT !.args = MergeMapIfEmpty(given, @)])
  IN  [def |-> ApplyTemplates(crossed, crossed.args), args |-> crossed.args, env |-> crossed.env]

\* calcActualBuildDefinitionFor: the definition and the context's args after
\* it (and the env before the last pass over the templates).
CalcActualBuildDefinitionFor(res, given, order, deploying) ==
  LET From(section, def) ==
        Inherit(section.build, IF deploying THEN Inherit(section.deploy, def) ELSE def)
      started == [res EXCEPT !.args = MergeMapIfEmpty(@, given)]
      merged == From(project.default, FoldLeft(LAMBDA def, p : From(Profile(p), def), started, order))
      crossed == CrossReferences(merged)
  IN  [def |-> ApplyTemplates(crossed, crossed.args), args |-> crossed.args, env |-> crossed.env]

\* The calculation of ActualDeployDefinitionFor.  ActiveProfiles is called
\* anew for the environments, the definition and what is left empty by it.
CalcDeploy(given, envOrder, order, deployOrder, buildOrder) ==
  LET withEnv == IF project.deployTo = <<>> THEN Module.deploy
                 ELSE MergeRunDefinitions(EnvRun(envOrder), Module.deploy)
      calc == CalcActualBuildDefinitionFor(MergeRunDefinitions(Module.build, withEnv), given, order, TRUE)
      refilled == FoldLeft(LAMBDA def, from : MergeRunDefinitions(from, def), calc.def,
                    <<Module.build>>
                    \o [i \in DOMAIN deployOrder |-> Profile(deployOrder[i]).deploy]
                    \o [i \in DOMAIN buildOrder |-> Profile(buildOrder[i]).build]
                    \o <<project.default.deploy, project.default.build>>)
  IN  [def |-> ApplyTemplates(refilled, calc.args), args |-> calc.args]
-----------------------------------------------------------------------------
(* The caches.                                                             *)

\* CalcHash: what differs between the contexts of a process.  The deploy
\* context is not in it.  gob writes the entries of a map in no particular
\* order: a context with two args, or two marks, has more than one hash.
CalcHash(given) ==
  {[args |-> given, marks |-> marks, order |-> i] :
     i \in 1..(IF Cardinality(DOMAIN given) > 1 \/ Cardinality(DOMAIN marks) > 1 THEN 2 ELSE 1)}

ModuleKeys(given) == CalcHash(given)
TaskKeys(given, t, module) == {[hash |-> h, task |-> t, module |-> module] : h \in CalcHash(given)}

Put(map, key, def) == [k \in {key} \cup DOMAIN map |-> IF k = key THEN def ELSE map[k]]

\* What a call returns (def), the context's args and the caches after it.
FromCache(def, key, given) ==
  {[def |-> def, key |-> key, args |-> given, cache |-> cache, envs |-> envs]}

\* The outcomes of ActualBuildDefinitionFor in a context with these args.
\* Neither the deep copies through YAML nor the merging fails for a file that
\* could be read.
ActualBuildDefinitionFor(given) ==
  UNION {IF key \in DOMAIN cache.build THEN FromCache(cache.build[key], key, given)
         ELSE {LET calc == CalcActualBuildDefinitionFor(Module.build, given, order, FALSE)
               IN  [def |-> calc.def, key |-> key, args |-> calc.args, envs |-> envs,
                    cache |-> [cache EXCEPT !.build = Put(@, key, calc.def)]]
               : order \in ActiveProfiles}
         : key \in ModuleKeys(given)}

ActualDeployDefinitionFor(given) ==
  UNION {IF key \in DOMAIN cache.deploy THEN FromCache(cache.deploy[key], key, given)
         ELSE {LET calc == CalcDeploy(given, o[1], o[2], o[3], o[4])
               IN  [def |-> calc.def, key |-> key, args |-> calc.args, envs |-> EnvsAfter(o[1]),
                    cache |-> [cache EXCEPT !.deploy = Put(@, key, calc.def)]]
               : o \in [1..4 -> ActiveProfiles]}
         : key \in ModuleKeys(given)}

\* What calcModuleBuildRunContext may give a copy of a context.
RunContexts(given) ==
  IF Deploying THEN ActualDeployDefinitionFor(given) ELSE ActualBuildDefinitionFor(given)
-----------------------------------------------------------------------------
(* Tasks.                                                                  *)

Task(t) == project.tasks[t]
ApplyTaskTemplates(task, given) ==
  [ApplyTemplates(task, given) EXCEPT !.script = ApplyTemplate(@, given)]

\* The args of the caller's context that are not empty replace the task's own.
WithArgs(task, given, tplArgs) ==
  [task EXCEPT !.args = OverrideMapValuesIfNotEmpty(ApplyTemplateOnValuesMap(given, tplArgs), @)]

\* ActualTaskDefinitionForRawTask from where the definition of the module
\* (base, in a context with the args tplArgs) is known.
FinishTask(raw, given, base, tplArgs) ==
  LET own == WithArgs(raw, given, tplArgs)
      build == ApplyTemplates(MergeRunDefinitions(own, base), tplArgs)
      args2 == OverrideMapValuesIfNotEmpty(own.args, tplArgs)
      merged == MergeRunDefinitions(build, ApplyTaskTemplates(own, args2))
      task == [merged EXCEPT !.script = ApplyTemplate(@, args2)]
      args3 == MergeMapIfEmpty(task.args, args2)
  IN  [def |-> ApplyTaskTemplates(task, args3), args |-> args3]

\* Merging the task into the module's definition changes the maps of the
\* cached definition, which are the same.
Shared(map, key, task) ==
  IF key \notin DOMAIN map THEN map
  ELSE [map EXCEPT ![key] = [@ EXCEPT !.args = MergeMapIfEmpty(task.args, @),
                                      !.env = MergeMapIfEmpty(task.env, @)]]

\* For a task of the module the context is a copy that calculates the module's
\* definition, unless the cache has it; then its args are only the caller's.
TaskOfModule(t, given) ==
  LET Calculated(key, run) ==
        LET finished == FinishTask(Task(t), given, run.def, run.args)
            own == WithArgs(Task(t), given, run.args)
        IN  [def |-> finished.def, key |-> run.key, args |-> given, envs |-> run.envs,
             cache |-> [run.cache EXCEPT
                          !.build = IF Deploying THEN @ ELSE Shared(@, run.key, own),
                          !.deploy = IF Deploying THEN Shared(@, run.key, own) ELSE @,
                          !.task = Put(@, key, finished.def)]]
  IN  UNION {IF key \in DOMAIN cache.task THEN FromCache(cache.task[key], key.hash, given)
             ELSE {Calculated(key, run) : run \in RunContexts(given)}
             : key \in TaskKeys(given, t, TRUE)}

\* Without a module the defaults are merged into the task, in the caller's
\* own context.
TaskOfProject(t, given) ==
  LET Calculated(key, order) ==
        LET raw == Task(t)
            calc == CalcActualBuildDefinitionFor(
                      [args |-> raw.args, env |-> raw.env, volumes |-> raw.volumes,
                       workDir |-> raw.workDir, steps |-> <<>>], given, order, FALSE)
            finished == FinishTask([raw EXCEPT !.env = calc.env], calc.args, calc.def, calc.args)
        IN  [def |-> finished.def, key |-> key.hash, args |-> finished.args, envs |-> envs,
             cache |-> [cache EXCEPT !.task = Put(@, key, finished.def)]]
  IN  UNION {IF key \in DOMAIN cache.task THEN FromCache(cache.task[key], key.hash, given)
             ELSE {Calculated(key, order) : order \in ActiveProfiles}
             : key \in TaskKeys(given, t, FALSE)}

\* Without images of its own a module has those of the first active profile
\* that has any, then the default ones.
ImagesOf(order) ==
  LET Having == SelectSeq(order, LAMBDA p : Profile(p).images # <<>>)
  IN  IF Module.images # <<>> THEN Module.images
      ELSE IF Having # <<>> THEN Profile(Having[1]).images ELSE project.default.images

Templated(images, given) == [i \in DOMAIN images |-> [images[i] EXCEPT !.arg = ApplyTemplate(@, given)]]

\* The module's context takes over the args of its build definition.
ActualDockerImagesDefinitionFor(given) ==
  LET Calculated(key, build, order) ==
        LET images == Templated(ImagesOf(order), build.def.args)
        IN  [def |-> images, key |-> key, args |-> build.def.args, envs |-> envs,
             cache |-> [build.cache EXCEPT !.images = Put(@, key, images)]]
  IN  UNION {IF key \in DOMAIN cache.images THEN FromCache(cache.images[key], key, given)
             ELSE {Calculated(key, build, order) : build \in ActualBuildDefinitionFor(given),
                                                   order \in ActiveProfiles}
             : key \in ModuleKeys(given)}
-----------------------------------------------------------------------------
(* The commands.                                                           *)

Init ==
  /\ project \in Projects
  /\ command \in project.commands
  /\ envs = [p \in DOMAIN project.profiles |-> project.profiles[p].envs]
  /\ args = [command |-> project.cli, module |-> NoEntries, run |-> NoEntries]
  /\ marks = NoEntries
  /\ cache = [build |-> NoEntries, deploy |-> NoEntries, task |-> NoEntries, images |-> NoEntries]
  /\ at = "start" /\ todo = <<>> /\ current = None /\ seen = {} /\ got = None

\* o became of a call in ctx.
Take(o, ctx, kind, name) ==
  /\ cache' = o.cache /\ envs' = o.envs
  /\ got' = [kind |-> kind, name |-> name, def |-> o.def, given |-> args[ctx]]

Mark(t, value) == marks' = [k \in {t} \cup DOMAIN marks |-> IF k = t THEN value ELSE marks[k]]

\* welder run <task>: the command's own context, with or without a module.
RunTask ==
  /\ at = "start" /\ command.kind = "run" /\ command.task # ""
  /\ \E o \in IF command.module THEN TaskOfModule(command.task, args.command)
                                ELSE TaskOfProject(command.task, args.command) :
       /\ Take(o, "command", "task", command.task)
       /\ args' = [args EXCEPT !.command = o.args]
  /\ Mark(command.task, TRUE)
  /\ seen' = seen \cup {command.task}
  /\ at' = "done"
  /\ UNCHANGED <<frozen, todo, current>>

\* welder run <command>: the module's environment, and if its step is a task,
\* the task's, calculated in the same context of the command.
RunCommand ==
  /\ at = "start" /\ command.kind = "run" /\ command.task = ""
  /\ \E o \in ActualBuildDefinitionFor(args.command) :
       /\ Take(o, "command", "build", "")
       /\ args' = [args EXCEPT !.run = o.args]
       /\ todo' = o.def.steps
       /\ at' = IF o.def.steps = <<>> THEN "done" ELSE "environment"   \* step does not exist
  /\ UNCHANGED <<frozen, marks, current, seen>>

RunCommandInTask ==
  /\ at = "environment"
  /\ IF todo[1].kind = "task"
     THEN /\ \E o \in TaskOfModule(todo[1].task, args.command) : Take(o, "command", "task", todo[1].task)
          /\ Mark(todo[1].task, TRUE)
          /\ seen' = seen \cup {todo[1].task}
     ELSE UNCHANGED <<marks, cache, envs, seen, got>>
  /\ at' = "done"
  /\ UNCHANGED <<frozen, args, todo, current>>

\* forEachModule copies the context for the module.
StartModule ==
  /\ at = "start" /\ command.kind # "run"
  /\ args' = Copy("command", "module")
  /\ at' = IF command.kind = "images" THEN "images" ELSE "steps"
  /\ UNCHANGED <<frozen, envs, marks, cache, todo, current, seen, got>>

\* RunSteps: the module's definition, in the copy that its steps work with.
StartSteps ==
  /\ at = "steps"
  /\ \E o \in RunContexts(args.module) :
       /\ Take(o, "module", command.kind, "")
       /\ args' = [args EXCEPT !.run = o.args]
       /\ todo' = o.def.steps
       /\ current' = o.key
  /\ at' = "step"
  /\ UNCHANGED <<frozen, marks, seen>>

\* The definition that RunSteps holds, as its maps are now.
Held == IF Deploying THEN cache.deploy[current] ELSE cache.build[current]


\* The step's own settings, then the module's.
ActualStepsDefinitionFor(step) == [Held EXCEPT !.env = MergeMapIfEmpty(@, step.env)]

ScriptStep ==
  /\ at = "step" /\ todo # <<>> /\ todo[1].kind = "script"
  /\ got' = [kind |-> "step", name |-> todo[1], given |-> args.run,
             def |-> ActualStepsDefinitionFor(todo[1])]
  /\ todo' = Tail(todo)
  /\ UNCHANGED <<frozen, envs, args, marks, cache, at, current, seen>>

\* The mark stays until RunSteps returns.
TaskStep ==
  /\ at = "step" /\ todo # <<>> /\ todo[1].kind = "task"
  /\ \E o \in TaskOfModule(todo[1].task, args.run) : Take(o, "run", "task", todo[1].task)
  /\ Mark(todo[1].task, TRUE)
  /\ seen' = seen \cup {todo[1].task}
  /\ todo' = Tail(todo)
  /\ UNCHANGED <<frozen, args, at, current>>

\* A pipe takes the volumes of the module's build definition, in a deployment
\* as well.
PipeStep ==
  /\ at = "step" /\ todo # <<>> /\ todo[1].kind = "pipe"
  /\ \E o \in ActualBuildDefinitionFor(args.run) :
       /\ Take(o, "run", "pipe", "")
       /\ args' = [args EXCEPT !.run = o.args]
  /\ todo' = Tail(todo)
  /\ UNCHANGED <<frozen, marks, at, current, seen>>

EndSteps ==
  /\ at = "step" /\ todo = <<>>
  /\ marks' = [t \in DOMAIN marks |-> FALSE]
  /\ at' = "done"
  /\ UNCHANGED <<frozen, envs, args, cache, todo, current, seen, got>>

\* BuildDocker: the images of the module, in the module's own context, and
\* the tasks after their builds, in copies of it.
StartImages ==
  /\ at = "images"
  /\ \E o \in ActualDockerImagesDefinitionFor(args.module) :
       /\ Take(o, "module", "images", "")
       /\ args' = [args EXCEPT !.module = o.args]
       /\ todo' = FlattenSeq([i \in DOMAIN o.def |-> o.def[i].after])
  /\ at' = "after"
  /\ UNCHANGED <<frozen, marks, current, seen>>

\* runAfterTasks marks the task for as long as it runs.
AfterTask ==
  /\ at = "after" /\ todo # <<>> /\ todo[1] # ""
  /\ \E o \in TaskOfModule(todo[1], args.module) : Take(o, "module", "task", todo[1])
  /\ Mark(todo[1], FALSE)
  /\ seen' = seen \cup {todo[1]}
  /\ todo' = Tail(todo)
  /\ UNCHANGED <<frozen, args, at, current>>

\* RunScriptsOfSimpleStep: scripts ("" stands for them) see the module's build
\* definition, in a copy of the module's context.
AfterScripts ==
  /\ at = "after" /\ todo # <<>> /\ todo[1] = ""
  /\ \E o \in ActualBuildDefinitionFor(args.module) : Take(o, "module", "build", "")
  /\ todo' = Tail(todo)
  /\ UNCHANGED <<frozen, args, marks, at, current, seen>>

\* PushDocker or another command in the same process would start over here.
EndImages ==
  /\ at = "after" /\ todo = <<>>
  /\ at' = "done"
  /\ UNCHANGED <<frozen, envs, args, marks, cache, todo, current, seen, got>>

Next ==
  \/ RunTask \/ RunCommand \/ RunCommandInTask
  \/ StartModule \/ StartSteps \/ ScriptStep \/ TaskStep \/ PipeStep \/ EndSteps
  \/ StartImages \/ AfterTask \/ AfterScripts \/ EndImages

Spec == Init /\ [][Next]_vars
-----------------------------------------------------------------------------
(* Properties.                                                             *)

\* What the first of these maps that has something for k says.
First(maps, k) ==
  LET Saying == SelectSeq(maps, LAMBDA m : k \in DOMAIN m /\ m[k] # "")
  IN  IF Saying = <<>> THEN "" ELSE Saying[1][k]

Names(maps) == UNION {DOMAIN maps[i] : i \in DOMAIN maps}
At(map, k) == IF k \in DOMAIN map THEN map[k] ELSE ""

\* What a placeholder may stand for: its default, or the argument as one of
\* the sections or the command line has it (it is replaced when the section
\* that holds it is calculated, with the arguments known there).
MayBe(v, argMaps) ==
  IF v \notin DOMAIN Refs THEN {v}
  ELSE {Refs[v].or} \cup {argMaps[i][Refs[v].arg] : i \in {j \in DOMAIN argMaps : Refs[v].arg \in DOMAIN argMaps[j]}}

\* map has, for every name, what the first of maps says; what none of them
\* mentions can only come from a task met before.
FollowsFirst(map, field, maps, argMaps) ==
  /\ \A k \in Names(maps) : First(maps, k) # "" => At(map, k) \in MayBe(First(maps, k), argMaps)
  /\ \A k \in DOMAIN map :
       map[k] = "" \/ First(maps, k) # "" \/ \E t \in seen : k \in DOMAIN Task(t)[field]

EnvsInOrder(order) ==
  LET Have(s) == IF Env \in DOMAIN s THEN <<s[Env]>> ELSE <<>>
  IN  Have(Module.envs) \o FlattenSeq([i \in DOMAIN order |-> Have(Profile(order[i]).envs)])
        \o Have(project.default.envs)

\* The sections a definition inherits from, the nearest first.
Sections(deploying, order) ==
  IF deploying
  THEN <<Module.deploy>> \o (IF project.deployTo = <<>> THEN <<>> ELSE EnvsInOrder(order))
       \o <<Module.build>>
       \o FlattenSeq([i \in DOMAIN order |-> <<Profile(order[i]).deploy, Profile(order[i]).build>>])
       \o <<project.default.deploy, project.default.build>>
  ELSE <<Module.build>> \o [i \in DOMAIN order |-> Profile(order[i]).build]
       \o <<project.default.build>>

Of(field, sections) == [i \in DOMAIN sections |-> sections[i][field]]

FirstWorkDir(sections) ==
  LET Saying == SelectSeq(sections, LAMBDA s : s.workDir # "")
  IN  IF Saying = <<>> THEN "" ELSE Saying[1].workDir

\* A build or deployment definition, calculated or cached, whatever was
\* calculated before it: an argument comes from the command line, else, like
\* an environment variable or the working directory, from the first section
\* that has it: the module, its environment, the profiles in the order they
\* are active, the defaults.
DefinitionsInherit ==
  got.kind \in {"build", "deploy", "pipe"} =>
    \E order \in ActiveProfiles :
      LET from == Sections(got.kind = "deploy", order)
          argMaps == <<got.given>> \o Of("args", from)
      IN  /\ FollowsFirst(got.def.args, "args", argMaps, argMaps)
          /\ FollowsFirst(got.def.env, "env", Of("env", from), argMaps)
          /\ got.def.workDir = FirstWorkDir(from)

\* A task has its own variables and working directory before any inherited
\* ones.  Its own arguments come after those of the command line, and before
\* those of the sections if a command asked for the task (welder run).  As a
\* step, or after images, it is given all the module's arguments in its caller's
\* context: they replace its own, against profiles-and-modes.md:70-71, for
\* which a task overrides the module, the profiles and the defaults.
TasksInherit ==
  got.kind = "task" =>
    \E order \in ActiveProfiles :
      LET of == Task(got.name)
          inherited == IF command.module THEN Sections(Deploying, order)
                       ELSE Tail(Sections(FALSE, order))
          from == <<of>> \o inherited
          argMaps == <<project.cli>>
                       \o Of("args", IF command.kind = "run" THEN from ELSE Append(inherited, of))
      IN  /\ FollowsFirst(got.def.args, "args", argMaps, argMaps)
          /\ FollowsFirst(got.def.env, "env", Of("env", from), argMaps)
          /\ got.def.workDir = FirstWorkDir(from)

\* A script of a module sees the step's variables, else the module's, the
\* tasks that ran before it notwithstanding.
StepsInherit ==
  got.kind = "step" =>
    \E order \in ActiveProfiles :
      LET from == Sections(Deploying, order)
      IN  FollowsFirst(got.def.env, "env", <<got.name.env>> \o Of("env", from), <<got.given>> \o Of("args", from))

\* An image is built by the nearest section that has images, and its build
\* arguments refer to the arguments of the module's build.
ImagesInherit ==
  got.kind = "images" =>
    \E order \in ActiveProfiles :
      LET from == <<Module>> \o [i \in DOMAIN order |-> Profile(order[i])] \o <<project.default>>
          having == SelectSeq(from, LAMBDA s : s.images # <<>>)
      IN  IF having = <<>> THEN got.def = <<>>
          ELSE /\ Len(got.def) = Len(having[1].images)
               /\ \A i \in DOMAIN got.def :
                    LET v == having[1].images[i].arg
                    IN  got.def[i].arg = IF v \notin DOMAIN Refs THEN v
                                         ELSE LET x == First(<<got.given>> \o Of("args", Sections(FALSE, order)), Refs[v].arg)
                                              IN  IF x = "" THEN Refs[v].or ELSE x

\* What a module, a deployment or a pipe is built with, and its images.
ModulesInherit == DefinitionsInherit /\ ImagesInherit

=============================================================================
