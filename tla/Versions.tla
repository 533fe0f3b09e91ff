------------------------------- MODULE Versions -------------------------------
(***************************************************************************)
(* The version of a project: how commands read it from welder.yaml, how    *)
(* `welder version` changes it there, and how ${project:version} in        *)
(* definitions is resolved.                                                *)
(*                                                                         *)
(* An actor is a `welder version` command or a module that is being built; *)
(* modules of one build are actors of one process.  To resolve the version *)
(* a module's definition is calculated, whose values may refer to the      *)
(* version again; a counter that all contexts of a process share is to     *)
(* stop that.                                                              *)
(***************************************************************************)
EXTENDS Integers, Sequences, FiniteSets

CONSTANTS
  Actors,
  Scenarios   \* [doc, command, where, process, refs, limit, rename]

\* Versions in the file are numbers above 0; None is no version, Templated one that
\* has placeholders in it.
None == 0
Templated == -1
NewVersion == 9    \* what `version set` is given

\* A version frame is [kind, at], a frame of a definition [kind, left].
VARIABLES
  scenario,  \* command of an actor, its module (0: none) and process, references of a
             \* definition, limit of nested resolutions (4 in the code), ...
  file,      \* welder.yaml: [whole, root, mods]
  pc,
  doc,       \* the file as the actor read it
  value,     \* the version to write
  temp,      \* the temporary file
  bad,       \* the update of it failed
  calls,     \* resolutions and calculations under way, the innermost first
  loaded,    \* what an increment or a decrement read
  depth,     \* the counter of a process
  cached,    \* actors whose module's definition is in the cache
  outcome,   \* of an actor's own references, one after the other
  meddled,   \* somebody else replaced the file since the actor read it
  causes     \* what may have damaged the file

Contents == [whole : BOOLEAN, root : Nat \cup {Templated}, mods : Seq(Nat \cup {Templated})]

ASSUME ScenariosAssumption ==
  \A s \in Scenarios :
    /\ s.doc \in Contents /\ s.doc.whole
    /\ s.command \in [Actors -> {"none", "print", "build", "bump", "set"}]
    /\ s.where \in [Actors -> 0..Len(s.doc.mods)]
    /\ s.process \in [Actors -> Actors]
    /\ s.refs \in Nat /\ s.limit \in Nat \ {0} /\ s.rename \in BOOLEAN

editing == <<doc, value, temp, bad, meddled, causes>>
resolving == <<calls, loaded, depth, cached, outcome>>
versionsVars == <<scenario, file, pc, editing, resolving>>

Command(a) == scenario.command[a]
Where(a) == scenario.where[a]
Process(a) == scenario.process[a]
Empty == [whole |-> FALSE, root |-> None, mods |-> <<>>]

\* ActualVersion, and the project's version without a module.
Unresolved(d, m) == IF m # 0 /\ d.mods[m] # None THEN d.mods[m] ELSE d.root

\* Mutant: a module that inherits its version has the project's changed.
TargetOfOwn(d, m) == IF m # 0 /\ d.mods[m] # None /\ d.root = None THEN m ELSE 0

\* SetVersionInConfig: the module whose version is written; 0: the project's.
Target(d, m) ==
  IF m # 0 /\ (Len(d.mods) > 1 \/ (d.mods[m] # None /\ d.root = None)) THEN m ELSE 0

Modify(d, target, v) == IF target = 0 THEN [d EXCEPT !.root = v] ELSE [d EXCEPT !.mods[target] = v]

Define == [kind |-> "define", left |-> scenario.refs]
Version == [kind |-> "version", at |-> "load"]
Top(a) == Head(calls[a])
At(a, step) == pc[a] = "resolve" /\ Top(a).kind = "version" /\ Top(a).at = step
Defining(a) == pc[a] = "resolve" /\ Top(a).kind = "define"

Ended == {"done", "failed", "crashed"}

VersionsInit ==
  /\ scenario \in Scenarios
  /\ file = scenario.doc
  /\ pc = [a \in Actors |-> IF Command(a) = "none" THEN "done" ELSE "start"]
  /\ doc = [a \in Actors |-> Empty] /\ value = [a \in Actors |-> None]
  /\ temp = [a \in Actors |-> Empty] /\ bad = [a \in Actors |-> FALSE]
  /\ calls = [a \in Actors |-> <<>>] /\ loaded = [a \in Actors |-> 0]
  /\ depth = [a \in Actors |-> 0] /\ cached = {} /\ outcome = [a \in Actors |-> <<>>]
  /\ meddled = [a \in Actors |-> FALSE] /\ causes = {}

Goto(a, step) == pc' = [pc EXCEPT ![a] = step]
-----------------------------------------------------------------------------
(* Reading and changing the file.                                          *)

\* NewVersionCtx and, for a build, forEachModule.
Read(a) ==
  /\ pc[a] = "start"
  /\ doc' = [doc EXCEPT ![a] = file] /\ meddled' = [meddled EXCEPT ![a] = FALSE]
  /\ LET v == Unresolved(file, Where(a))
     IN  \/ ~file.whole /\ Goto(a, "failed") /\ UNCHANGED <<value, calls>>
         \/ /\ file.whole /\ Command(a) = "print"
            /\ Goto(a, IF v = None THEN "failed" ELSE "resolve")
            /\ calls' = [calls EXCEPT ![a] = <<Version>>]
            /\ UNCHANGED value
         \/ /\ file.whole /\ Command(a) = "build"
            /\ Goto(a, "resolve")
            /\ calls' = [calls EXCEPT ![a] = <<Define>>]
            /\ UNCHANGED value
         \/ /\ file.whole /\ Command(a) = "bump"    \* parseSemVer may fail
            /\ Goto(a, IF v \in {None, Templated} THEN "failed" ELSE "open")
            /\ value' = [value EXCEPT ![a] = v + 1]
            /\ UNCHANGED calls
         \/ /\ file.whole /\ Command(a) = "set"
            /\ Goto(a, "open")
            /\ value' = [value EXCEPT ![a] = NewVersion]
            /\ UNCHANGED calls
  /\ UNCHANGED <<scenario, file, temp, bad, loaded, depth, cached, outcome, causes>>

\* Mutant: the file is replaced even if there is no temporary one.
OpenTempAnyway(a) ==
  /\ pc[a] = "open"
  /\ \E step \in {"update", "replace"} : Goto(a, step)
  /\ UNCHANGED <<scenario, file, editing, resolving>>

\* Stat, TempFile and Chmod; what fails here is returned at once.
OpenTemp(a) ==
  /\ pc[a] = "open"
  /\ \E step \in {"update", "failed"} : Goto(a, step)
  /\ UNCHANGED <<scenario, file, editing, resolving>>

\* The documents of the file as it is now, each with the version changed, go
\* to the temporary file.  An empty file has none, which is no error.
Update(a) ==
  /\ pc[a] = "update"
  /\ \E fails \in BOOLEAN :
       /\ bad' = [bad EXCEPT ![a] = fails]
       /\ temp' = [temp EXCEPT ![a] =
            IF fails \/ ~file.whole THEN Empty ELSE Modify(file, Target(doc[a], Where(a)), value[a])]
       /\ causes' = causes \cup (IF fails THEN {"fault"} ELSE {})
                           \cup (IF file.whole THEN {} ELSE {"race"})
  /\ Goto(a, "replace")
  /\ UNCHANGED <<scenario, file, doc, value, resolving, meddled>>

Replaced(a, content) ==
  /\ file' = content
  /\ meddled' = [b \in Actors |-> meddled[b] \/ b # a]

\* The deferred renaming, whether or not the update succeeded; between file
\* systems the file is created anew and copied.
Replace(a) ==
  /\ pc[a] = "replace"
  /\ Replaced(a, IF scenario.rename THEN temp[a] ELSE Empty)
  /\ Goto(a, IF ~scenario.rename THEN "copy" ELSE IF bad[a] THEN "failed" ELSE "done")
  /\ UNCHANGED <<scenario, doc, value, temp, bad, causes, resolving>>

CopyContents(a) ==
  /\ pc[a] = "copy"
  /\ \/ /\ Replaced(a, temp[a])
        /\ Goto(a, IF bad[a] THEN "failed" ELSE "done")
        /\ UNCHANGED causes
     \/ /\ Goto(a, "failed")      \* panics
        /\ causes' = causes \cup {"fault"}
        /\ UNCHANGED <<file, meddled>>
  /\ UNCHANGED <<scenario, doc, value, temp, bad, resolving>>

\* An editor may be killed at any time; elsewhere it leaves nothing behind.
Crash(a) ==
  /\ pc[a] \in {"open", "update", "replace", "copy"}
  /\ Goto(a, "crashed")
  /\ causes' = causes \cup IF pc[a] = "copy" THEN {"crash"} ELSE {}
  /\ UNCHANGED <<scenario, file, doc, value, temp, bad, meddled, resolving>>
-----------------------------------------------------------------------------
(* Resolving the version.                                                  *)

\* A call of Version returns to the definition that refers to it, or to the
\* command.
Return(a, result) ==
  LET rest == Tail(calls[a])
  IN  /\ calls' = [calls EXCEPT ![a] =
            IF rest = <<>> THEN rest ELSE <<[Head(rest) EXCEPT !.left = @ - 1]>> \o Tail(rest)]
      /\ outcome' = [outcome EXCEPT ![a] =
            IF Len(rest) <= 1 /\ (rest # <<>> \/ Command(a) = "print") THEN Append(@, result) ELSE @]
      /\ IF rest = <<>> THEN Goto(a, "done") ELSE UNCHANGED pc

\* Mutant: waits until the file can be read.
ReferenceWaits(a) ==
  /\ Defining(a) /\ Top(a).left > 0 /\ file.whole
  /\ calls' = [calls EXCEPT ![a] = <<Version>> \o @]
  /\ UNCHANGED <<scenario, file, pc, editing, loaded, depth, cached, outcome>>

\* extProject: the file is read again; if that fails the version is taken
\* from the definition in memory, as it is.
Reference(a) ==
  /\ Defining(a) /\ Top(a).left > 0
  /\ IF file.whole
     THEN calls' = [calls EXCEPT ![a] = <<Version>> \o @] /\ UNCHANGED outcome
     ELSE /\ calls' = [calls EXCEPT ![a] = <<[Top(a) EXCEPT !.left = Top(a).left - 1]>> \o Tail(@)]
          /\ outcome' = [outcome EXCEPT ![a] = IF Len(calls[a]) = 1 THEN Append(@, "torn") ELSE @]
  /\ UNCHANGED <<scenario, file, pc, editing, loaded, depth, cached>>

Step(a, at) == calls' = [calls EXCEPT ![a] = <<[Head(@) EXCEPT !.at = at]>> \o Tail(@)]

\* IncrementSubResolveContextDepth and its counterpart load the counter in
\* one step and store it in the next.
Load(a) ==
  /\ At(a, "load") \/ At(a, "unload")
  /\ loaded' = [loaded EXCEPT ![a] = depth[Process(a)]]
  /\ Step(a, IF At(a, "load") THEN "increment" ELSE "decrement")
  /\ UNCHANGED <<scenario, file, pc, editing, depth, cached, outcome>>

Increment(a) ==
  /\ At(a, "increment")
  /\ depth' = [depth EXCEPT ![Process(a)] = loaded[a] + 1]
  /\ Step(a, "test")
  /\ UNCHANGED <<scenario, file, pc, editing, loaded, cached, outcome>>

\* Mutant: the limit is not tested.
TestNothing(a) ==
  /\ At(a, "test")
  /\ IF a \in cached THEN Step(a, "unload") ELSE calls' = [calls EXCEPT ![a] = <<Define>> \o @]
  /\ UNCHANGED <<scenario, file, pc, editing, loaded, depth, cached, outcome>>

\* Beyond the limit Version returns before the decrement is deferred.
Test(a) ==
  /\ At(a, "test")
  /\ IF depth[Process(a)] > scenario.limit THEN Return(a, "deep")
     ELSE /\ IF a \in cached THEN Step(a, "unload") ELSE calls' = [calls EXCEPT ![a] = <<Define>> \o @]
          /\ UNCHANGED <<pc, outcome>>
  /\ UNCHANGED <<scenario, file, editing, loaded, depth, cached>>

\* The definition is calculated and cached.  What follows in Version refers
\* to no version: its own templates have one set, the empty one.
Defined(a) ==
  /\ Defining(a) /\ Top(a).left = 0
  /\ IF Tail(calls[a]) = <<>>
     THEN /\ Goto(a, "done")
          /\ calls' = [calls EXCEPT ![a] = <<>>]
          /\ UNCHANGED cached
     ELSE /\ calls' = [calls EXCEPT ![a] = <<[@[2] EXCEPT !.at = "unload"]>> \o Tail(Tail(@))]
          /\ cached' = cached \cup {a}
          /\ UNCHANGED pc
  /\ UNCHANGED <<scenario, file, editing, loaded, depth, outcome>>

Decrement(a) ==
  /\ At(a, "decrement")
  /\ depth' = [depth EXCEPT ![Process(a)] = loaded[a] - 1]
  /\ Return(a, "resolved")
  /\ UNCHANGED <<scenario, file, editing, loaded, cached>>
-----------------------------------------------------------------------------
Work(a) ==
  \/ Read(a) \/ OpenTemp(a) \/ Update(a) \/ Replace(a) \/ CopyContents(a)
  \/ Reference(a) \/ Load(a) \/ Increment(a) \/ Test(a) \/ Defined(a) \/ Decrement(a)

VersionsNext == \E a \in Actors : Work(a) \/ Crash(a)

\* Every goroutine that can go on does; nobody has to be killed.
VersionsSpec ==
  VersionsInit /\ [][VersionsNext]_versionsVars /\ \A a \in Actors : WF_versionsVars(Work(a))
-----------------------------------------------------------------------------
Alone(a) == \A b \in Actors \ {a} : Process(b) = Process(a) => Command(b) = "none"

\* A module and its project both have a version and the module is the only
\* one: the module's is read and the project's is written.
Shadowed(a) ==
  /\ Where(a) # 0 /\ Len(doc[a].mods) = 1
  /\ doc[a].mods[Where(a)] # None /\ doc[a].root # None

\* A version that a command reports as written is the one the next command
\* reads, unless somebody else replaced the file since the command read it or it
\* is shadowed.
BumpIsSeen ==
  \A a \in Actors :
    pc[a] = "done" /\ Command(a) \in {"bump", "set"} /\ ~meddled[a] /\ ~Shadowed(a) =>
      Unresolved(file, Where(a)) = value[a]

\* The file is lost only while somebody copies it, or after a fault, a crash
\* during the copy or a second editor during the copy; where it can be
\* renamed only after a fault.
ConfigSurvives ==
  /\ ~file.whole => causes # {} \/ \E a \in Actors : pc[a] = "copy"
  /\ ~file.whole /\ scenario.rename => "fault" \in causes

\* In a process that builds one module, or prints the version, a definition
\* that refers to its own version is calculated within itself up to the limit
\* and no further, and the first reference gets the resolved version.
ResolvedWithinLimit ==
  \A a \in Actors : Alone(a) =>
    /\ Cardinality({i \in DOMAIN calls[a] : calls[a][i].kind = "version"}) <= scenario.limit + 1
    /\ outcome[a] # <<>> => outcome[a][1] # "deep"

\* Resolving ends although definitions refer to the version that is resolved
\* by calculating them, and although modules lose each other's counts.
ResolutionEnds == \A a \in Actors : <>(pc[a] \in Ended)
=============================================================================
