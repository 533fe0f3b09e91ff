---------------------------- MODULE ContainerRun ----------------------------
(***************************************************************************)
(* The life of build containers: docker.Run.Run with PrepareContainer,     *)
(* createContainer, Destroy and destroyOnTermSignals, for several runs of  *)
(* several welder processes against one Docker daemon.                     *)
(*                                                                         *)
(* A run labels its container and its network with its RunID and the hash  *)
(* of its configuration.  It looks for a container to reuse by the hash,   *)
(* and removes containers by the RunID.  All runs of a process share a Go  *)
(* context; the calls to the daemon that use it fail once it is cancelled. *)
(***************************************************************************)
EXTENDS Integers, Sequences, FiniteSets

CONSTANTS
  Runs,      \* runs considered, of all processes
  Procs,     \* welder processes
  RunIDs, Hashes,
  Settings,  \* how the runs may be set up: functions from Runs to Setting
  MaxFaults, \* bound: calls that fail for no reason the model knows
  MaxSignals \* bound: processes interrupted

Setting == [runID: RunIDs, hash: Hashes, proc: Procs,
            reuse: BOOLEAN, orphans: BOOLEAN, detached: BOOLEAN]

ASSUME ConstantsAssumption ==
  /\ IsFiniteSet(Runs)
  /\ MaxFaults \in Nat /\ MaxSignals \in Nat
  /\ \A s \in Settings : s \in [Runs -> Setting]

None == 0 \* no container; containers are numbered in the order of their creation
Actors == {"main", "signal"} \* who calls Destroy

VARIABLES
  set,       \* the settings of the runs
  made,      \* which run created each container
  live,      \* containers the daemon has, started or not
  running,   \* those that are running
  networks,  \* containers a network was made for that still exists
  pc,        \* where each run is
  found,     \* what checkExistingContainer found
  cont,      \* the container of each run
  result,    \* what Run returned
  destroy,   \* how far Destroy is, for each run and actor
  target,    \* the container it is about to remove
  handler,   \* the goroutine of destroyOnTermSignals
  caught,    \* processes that received a signal
  cancelled, \* processes whose Go context is cancelled
  exited,    \* processes that are gone
  faults,    \* unexplained failures so far
  cleanupFailed, \* one of them was in a cleanup
  overlapped \* a run began while another one with its RunID was under way

daemon == <<made, live, running, networks>>
runVars == <<pc, found, cont, result>>
destroyVars == <<destroy, target>>
procVars == <<handler, caught, cancelled, exited>>
history == <<faults, cleanupFailed, overlapped>>
vars == <<set, daemon, runVars, destroyVars, procVars, history>>

Containers == 1..Len(made)
RunID(r) == set[r].runID
Proc(r) == set[r].proc
Dead(r) == cancelled[Proc(r)]
Labelled(id) == {c \in Containers : RunID(made[c]) = id}
WithHash(h) == {c \in Containers : set[made[c]].hash = h}
\* the daemon lists the latest container first
Newest(S) == CHOOSE c \in S : \A d \in S : d <= c
\* runs that begin with Destroy
Cleans(r) == set[r].orphans \/ ~set[r].reuse
\* runs that end with Destroy, or would
RemovesOwn(r) == ~set[r].reuse /\ ~set[r].detached

Init ==
  /\ set \in Settings
  /\ made = <<>> /\ live = {} /\ running = {} /\ networks = {}
  /\ pc = [r \in Runs |-> "idle"]
  /\ found = [r \in Runs |-> None]
  /\ cont = [r \in Runs |-> None]
  /\ result = [r \in Runs |-> "none"]
  /\ destroy = [r \in Runs |-> [a \in Actors |-> "off"]]
  /\ target = [r \in Runs |-> [a \in Actors |-> None]]
  /\ handler = [r \in Runs |-> "none"]
  /\ caught = [p \in Procs |-> FALSE]
  /\ cancelled = [p \in Procs |-> FALSE]
  /\ exited = [p \in Procs |-> FALSE]
  /\ faults = 0 /\ cleanupFailed = FALSE /\ overlapped = FALSE

Goto(r, where) == pc' = [pc EXCEPT ![r] = where]
Fault == faults < MaxFaults /\ faults' = faults + 1
\* a call that uses the Go context fails: that is cancelled, or the daemon refuses
CallFails(r) == \/ Dead(r) /\ UNCHANGED faults
                \/ Fault
StartDestroy(r, a) == destroy' = [destroy EXCEPT ![r][a] = "nets"]
-----------------------------------------------------------------------------
(* PrepareContainer.                                                       *)

UnderWay(r) == pc[r] \notin {"idle", "done"} \/ destroy[r]["signal"] # "off"

Begin(r) ==
  /\ pc[r] = "idle" /\ ~exited[Proc(r)]
  /\ Goto(r, "lookup")
  /\ overlapped' = (overlapped \/ \E s \in Runs : RunID(s) = RunID(r) /\ UnderWay(s))
  /\ UNCHANGED <<set, daemon, found, cont, result, destroyVars, procVars, faults, cleanupFailed>>

\* where a run goes that has found the container c or, None, no container
Next1(r, c) == IF set[r].reuse /\ c # None THEN "reapply" ELSE "create"

\* Mutant: only a run that reuses containers removes orphans first.
LookUpKeepsOrphans(r) ==
  /\ pc[r] = "lookup"
  /\ \/ /\ ~Dead(r)
        /\ LET C == live \cap WithHash(set[r].hash)
           IN  found' = [found EXCEPT ![r] = IF C = {} THEN None ELSE Newest(C)]
        /\ UNCHANGED faults
     \/ CallFails(r) /\ found' = [found EXCEPT ![r] = None]
  /\ IF set[r].orphans
     THEN Goto(r, "orphans") /\ StartDestroy(r, "main")
     ELSE Goto(r, Next1(r, found'[r])) /\ UNCHANGED destroy
  /\ UNCHANGED <<set, daemon, cont, result, target, procVars, cleanupFailed, overlapped>>

\* checkExistingContainer, whose error counts as "not found"; orphans go next.
LookUp(r) ==
  /\ pc[r] = "lookup"
  /\ \/ /\ ~Dead(r)
        /\ LET C == live \cap WithHash(set[r].hash)
           IN  found' = [found EXCEPT ![r] = IF C = {} THEN None ELSE Newest(C)]
        /\ UNCHANGED faults
     \/ CallFails(r) /\ found' = [found EXCEPT ![r] = None]
  /\ IF Cleans(r)
     THEN Goto(r, "orphans") /\ StartDestroy(r, "main")
     ELSE Goto(r, Next1(r, found'[r])) /\ UNCHANGED destroy
  /\ UNCHANGED <<set, daemon, cont, result, target, procVars, cleanupFailed, overlapped>>

\* Destroy has returned; what was found before it is still what is reused.
OrphansRemoved(r) ==
  /\ pc[r] = "orphans" /\ destroy[r]["main"] = "off"
  /\ Goto(r, Next1(r, found[r]))
  /\ UNCHANGED <<set, daemon, found, cont, result, destroyVars, procVars, history>>

\* PrepareContainer returns an error, and Run does before it defers Destroy.
Fail(r) ==
  /\ Goto(r, "done")
  /\ result' = [result EXCEPT ![r] = "error"]

\* createContainer up to ContainerCreate: pull, build image, configuration.
Create(r) ==
  /\ pc[r] = "create"
  /\ \/ /\ ~Dead(r)
        /\ made' = Append(made, r)
        /\ live' = live \cup {Len(made')}
        /\ cont' = [cont EXCEPT ![r] = Len(made')]
        /\ Goto(r, "start")
        /\ UNCHANGED <<result, faults>>
     \/ CallFails(r) /\ Fail(r) /\ UNCHANGED <<made, live, cont>>
  /\ UNCHANGED <<set, running, networks, found, destroyVars, procVars, cleanupFailed, overlapped>>

\* ContainerStart; somebody may have removed the container.
StartContainer(r) ==
  /\ pc[r] = "start"
  /\ \/ /\ ~Dead(r) /\ cont[r] \in live
        /\ running' = running \cup {cont[r]}
        /\ Goto(r, "volumes")
        /\ UNCHANGED <<result, faults>>
     \/ /\ CallFails(r) \/ (cont[r] \notin live /\ UNCHANGED faults)
        /\ Fail(r) /\ UNCHANGED running
  /\ UNCHANGED <<set, made, live, networks, found, cont, destroyVars, procVars, cleanupFailed, overlapped>>

\* prepareVolumesInContainer, and the extra init commands: nothing to be done, or
\* commands that need the container.
PrepareSteps == [volumes |-> "actions", init |-> "ready"]
Prepare(r) ==
  /\ pc[r] \in DOMAIN PrepareSteps
  /\ \/ Goto(r, PrepareSteps[pc[r]]) /\ UNCHANGED <<result, faults>>
     \/ /\ CallFails(r) \/ (cont[r] \notin running /\ UNCHANGED faults)
        /\ Fail(r)
  /\ UNCHANGED <<set, daemon, found, cont, destroyVars, procVars, cleanupFailed, overlapped>>

\* The extra actions: a network is made for the container; failures are ignored.
ExtraActions(r) ==
  /\ pc[r] = "actions"
  /\ Goto(r, "init")
  /\ \/ ~Dead(r) /\ networks' = networks \cup {cont[r]} /\ UNCHANGED faults
     \/ CallFails(r) /\ UNCHANGED networks
  /\ UNCHANGED <<set, made, live, running, found, cont, result, destroyVars, procVars,
                 cleanupFailed, overlapped>>

\* extraIntegrationsExistingContainer inspects the container that was found.
Reapply(r) ==
  /\ pc[r] = "reapply"
  /\ \/ /\ ~Dead(r) /\ found[r] \in live
        /\ cont' = [cont EXCEPT ![r] = found[r]]
        /\ Goto(r, "ready")
        /\ UNCHANGED <<result, faults>>
     \/ /\ CallFails(r) \/ (found[r] \notin live /\ UNCHANGED faults)
        /\ Fail(r) /\ UNCHANGED cont
  /\ UNCHANGED <<set, daemon, found, destroyVars, procVars, cleanupFailed, overlapped>>

Ready(r) ==
  /\ pc[r] = "ready"
  /\ Goto(r, "exec")
  /\ handler' = IF set[r].reuse THEN handler ELSE [handler EXCEPT ![r] = "armed"]
  /\ UNCHANGED <<set, daemon, found, cont, result, destroyVars, caught, cancelled, exited, history>>
-----------------------------------------------------------------------------
(* Run.                                                                    *)

\* Mutant: Destroy is deferred only if the commands succeed.
ExecuteKeepsFailed(r) ==
  /\ pc[r] = "exec"
  /\ \/ result' = [result EXCEPT ![r] = "error"] /\ Goto(r, "done") /\ UNCHANGED destroy
     \/ /\ cont[r] \in running /\ ~Dead(r)
        /\ result' = [result EXCEPT ![r] = "ok"]
        /\ IF RemovesOwn(r) THEN Goto(r, "closing") /\ StartDestroy(r, "main")
                            ELSE Goto(r, "done") /\ UNCHANGED destroy
  /\ UNCHANGED <<set, daemon, found, cont, target, procVars, history>>

\* The commands and the hooks around them: any may fail, all need the container.
\* A detached run returns at once and leaves the container to its caller.
Execute(r) ==
  /\ pc[r] = "exec"
  /\ \/ result' = [result EXCEPT ![r] = "error"]
     \/ /\ set[r].detached \/ (cont[r] \in running /\ ~Dead(r))
        /\ result' = [result EXCEPT ![r] = "ok"]
  /\ IF RemovesOwn(r) THEN Goto(r, "closing") /\ StartDestroy(r, "main")
                      ELSE Goto(r, "done") /\ UNCHANGED destroy
  /\ UNCHANGED <<set, daemon, found, cont, target, procVars, history>>

Closed(r) ==
  /\ pc[r] = "closing" /\ destroy[r]["main"] = "off"
  /\ Goto(r, "done")
  /\ UNCHANGED <<set, daemon, found, cont, result, destroyVars, procVars, history>>
-----------------------------------------------------------------------------
(* Destroy, called by the run itself or by its signal handler.             *)

\* cleanupNetworks does not use the Go context.
CleanupNetworks(r, a) ==
  /\ destroy[r][a] = "nets"
  /\ \/ networks' = networks \ Labelled(RunID(r)) /\ UNCHANGED <<faults, cleanupFailed>>
     \/ Fault /\ cleanupFailed' = TRUE /\ UNCHANGED networks
  /\ destroy' = [destroy EXCEPT ![r][a] = "list"]
  /\ UNCHANGED <<set, made, live, running, runVars, target, procVars, overlapped>>

\* Mutant: takes the latest container, whosever it is.
ListAnyContainer(r, a) ==
  LET C == live IN
  /\ destroy[r][a] = "list"
  /\ IF C # {} /\ ~Dead(r)
     THEN /\ target' = [target EXCEPT ![r][a] = Newest(C)]
          /\ destroy' = [destroy EXCEPT ![r][a] = "remove"]
     ELSE /\ destroy' = [destroy EXCEPT ![r][a] = "off"]
          /\ UNCHANGED target
  /\ UNCHANGED <<set, daemon, runVars, procVars, history>>

\* cleanupContainers lists with the Go context, and takes the first that matches.
ListContainers(r, a) ==
  LET C == live \cap Labelled(RunID(r)) IN
  /\ destroy[r][a] = "list"
  /\ \/ /\ ~Dead(r) /\ C # {}
        /\ target' = [target EXCEPT ![r][a] = Newest(C)]
        /\ destroy' = [destroy EXCEPT ![r][a] = "remove"]
        /\ UNCHANGED <<faults, cleanupFailed>>
     \/ /\ Dead(r) \/ C = {}
        /\ destroy' = [destroy EXCEPT ![r][a] = "off"]
        /\ UNCHANGED <<target, faults, cleanupFailed>>
     \/ /\ Fault /\ cleanupFailed' = TRUE
        /\ destroy' = [destroy EXCEPT ![r][a] = "off"]
        /\ UNCHANGED target
  /\ UNCHANGED <<set, daemon, runVars, procVars, overlapped>>

\* ForceRemoveContainer has a context of its own; its error is dropped.
RemoveContainer(r, a) ==
  /\ destroy[r][a] = "remove"
  /\ \/ /\ live' = live \ {target[r][a]}
        /\ running' = running \ {target[r][a]}
        /\ UNCHANGED <<faults, cleanupFailed>>
     \/ Fault /\ cleanupFailed' = TRUE /\ UNCHANGED <<live, running>>
  /\ destroy' = [destroy EXCEPT ![r][a] = "off"]
  /\ UNCHANGED <<set, made, networks, runVars, target, procVars, overlapped>>
-----------------------------------------------------------------------------
(* The process around the runs.                                            *)

Interruptions == Cardinality({p \in Procs : caught[p]})

\* SIGINT: the goroutines that cancel the context and those that destroy the
\* containers are woken at the same time.
Signal(p) ==
  /\ ~exited[p] /\ ~caught[p] /\ Interruptions < MaxSignals
  /\ \E r \in Runs : Proc(r) = p /\ pc[r] # "idle"
  /\ caught' = [caught EXCEPT ![p] = TRUE]
  /\ LET Woken == {r \in Runs : Proc(r) = p /\ handler[r] = "armed"} IN
     /\ handler' = [r \in Runs |-> IF r \in Woken THEN "fired" ELSE handler[r]]
     /\ destroy' = [r \in Runs |-> IF r \in Woken THEN [destroy[r] EXCEPT !["signal"] = "nets"]
                                                  ELSE destroy[r]]
  /\ UNCHANGED <<set, daemon, runVars, target, cancelled, exited, history>>

\* CommonCtx.Cancel: for a signal, or for the failure of another module's run.
CancelContext(p) ==
  /\ ~exited[p] /\ ~cancelled[p]
  /\ caught[p] \/ \E r \in Runs : Proc(r) = p /\ pc[r] = "done" /\ result[r] = "error"
  /\ cancelled' = [cancelled EXCEPT ![p] = TRUE]
  /\ UNCHANGED <<set, daemon, runVars, destroyVars, handler, caught, exited, history>>

\* The main goroutine of the process ends, whatever its handlers are at.
ProcessExits(p) ==
  /\ ~exited[p]
  /\ \A r \in Runs : Proc(r) = p => pc[r] \in {"idle", "done"}
  /\ \E r \in Runs : Proc(r) = p /\ pc[r] = "done"
  /\ exited' = [exited EXCEPT ![p] = TRUE]
  /\ handler' = [r \in Runs |-> IF Proc(r) = p /\ handler[r] # "none" THEN "gone" ELSE handler[r]]
  /\ destroy' = [r \in Runs |-> IF Proc(r) = p THEN [a \in Actors |-> "off"] ELSE destroy[r]]
  /\ UNCHANGED <<set, daemon, runVars, target, caught, cancelled, history>>

\* A container stops by itself: the daemon restarts, or its "sleep" is over.
ContainerStops(c) ==
  /\ c \in running /\ Fault
  /\ running' = running \ {c}
  /\ UNCHANGED <<set, made, live, networks, runVars, destroyVars, procVars, cleanupFailed, overlapped>>

Over == (\A p \in Procs : exited[p] \/ \A r \in Runs : Proc(r) # p) /\ UNCHANGED vars

RunStep(r) == \/ Begin(r) \/ LookUp(r) \/ OrphansRemoved(r) \/ Create(r) \/ StartContainer(r)
              \/ Prepare(r) \/ ExtraActions(r) \/ Reapply(r) \/ Ready(r) \/ Execute(r) \/ Closed(r)
Destroy(r, a) == CleanupNetworks(r, a) \/ ListContainers(r, a) \/ RemoveContainer(r, a)

Next ==
  \/ \E r \in Runs : RunStep(r) \/ \E a \in Actors : Destroy(r, a)
  \/ \E p \in Procs : Signal(p) \/ CancelContext(p) \/ ProcessExits(p)
  \/ \E c \in running : ContainerStops(c)
  \/ Over

Spec == Init /\ [][Next]_vars
-----------------------------------------------------------------------------
(* Properties.                                                             *)

Alone(r) == \A s \in Runs \ {r} : RunID(s) # RunID(r)

\* A run that does not reuse containers, has a RunID of its own and is neither
\* cancelled nor unlucky leaves no container and no network when it returns,
\* whether its commands succeed or fail and whoever else works with the daemon.
OwnContainerRemoved ==
  \A r \in Runs :
    /\ pc[r] = "done" /\ RemovesOwn(r) /\ handler[r] # "none"
    /\ Alone(r) /\ ~cancelled[Proc(r)] /\ ~cleanupFailed
    => cont[r] \notin live \cup networks

\* The container does not vanish under the commands of a run, its own or a reused
\* one, unless somebody cleans up under the RunID that container is labelled with.
NotRemovedUnderCommands ==
  \A r \in Runs :
    LET label == RunID(made[cont[r]]) IN
    /\ pc[r] = "exec"
    /\ \A s \in Runs \ {r} : RunID(s) = label => ~Cleans(s)
    /\ label = RunID(r) => handler[r] \in {"none", "armed"}
    => cont[r] \in live

\* Containers and networks that failed or killed runs leave behind do not pile up:
\* if all runs of a RunID clean up first, and not at the same time, there is never
\* more than one of each, whatever fails but the cleanup itself.
LeftoversDoNotPileUp ==
  ~overlapped /\ ~cleanupFailed =>
    \A id \in RunIDs : (\A r \in Runs : RunID(r) = id => Cleans(r)) =>
      /\ Cardinality(live \cap Labelled(id)) <= 1
      /\ Cardinality(networks \cap Labelled(id)) <= 1

=============================================================================
