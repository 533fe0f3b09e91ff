------------------------------ MODULE JobGroup ------------------------------
(***************************************************************************)
(* What a caller of forEachModule or SyncVolumes may rely on, without the  *)
(* goroutines, semaphores and flags of ParallelJobs: jobs start while fewer*)
(* than limit of them run, a job is left out only after something went     *)
(* wrong, and the call is closed with a verdict that tells whether every   *)
(* job succeeded, at a moment when none is running.                        *)
(***************************************************************************)
EXTENDS Naturals, FiniteSets

CONSTANT Jobs

VARIABLES
  requested,   \* the jobs the call is given; fixed
  limit,       \* how many jobs may run at once; fixed
  status,      \* what became of each job
  interrupted, \* the process was asked to stop
  verdict      \* "open" until the call returns

vars == <<requested, limit, status, interrupted, verdict>>

Running == {j \in Jobs : status[j] = "running"}
Failed  == {j \in Jobs : status[j] \in {"failed", "skipped"}}

Init ==
  /\ requested \subseteq Jobs
  /\ limit \in Nat
  /\ status = [j \in Jobs |-> "pending"]
  /\ interrupted = FALSE
  /\ verdict = "open"

Start(j) ==
  /\ verdict = "open"
  /\ j \in requested /\ status[j] = "pending"
  /\ Cardinality(Running) < limit
  /\ status' = [status EXCEPT ![j] = "running"]
  /\ UNCHANGED <<requested, limit, interrupted, verdict>>

Finish(j) ==
  /\ status[j] = "running"
  /\ \E s \in {"succeeded", "failed"} : status' = [status EXCEPT ![j] = s]
  /\ UNCHANGED <<requested, limit, interrupted, verdict>>

\* only a failure or an interruption keeps a job from being run
Skip(j) ==
  /\ verdict = "open"
  /\ j \in requested /\ status[j] = "pending"
  /\ interrupted \/ Failed # {}
  /\ status' = [status EXCEPT ![j] = "skipped"]
  /\ UNCHANGED <<requested, limit, interrupted, verdict>>

Interrupt ==
  /\ ~interrupted
  /\ interrupted' = TRUE
  /\ UNCHANGED <<requested, limit, status, verdict>>

Close ==
  /\ verdict = "open"
  /\ Running = {}
  /\ \/ /\ \A j \in requested : status[j] = "succeeded"
        /\ verdict' = "ok"
     \/ /\ Failed # {}
        /\ verdict' = "error"
  /\ UNCHANGED <<requested, limit, status, interrupted>>

Next ==
  \/ \E j \in Jobs : Start(j) \/ Finish(j) \/ Skip(j)
  \/ Interrupt
  \/ Close

Spec == Init /\ [][Next]_vars
=============================================================================
