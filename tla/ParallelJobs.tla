---------------------------- MODULE ParallelJobs ----------------------------
(***************************************************************************)
(* How welder runs one job per module (BuildContext.forEachModule) or one  *)
(* job per volume (runner.Run.SyncVolumes): CommonCtx.StartParallel on an  *)
(* errgroup and a weighted semaphore, CommonCtx.Cancel, the goroutine that *)
(* CancelOnSignal leaves behind for every context, CommonCtx.WaitParallel. *)
(*                                                                         *)
(* The two callers differ in the context whose StartParallel they call.    *)
(* forEachModule derives a context for every module and starts the job on  *)
(* that one; SyncVolumes starts every job on its receiver.  NewCommonContext*)
(* gives each context a semaphore and a cancelled flag of its own, and     *)
(* shares the errgroup, the Go context and its cancel function.            *)
(***************************************************************************)
EXTENDS Integers, Sequences, FiniteSets

CONSTANTS
  NumJobs,       \* bound: modules or volumes one call handles
  ParallelCount, \* --parallel-count (0: unlimited)
  MaxSignals     \* bound: interruption signals the process receives

ASSUME ConstantsAssumption ==
  /\ NumJobs \in Nat
  /\ ParallelCount \in Int
  /\ MaxSignals \in Nat

Jobs     == 1..NumJobs
Root     == 0          \* the context the caller was invoked on
Contexts == 0..NumJobs \* context j is the one derived for job j
Limited  == ParallelCount > 0

Nil     == 0     \* a nil error; a job number stands for that job's error
Pending == -1    \* the call has not returned yet

VARIABLES
  parallel,    \* the --parallel flag
  ownContext,  \* TRUE for forEachModule, FALSE for SyncVolumes
  active,      \* how many modules or volumes there are; started in order
  main,        \* where the calling goroutine is
  next,        \* the job its loop is at
  result,      \* what the caller gets
  pc,          \* where the function of each job is
  outcome,     \* what the function of each job returns
  cur,         \* tokens taken from each context's semaphore
  waiters,     \* jobs queued in each context's semaphore, first in first out
  cancelled,   \* the cancelled flag of each context
  goCancelled, \* the shared Go context is done
  egErr,       \* the first error the errgroup recorded
  handler,     \* the CancelOnSignal goroutine of each context
  signals      \* signals received so far

config == <<parallel, ownContext, active>>
vars == <<config, main, next, result, pc, outcome, cur, waiters, cancelled,
          goCancelled, egErr, handler, signals>>

jobVars == <<pc, outcome>>
semVars == <<cur, waiters>>

CtxOf(j) == IF ownContext THEN j ELSE Root
-----------------------------------------------------------------------------
(* States of a job's function.                                             *)
\* a callback is being executed, or has failed and its Cancel is under way
Executing == {"running", "cancel", "cancelGo"}
\* states in which a job of a limited parallel run owns a token
Holding == Executing \cup {"granted", "check", "release"}
Over == {"idle", "done"}

TypeOK ==
  /\ parallel \in BOOLEAN
  /\ ownContext \in BOOLEAN
  /\ active \in 0..NumJobs
  /\ main \in {"loop", "start", "call", "wait", "returned"}
  /\ next \in 1..(NumJobs + 1)
  /\ result \in {Pending, Nil} \cup Jobs
  /\ pc \in [Jobs -> Holding \cup Over \cup {"spawned", "queued", "report"}]
  /\ outcome \in [Jobs -> {"none", "ok", "failed", "cancelled", "notAcquired"}]
  /\ cur \in [Contexts -> Nat]
  /\ waiters \in [Contexts -> Seq(Jobs)]
  /\ cancelled \in [Contexts -> BOOLEAN]
  /\ goCancelled \in BOOLEAN
  /\ egErr \in {Nil} \cup Jobs
  /\ handler \in [Contexts -> {"none", "armed", "caught", "cancelGo", "gone"}]
  /\ signals \in 0..MaxSignals

Init ==
  /\ parallel \in BOOLEAN
  /\ ownContext \in BOOLEAN
  /\ active \in 0..NumJobs
  /\ main = "loop"
  /\ next = 1
  /\ result = Pending
  /\ pc = [j \in Jobs |-> "idle"]
  /\ outcome = [j \in Jobs |-> "none"]
  /\ cur = [c \in Contexts |-> 0]
  /\ waiters = [c \in Contexts |-> <<>>]
  /\ cancelled = [c \in Contexts |-> FALSE]
  /\ goCancelled = FALSE
  /\ egErr = Nil
  /\ handler = [c \in Contexts |-> IF c = Root THEN "armed" ELSE "none"]
  /\ signals = 0
-----------------------------------------------------------------------------
(* The calling goroutine.                                                  *)

\* The loop derives the context of the next job; only NewBuildContext (that
\* is, forEachModule) also starts a CancelOnSignal goroutine for it.
DeriveContext ==
  /\ main = "loop"
  /\ next <= active
  /\ main' = "start"
  /\ handler' = IF ownContext THEN [handler EXCEPT ![next] = "armed"] ELSE handler
  /\ UNCHANGED <<config, next, result, jobVars, semVars, cancelled, goCancelled,
                 egErr, signals>>

\* StartParallel: calls the callback in place, or hands a goroutine to the errgroup.
StartParallel ==
  /\ main = "start"
  /\ IF parallel
     THEN /\ pc' = [pc EXCEPT ![next] = "spawned"]
          /\ main' = "loop"
          /\ next' = next + 1
     ELSE /\ pc' = [pc EXCEPT ![next] = "running"]
          /\ main' = "call"
          /\ UNCHANGED next
  /\ UNCHANGED <<config, result, outcome, semVars, cancelled, goCancelled, egErr,
                 handler, signals>>

\* The callback StartParallel called in place has returned: the first error
\* ends the loop, and WaitParallel is not reached.
CallReturned ==
  /\ main = "call"
  /\ pc[next] = "report"
  /\ pc' = [pc EXCEPT ![next] = "done"]
  /\ IF outcome[next] = "ok"
     THEN main' = "loop" /\ next' = next + 1 /\ UNCHANGED result
     ELSE main' = "returned" /\ result' = next /\ UNCHANGED next
  /\ UNCHANGED <<config, outcome, semVars, cancelled, goCancelled, egErr, handler,
                 signals>>

LoopEnds ==
  /\ main = "loop"
  /\ next > active
  /\ main' = "wait"
  /\ UNCHANGED <<config, next, result, jobVars, semVars, cancelled, goCancelled,
                 egErr, handler, signals>>

\* Mutant: returns the errgroup's error without waiting for its goroutines.
WaitParallelAtOnce ==
  /\ main = "wait"
  /\ main' = "returned"
  /\ result' = egErr
  /\ goCancelled' = TRUE
  /\ UNCHANGED <<config, next, jobVars, semVars, cancelled, egErr, handler, signals>>

\* Mutant: the error of the errgroup is dropped.
WaitParallelDropsError ==
  /\ main = "wait"
  /\ \A j \in Jobs : pc[j] \in Over
  /\ main' = "returned"
  /\ result' = Nil
  /\ goCancelled' = TRUE
  /\ UNCHANGED <<config, next, jobVars, semVars, cancelled, egErr, handler, signals>>

\* WaitParallel: errgroup.Wait cancels the group's context when it returns.
WaitParallel ==
  /\ main = "wait"
  /\ \A j \in Jobs : pc[j] \in Over
  /\ main' = "returned"
  /\ result' = egErr
  /\ goCancelled' = TRUE
  /\ UNCHANGED <<config, next, jobVars, semVars, cancelled, egErr, handler, signals>>
-----------------------------------------------------------------------------
(* The goroutine of a job.                                                 *)

\* Mutant: takes the token without counting it.
AcquireUncounted(j) ==
  LET c == CtxOf(j) IN
  /\ pc[j] = "spawned"
  /\ pc' = [pc EXCEPT ![j] = IF Limited /\ cur[c] >= ParallelCount THEN "queued" ELSE "check"]
  /\ waiters' = IF Limited /\ cur[c] >= ParallelCount
                THEN [waiters EXCEPT ![c] = Append(@, j)] ELSE waiters
  /\ UNCHANGED <<config, main, next, result, outcome, cur, cancelled, goCancelled,
                 egErr, handler, signals>>

\* Mutant: the parallel count is not consulted.
AcquireUnlimited(j) ==
  /\ pc[j] = "spawned"
  /\ pc' = [pc EXCEPT ![j] = "check"]
  /\ cur' = [cur EXCEPT ![CtxOf(j)] = IF Limited THEN @ + 1 ELSE @]
  /\ UNCHANGED <<config, main, next, result, outcome, waiters, cancelled, goCancelled,
                 egErr, handler, signals>>

\* parallelSem.Acquire: immediate while tokens are left and nobody queues.
Acquire(j) ==
  LET c == CtxOf(j) IN
  /\ pc[j] = "spawned"
  /\ \/ /\ ~Limited
        /\ pc' = [pc EXCEPT ![j] = "check"]
        /\ UNCHANGED semVars
     \/ /\ Limited /\ cur[c] < ParallelCount /\ waiters[c] = <<>>
        /\ pc' = [pc EXCEPT ![j] = "check"]
        /\ cur' = [cur EXCEPT ![c] = @ + 1]
        /\ UNCHANGED waiters
     \/ /\ Limited /\ ~(cur[c] < ParallelCount /\ waiters[c] = <<>>)
        /\ pc' = [pc EXCEPT ![j] = "queued"]
        /\ waiters' = [waiters EXCEPT ![c] = Append(@, j)]
        /\ UNCHANGED cur
  /\ UNCHANGED <<config, main, next, result, outcome, cancelled, goCancelled, egErr,
                 handler, signals>>

\* Once the Go context is done Acquire may give up, before it queues or after.
AcquireFails(j) ==
  LET c == CtxOf(j) IN
  /\ Limited /\ goCancelled
  /\ \/ pc[j] = "spawned" /\ UNCHANGED waiters
     \/ /\ pc[j] = "queued"
        /\ \E i \in 1..Len(waiters[c]) :
             /\ waiters[c][i] = j
             /\ waiters' = [waiters EXCEPT
                  ![c] = SubSeq(@, 1, i - 1) \o SubSeq(@, i + 1, Len(@))]
  /\ pc' = [pc EXCEPT ![j] = "report"]
  /\ outcome' = [outcome EXCEPT ![j] = "notAcquired"]
  /\ UNCHANGED <<config, main, next, result, cur, cancelled, goCancelled, egErr,
                 handler, signals>>

\* A waiter that was handed a token returns from Acquire with it, or gives it
\* back when it finds the Go context done.
AcquireReturns(j) ==
  /\ pc[j] = "granted"
  /\ \/ /\ pc' = [pc EXCEPT ![j] = "check"]
        /\ UNCHANGED outcome
     \/ /\ goCancelled
        /\ pc' = [pc EXCEPT ![j] = "release"]
        /\ outcome' = [outcome EXCEPT ![j] = "notAcquired"]
  /\ UNCHANGED <<config, main, next, result, semVars, cancelled, goCancelled, egErr,
                 handler, signals>>

\* the function returns: through the deferred release if a token was taken
AfterCallback == IF parallel /\ Limited THEN "release" ELSE "report"

\* Mutant: the test of the flag is the wrong way round.
CheckCancelledInverted(j) ==
  /\ pc[j] = "check"
  /\ IF ~cancelled[CtxOf(j)]
     THEN /\ outcome' = [outcome EXCEPT ![j] = "cancelled"]
          /\ pc' = [pc EXCEPT ![j] = AfterCallback]
     ELSE /\ pc' = [pc EXCEPT ![j] = "running"]
          /\ UNCHANGED outcome
  /\ UNCHANGED <<config, main, next, result, semVars, cancelled, goCancelled, egErr,
                 handler, signals>>

\* "if cancelled, do not start executing"
CheckCancelled(j) ==
  /\ pc[j] = "check"
  /\ IF cancelled[CtxOf(j)]
     THEN /\ outcome' = [outcome EXCEPT ![j] = "cancelled"]
          /\ pc' = [pc EXCEPT ![j] = AfterCallback]
     ELSE /\ pc' = [pc EXCEPT ![j] = "running"]
          /\ UNCHANGED outcome
  /\ UNCHANGED <<config, main, next, result, semVars, cancelled, goCancelled, egErr,
                 handler, signals>>

\* The callback returns; what it does is not modelled here, it may fail any time.
CallbackReturns(j) ==
  /\ pc[j] = "running"
  /\ \/ /\ outcome' = [outcome EXCEPT ![j] = "ok"]
        /\ pc' = [pc EXCEPT ![j] = AfterCallback]
     \/ /\ outcome' = [outcome EXCEPT ![j] = "failed"]
        /\ pc' = [pc EXCEPT ![j] = "cancel"]
  /\ UNCHANGED <<config, main, next, result, semVars, cancelled, goCancelled, egErr,
                 handler, signals>>

\* Cancel, called for a failed callback: the flag of its context first ...
SetCancelled(j) ==
  /\ pc[j] = "cancel"
  /\ pc' = [pc EXCEPT ![j] = "cancelGo"]
  /\ cancelled' = [cancelled EXCEPT ![CtxOf(j)] = TRUE]
  /\ UNCHANGED <<config, main, next, result, outcome, semVars, goCancelled, egErr,
                 handler, signals>>

\* ... then the shared cancel function.
CancelGoContext(j) ==
  /\ pc[j] = "cancelGo"
  /\ pc' = [pc EXCEPT ![j] = AfterCallback]
  /\ goCancelled' = TRUE
  /\ UNCHANGED <<config, main, next, result, outcome, semVars, cancelled, egErr,
                 handler, signals>>

\* Mutant: wakes nobody who queues.
ReleaseWakesNobody(j) ==
  /\ pc[j] = "release"
  /\ pc' = [pc EXCEPT ![j] = "report"]
  /\ cur' = [cur EXCEPT ![CtxOf(j)] = @ - 1]
  /\ UNCHANGED <<config, main, next, result, outcome, waiters, cancelled, goCancelled,
                 egErr, handler, signals>>

\* The deferred SafeReleaseSemaphore: the token goes to the first in the queue.
Release(j) ==
  LET c == CtxOf(j) IN
  /\ pc[j] = "release"
  /\ IF waiters[c] = <<>>
     THEN /\ pc' = [pc EXCEPT ![j] = "report"]
          /\ cur' = [cur EXCEPT ![c] = @ - 1]
          /\ UNCHANGED waiters
     ELSE /\ pc' = [pc EXCEPT ![j] = "report", ![Head(waiters[c])] = "granted"]
          /\ waiters' = [waiters EXCEPT ![c] = Tail(@)]
          /\ UNCHANGED cur
  /\ UNCHANGED <<config, main, next, result, outcome, cancelled, goCancelled, egErr,
                 handler, signals>>

\* errgroup's goroutine ends: the first error is kept and cancels the group.
Report(j) ==
  /\ parallel
  /\ pc[j] = "report"
  /\ pc' = [pc EXCEPT ![j] = "done"]
  /\ IF outcome[j] # "ok" /\ egErr = Nil
     THEN egErr' = j /\ goCancelled' = TRUE
     ELSE UNCHANGED <<egErr, goCancelled>>
  /\ UNCHANGED <<config, main, next, result, outcome, semVars, cancelled, handler,
                 signals>>
-----------------------------------------------------------------------------
(* Signals.                                                                *)

\* SIGINT or SIGTERM reaches the channel of every context that exists.
Signal ==
  /\ main # "returned"
  /\ signals < MaxSignals
  /\ signals' = signals + 1
  /\ handler' = [c \in Contexts |-> IF handler[c] = "armed" THEN "caught" ELSE handler[c]]
  /\ UNCHANGED <<config, main, next, result, jobVars, semVars, cancelled, goCancelled,
                 egErr>>

HandlerSetsCancelled(c) ==
  /\ handler[c] = "caught"
  /\ handler' = [handler EXCEPT ![c] = "cancelGo"]
  /\ cancelled' = [cancelled EXCEPT ![c] = TRUE]
  /\ UNCHANGED <<config, main, next, result, jobVars, semVars, goCancelled, egErr,
                 signals>>

HandlerCancelsGoContext(c) ==
  /\ handler[c] = "cancelGo"
  /\ handler' = [handler EXCEPT ![c] = "gone"]
  /\ goCancelled' = TRUE
  /\ UNCHANGED <<config, main, next, result, jobVars, semVars, cancelled, egErr,
                 signals>>

\* the process ends once the caller has its result and the handlers are quiet
Finished ==
  /\ main = "returned"
  /\ UNCHANGED vars
-----------------------------------------------------------------------------
Caller  == DeriveContext \/ StartParallel \/ CallReturned \/ LoopEnds \/ WaitParallel
Job(j)  == \/ Acquire(j) \/ AcquireFails(j) \/ AcquireReturns(j)
           \/ CheckCancelled(j) \/ CallbackReturns(j)
           \/ SetCancelled(j) \/ CancelGoContext(j) \/ Release(j) \/ Report(j)
Handler(c) == HandlerSetsCancelled(c) \/ HandlerCancelsGoContext(c)

Next ==
  \/ Caller
  \/ \E j \in Jobs : Job(j)
  \/ Signal
  \/ \E c \in Contexts : Handler(c)
  \/ Finished

Spec == Init /\ [][Next]_vars

\* Goroutines are scheduled and callbacks return; signals need not come.
Fairness ==
  /\ WF_vars(Caller)
  /\ \A j \in Jobs : WF_vars(Job(j))
  /\ \A c \in Contexts : WF_vars(Handler(c))

-----------------------------------------------------------------------------
(* Properties.                                                             *)

\* forEachModule and SyncVolumes return nil only if the callback of every
\* module or volume was called and returned nil: no job is lost on the way
\* from StartParallel to WaitParallel.
NilMeansAllSucceeded == result = Nil => \A j \in 1..active : outcome[j] = "ok"

\* An error is returned only for a reason: the callback of some job failed, or
\* the process was signalled.  "context was cancelled" and the error of Acquire
\* never come out of nothing.
ErrorHasCause ==
  result \in Jobs =>
    /\ outcome[result] \notin {"none", "ok"}
    /\ (\E j \in Jobs : outcome[j] = "failed") \/ signals > 0

\* The caller does not get its result while a job it started is under way, in
\* either mode: what follows forEachModule (writing docker.yaml, the next
\* command of "all") never overlaps a module's callback.
NoJobOutlivesResult == main = "returned" => \A j \in Jobs : pc[j] \in Over

\* Without --parallel the modules run one at a time and in order, and none
\* starts after one that failed.
SequentialStopsAtError ==
  ~parallel =>
    \A j, k \in Jobs : j < k /\ pc[k] # "idle" => pc[j] = "done" /\ outcome[j] = "ok"

Holders(c) == {j \in Jobs : CtxOf(j) = c /\ pc[j] \in Holding}

\* A semaphore's count is the number of jobs that will release it, so no path
\* (error, cancellation, hand-over to a waiter) leaks a token or returns one twice.
TokensAccounted ==
  parallel /\ Limited =>
    \A c \in Contexts : /\ cur[c] = Cardinality(Holders(c))
                        /\ cur[c] <= ParallelCount

\* If callbacks return, so does the call: no job waits forever for a token.
Returns == <>(main = "returned")

StatusOf(j) ==
  CASE outcome[j] = "ok" -> "succeeded"
    [] outcome[j] = "failed" -> "failed"
    [] outcome[j] \in {"cancelled", "notAcquired"} -> "skipped"
    [] outcome[j] = "none" -> IF pc[j] = "running" THEN "running" ELSE "pending"

\* how many callbacks the code lets run at once
EffectiveLimit ==
  IF ~parallel THEN 1
  ELSE IF Limited /\ ~ownContext THEN ParallelCount ELSE active

\* The promise of JobGroup: with the --parallel-count limit where the jobs
\* share a context, with no limit but the number of jobs where they do not.
Group == INSTANCE JobGroup WITH
  requested <- 1..active,
  limit <- EffectiveLimit,
  status <- [j \in Jobs |-> StatusOf(j)],
  interrupted <- signals > 0,
  verdict <- IF result = Pending THEN "open" ELSE IF result = Nil THEN "ok" ELSE "error"

GroupSpec == Group!Spec
=============================================================================
