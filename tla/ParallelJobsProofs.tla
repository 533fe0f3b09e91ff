------------------------- MODULE ParallelJobsProofs -------------------------
(***************************************************************************)
(* Proofs about ParallelJobs for every number of jobs, parallel count and  *)
(* number of signals: type correctness and the safety invariants, from the *)
(* inductive invariant Inv, and that ParallelJobs implements JobGroup.     *)
(***************************************************************************)
EXTENDS ParallelJobs, FiniteSetTheorems, SequenceTheorems, TLAPS

Started == {"spawned", "queued", "granted", "check", "release"}

\* Where the caller's loop is, and what it has decided when it returns.
LoopInv ==
  /\ next <= active + 1
  /\ main \in {"start", "call"} => next <= active
  /\ main = "wait" => next = active + 1
  /\ main = "call" => ~parallel /\ pc[next] \in Executing \cup {"report"}
  /\ main = "returned" <=> result # Pending
  /\ main = "returned" /\ next # active + 1 =>
       ~parallel /\ result = next /\ outcome[next] \notin {"none", "ok"}
  /\ main = "returned" /\ next = active + 1 => result = egErr

\* Jobs before next were started; without --parallel they succeeded.
JobsInv ==
  \A j \in Jobs :
    /\ j < next => pc[j] # "idle"
    /\ j > next => pc[j] = "idle"
    /\ j = next /\ main \in {"loop", "start", "wait"} => pc[j] = "idle"
    /\ ~parallel /\ j < next => pc[j] = "done" /\ outcome[j] = "ok"
    /\ pc[j] \in Started => parallel
    /\ pc[j] \in {"queued", "granted", "release"} => Limited

\* What each job has decided, by how far its function got.
OutcomeInv ==
  \A j \in Jobs :
    /\ outcome[j] = "none" <=> pc[j] \notin {"cancel", "cancelGo", "release", "report", "done"}
    /\ pc[j] \in {"cancel", "cancelGo"} => outcome[j] = "failed"

\* The errgroup has an error exactly when a goroutine of it ended with one.
ErrInv ==
  /\ egErr = Nil => \A j \in Jobs : parallel /\ pc[j] = "done" => outcome[j] = "ok"
  /\ egErr # Nil => parallel /\ outcome[egErr] \notin {"none", "ok"}

\* Something went wrong: every cancellation goes back to that.
Cause == (\E j \in Jobs : outcome[j] = "failed") \/ signals > 0

CauseInv ==
  /\ goCancelled /\ main # "returned" => Cause
  /\ \A c \in Contexts : /\ cancelled[c] => Cause
                         /\ handler[c] \in {"caught", "cancelGo", "gone"} => signals > 0
  /\ \A j \in Jobs : outcome[j] \in {"cancelled", "notAcquired"} => Cause

\* The queue of a semaphore holds jobs that wait for it, each once.
Distinct(s) == \A i, k \in 1..Len(s) : i # k => s[i] # s[k]
QueuedIn(c) == {j \in Jobs : pc[j] = "queued" /\ CtxOf(j) = c}
QueueInv == \A c \in Contexts : waiters[c] \in Seq(QueuedIn(c)) /\ Distinct(waiters[c])

\* The inductive invariant.  Without the queue and the holders, TypeOK is not
\* inductive: the count of a semaphore must not fall below zero.
Inv ==
  /\ TypeOK
  /\ LoopInv
  /\ JobsInv
  /\ OutcomeInv
  /\ ErrInv
  /\ CauseInv
  /\ QueueInv
  /\ NilMeansAllSucceeded
  /\ NoJobOutlivesResult
  /\ TokensAccounted
-----------------------------------------------------------------------------
USE ConstantsAssumption DEF Jobs, Contexts, Root, Limited, CtxOf, Nil, Pending,
    Executing, Holding, Over, Started, config, jobVars, semVars

\* A job that took a token leaves its callback through the release, others do not.
LEMMA AfterCallbackState ==
  /\ AfterCallback \in {"release", "report"}
  /\ AfterCallback = "release" <=> parallel /\ Limited
BY DEF AfterCallback

\* A step that lets nobody leave the queues keeps them well formed.
LEMMA QueueStable ==
  ASSUME TypeOK, QueueInv, UNCHANGED <<waiters, ownContext>>,
         \A k \in Jobs : pc[k] = "queued" => pc'[k] = "queued"
  PROVE  QueueInv'
<1>1. \A c \in Contexts : QueuedIn(c) \subseteq QueuedIn(c)'
  BY DEF QueuedIn
<1>2. \A c \in Contexts : waiters[c] \in Seq(QueuedIn(c)')
  BY <1>1 DEF QueueInv
<1> QED
  BY <1>2 DEF QueueInv

\* A step that moves no job into or out of Holding keeps the tokens accounted for.
LEMMA TokensStable ==
  ASSUME TokensAccounted, UNCHANGED <<cur, ownContext, parallel>>,
         \A k \in Jobs : pc'[k] \in Holding <=> pc[k] \in Holding
  PROVE  TokensAccounted'
<1>1. \A c \in Contexts : Holders(c)' = Holders(c)
  BY DEF Holders
<1> QED
  BY <1>1 DEF TokensAccounted

\* The holders of a token are finitely many.
LEMMA HoldersFinite == \A c : IsFiniteSet(Holders(c))
<1>1. IsFiniteSet(Jobs)
  BY FS_Interval DEF Jobs
<1> QED
  BY <1>1, FS_Subset DEF Holders

\* A sequence is one over any set that has its elements.
LEMMA ElementsInSeq ==
  ASSUME NEW P, NEW Q, NEW s \in Seq(P), \A i \in 1..Len(s) : s[i] \in Q
  PROVE  s \in Seq(Q)
<1>1. Len(s) \in Nat /\ s = [i \in 1..Len(s) |-> s[i]]
  OBVIOUS
<1> QED
  BY <1>1

\* What happens to a queue of distinct elements: one joins, the head leaves,
\* some other one leaves.
LEMMA Joins ==
  ASSUME NEW P, NEW s \in Seq(P), Distinct(s), NEW e, e \notin P
  PROVE  Append(s, e) \in Seq(P \cup {e}) /\ Distinct(Append(s, e))
<1>1. Append(s, e) \in Seq(P \cup {e})
  OBVIOUS
<1>2. /\ Len(Append(s, e)) = Len(s) + 1
      /\ \A i \in 1..Len(s) : Append(s, e)[i] = s[i] /\ s[i] \in P
      /\ Append(s, e)[Len(s) + 1] = e
  OBVIOUS
<1>3. ASSUME NEW i \in 1..(Len(s) + 1), NEW k \in 1..(Len(s) + 1), i # k
      PROVE  Append(s, e)[i] # Append(s, e)[k]
  BY <1>2, <1>3 DEF Distinct
<1> QED
  BY <1>1, <1>2, <1>3 DEF Distinct

LEMMA HeadLeaves ==
  ASSUME NEW P, NEW s \in Seq(P), Distinct(s), s # <<>>
  PROVE  /\ Head(s) \in P
         /\ Tail(s) \in Seq(P \ {Head(s)}) /\ Distinct(Tail(s))
<1>1. /\ Head(s) = s[1] /\ s[1] \in P
      /\ Len(s) \in Nat /\ Len(s) >= 1
      /\ Tail(s) \in Seq(P) /\ Len(Tail(s)) = Len(s) - 1
      /\ \A i \in 1..(Len(s) - 1) : Tail(s)[i] = s[i + 1]
  OBVIOUS
<1>2. \A i \in 1..Len(Tail(s)) : Tail(s)[i] \in P \ {Head(s)}
  BY <1>1 DEF Distinct
<1>3. Tail(s) \in Seq(P \ {Head(s)})
  BY <1>1, <1>2, ElementsInSeq
<1>4. Distinct(Tail(s))
  BY <1>1 DEF Distinct
<1> QED
  BY <1>1, <1>3, <1>4

LEMMA OneLeaves ==
  ASSUME NEW P, NEW s \in Seq(P), Distinct(s), NEW n \in 1..Len(s)
  PROVE  LET t == SubSeq(s, 1, n - 1) \o SubSeq(s, n + 1, Len(s)) IN
         t \in Seq(P \ {s[n]}) /\ Distinct(t)
<1> DEFINE a == SubSeq(s, 1, n - 1)
           b == SubSeq(s, n + 1, Len(s))
           t == a \o b
<1>1. /\ a \in Seq(P) /\ Len(a) = n - 1
      /\ \A i \in 1..(n - 1) : a[i] = s[i]
  OBVIOUS
<1>2. /\ b \in Seq(P) /\ Len(b) = Len(s) - n
      /\ \A i \in 1..(Len(s) - n) : b[i] = s[n + i]
  OBVIOUS
<1>3. Len(s) \in Nat /\ n \in Int /\ 1 <= n /\ n <= Len(s)
  OBVIOUS
<1> HIDE DEF a, b
<1>d. t \in Seq(P) /\ Len(t) = Len(a) + Len(b)
  BY <1>1, <1>2, ConcatProperties, Zenon
<1>4. t \in Seq(P) /\ Len(t) = Len(s) - 1
  <2> HIDE DEF t
  <2> QED
    BY <1>1, <1>2, <1>3, <1>d
<1>a. \A i \in 1..(Len(s) - 1) : t[i] = IF i <= Len(a) THEN a[i] ELSE b[i - Len(a)]
  BY <1>1, <1>2, <1>3, ConcatProperties
<1> HIDE DEF t
<1>b. ASSUME NEW i \in 1..(Len(s) - 1), i >= n
      PROVE  t[i] = s[i + 1]
  <2>1. i - (n - 1) \in 1..(Len(s) - n) /\ n + (i - (n - 1)) = i + 1
    BY <1>3, <1>b
  <2> QED
    BY <1>1, <1>2, <1>3, <1>a, <1>b, <2>1
<1>c. ASSUME NEW i \in 1..(Len(s) - 1), i < n
      PROVE  t[i] = s[i]
  BY <1>1, <1>3, <1>a, <1>c
<1>5. \A i \in 1..(Len(s) - 1) : t[i] = IF i < n THEN s[i] ELSE s[i + 1]
  BY <1>b, <1>c
<1>6. \A i \in 1..Len(t) : t[i] \in P \ {s[n]}
  BY <1>3, <1>4, <1>5 DEF Distinct
<1>7. t \in Seq(P \ {s[n]})
  BY <1>4, <1>6, ElementsInSeq
<1>8. ASSUME NEW i \in 1..(Len(s) - 1), NEW k \in 1..(Len(s) - 1), i # k
      PROVE  t[i] # t[k]
  <2> DEFINE at(x) == IF x < n THEN x ELSE x + 1
  <2>1. at(i) \in 1..Len(s) /\ at(k) \in 1..Len(s) /\ at(i) # at(k)
    BY <1>3, <1>8
  <2>2. t[i] = s[at(i)] /\ t[k] = s[at(k)]
    BY <1>5
  <2> QED
    BY <2>1, <2>2 DEF Distinct
<1>9. Distinct(t)
  BY <1>3, <1>4, <1>8 DEF Distinct
<1> QED
  BY <1>7, <1>9 DEF t, a, b

\* A failure is never taken back.
LEMMA CauseStable ==
  ASSUME Cause, signals' >= signals, signals \in Int, signals' \in Int,
         \A k \in Jobs : outcome[k] = "failed" => outcome'[k] = "failed"
  PROVE  Cause'
BY DEF Cause

LEMMA InvInit == Init => Inv
<1> SUFFICES ASSUME Init PROVE Inv
  OBVIOUS
<1> USE DEF Init
<1>1. TypeOK
  <2>1. waiters \in [Contexts -> Seq(Jobs)]
    BY <<>> \in Seq(Jobs)
  <2>2. handler \in [Contexts -> {"none", "armed", "caught", "cancelGo", "gone"}]
    OBVIOUS
  <2>3. pc \in [Jobs -> {"idle"}] /\ outcome \in [Jobs -> {"none"}]
    OBVIOUS
  <2>4. cur \in [Contexts -> Nat] /\ cancelled \in [Contexts -> BOOLEAN]
    OBVIOUS
  <2> QED
    BY <2>1, <2>2, <2>3, <2>4 DEF TypeOK
<1>2. LoopInv /\ JobsInv /\ OutcomeInv
  BY DEF LoopInv, JobsInv, OutcomeInv
<1>6. ErrInv /\ CauseInv
  BY DEF ErrInv, CauseInv, Cause
<1>7. QueueInv
  <2>1. \A S : <<>> \in Seq(S) /\ Distinct(<<>>)
    BY DEF Distinct
  <2> QED
    BY <2>1 DEF QueueInv
<1>3. NilMeansAllSucceeded /\ NoJobOutlivesResult
  BY DEF NilMeansAllSucceeded, NoJobOutlivesResult
<1>4. \A c \in Contexts : Holders(c) = {}
  BY DEF Holders
<1>5. TokensAccounted
  BY <1>4, FS_EmptySet DEF TokensAccounted
<1> QED
  BY <1>1, <1>2, <1>3, <1>5, <1>6, <1>7 DEF Inv
-----------------------------------------------------------------------------
(* Each action preserves the invariant.                                    *)

LEMMA DeriveContextInv ==
  ASSUME Inv, DeriveContext
  PROVE  Inv'
<1> USE DEF Inv
<1>1. TypeOK'
  BY DEF TypeOK, DeriveContext
<1>2. LoopInv'
  BY DEF TypeOK, LoopInv, NoJobOutlivesResult, DeriveContext
<1>3. JobsInv'
  BY DEF TypeOK, JobsInv, LoopInv, DeriveContext
<1>4. OutcomeInv'
  BY DEF TypeOK, OutcomeInv, LoopInv, JobsInv, DeriveContext
<1>5. ErrInv'
  BY DEF TypeOK, ErrInv, OutcomeInv, LoopInv, DeriveContext
<1>6. CauseInv'
  BY DEF TypeOK, CauseInv, Cause, OutcomeInv, DeriveContext
<1>7. QueueInv'
  BY QueueStable DEF TypeOK, DeriveContext
<1>8. NilMeansAllSucceeded'
  BY DEF TypeOK, LoopInv, NoJobOutlivesResult, NilMeansAllSucceeded, DeriveContext
<1>9. NoJobOutlivesResult'
  BY DEF TypeOK, NoJobOutlivesResult, LoopInv, JobsInv, DeriveContext
<1>10. TokensAccounted'
  BY TokensStable DEF TypeOK, DeriveContext
<1> QED
  BY <1>1, <1>2, <1>3, <1>4, <1>5, <1>6, <1>7, <1>8, <1>9, <1>10

LEMMA StartParallelInv ==
  ASSUME Inv, StartParallel
  PROVE  Inv'
<1> USE DEF Inv
<1>0. /\ main = "start"
      /\ UNCHANGED <<config, result, outcome, cur, waiters, cancelled, goCancelled, egErr, handler, signals>>
  BY DEF StartParallel
<1>a. next \in Jobs /\ pc[next] = "idle"
  BY <1>0 DEF TypeOK, LoopInv, JobsInv
<1>1. CASE /\ parallel
            /\ pc' = [pc EXCEPT ![next] = "spawned"]
            /\ main' = "loop"
            /\ next' = next + 1
  <2>1. TypeOK'
    BY <1>0, <1>1, <1>a DEF TypeOK, LoopInv
  <2>2. LoopInv'
    BY <1>0, <1>1, <1>a DEF TypeOK, LoopInv, NoJobOutlivesResult
  <2>3. JobsInv'
    BY <1>0, <1>1, <1>a DEF TypeOK, JobsInv, LoopInv
  <2>4. OutcomeInv'
    BY <1>0, <1>1, <1>a DEF TypeOK, OutcomeInv, LoopInv, JobsInv
  <2>5. ErrInv'
    BY <1>0, <1>1, <1>a DEF TypeOK, ErrInv, OutcomeInv, LoopInv
  <2>6. CauseInv'
    BY <1>0, <1>1, <1>a DEF TypeOK, CauseInv, Cause, OutcomeInv
  <2>7. QueueInv'
    BY <1>0, <1>1, <1>a, QueueStable DEF TypeOK
  <2>8. NilMeansAllSucceeded'
    BY <1>0, <1>1, <1>a DEF TypeOK, LoopInv, NoJobOutlivesResult, NilMeansAllSucceeded
  <2>9. NoJobOutlivesResult'
    BY <1>0, <1>1, <1>a DEF TypeOK, NoJobOutlivesResult, LoopInv, JobsInv
  <2>10. TokensAccounted'
    BY <1>0, <1>1, <1>a, TokensStable DEF TypeOK
  <2> QED
    BY <2>1, <2>2, <2>3, <2>4, <2>5, <2>6, <2>7, <2>8, <2>9, <2>10
<1>2. CASE /\ ~parallel
            /\ pc' = [pc EXCEPT ![next] = "running"]
            /\ main' = "call"
            /\ next' = next
  <2>1. TypeOK'
    BY <1>0, <1>2, <1>a DEF TypeOK
  <2>2. LoopInv'
    BY <1>0, <1>2, <1>a DEF TypeOK, LoopInv, NoJobOutlivesResult
  <2>3. JobsInv'
    BY <1>0, <1>2, <1>a DEF TypeOK, JobsInv, LoopInv
  <2>4. OutcomeInv'
    BY <1>0, <1>2, <1>a DEF TypeOK, OutcomeInv, LoopInv, JobsInv
  <2>5. ErrInv'
    BY <1>0, <1>2, <1>a DEF TypeOK, ErrInv, OutcomeInv, LoopInv
  <2>6. CauseInv'
    BY <1>0, <1>2, <1>a DEF TypeOK, CauseInv, Cause, OutcomeInv
  <2>7. QueueInv'
    BY <1>0, <1>2, <1>a, QueueStable DEF TypeOK
  <2>8. NilMeansAllSucceeded'
    BY <1>0, <1>2, <1>a DEF TypeOK, LoopInv, NoJobOutlivesResult, NilMeansAllSucceeded
  <2>9. NoJobOutlivesResult'
    BY <1>0, <1>2, <1>a DEF TypeOK, NoJobOutlivesResult, LoopInv, JobsInv
  <2>10. TokensAccounted'
    BY <1>0, <1>2, <1>a DEF TokensAccounted
  <2> QED
    BY <2>1, <2>2, <2>3, <2>4, <2>5, <2>6, <2>7, <2>8, <2>9, <2>10
<1> QED
  BY <1>0, <1>1, <1>2 DEF StartParallel

LEMMA CallReturnedInv ==
  ASSUME Inv, CallReturned
  PROVE  Inv'
<1> USE DEF Inv
<1>0. /\ main = "call"
      /\ pc[next] = "report"
      /\ pc' = [pc EXCEPT ![next] = "done"]
      /\ UNCHANGED <<config, outcome, cur, waiters, cancelled, goCancelled, egErr, handler, signals>>
  BY DEF CallReturned
<1>a. next \in Jobs
  BY <1>0 DEF TypeOK, LoopInv
<1>1. CASE /\ outcome[next] = "ok"
            /\ main' = "loop"
            /\ next' = next + 1
            /\ result' = result
  <2>1. TypeOK'
    BY <1>0, <1>1, <1>a DEF TypeOK, LoopInv
  <2>2. LoopInv'
    BY <1>0, <1>1, <1>a DEF TypeOK, LoopInv, NoJobOutlivesResult
  <2>3. JobsInv'
    BY <1>0, <1>1, <1>a DEF TypeOK, JobsInv, LoopInv
  <2>4. OutcomeInv'
    BY <1>0, <1>1, <1>a DEF TypeOK, OutcomeInv, LoopInv, JobsInv
  <2>5. ErrInv'
    BY <1>0, <1>1, <1>a DEF TypeOK, ErrInv, OutcomeInv, LoopInv
  <2>6. CauseInv'
    BY <1>0, <1>1, <1>a DEF TypeOK, CauseInv, Cause, OutcomeInv
  <2>7. QueueInv'
    BY <1>0, <1>1, <1>a, QueueStable DEF TypeOK
  <2>8. NilMeansAllSucceeded'
    BY <1>0, <1>1, <1>a DEF TypeOK, LoopInv, NoJobOutlivesResult, NilMeansAllSucceeded
  <2>9. NoJobOutlivesResult'
    BY <1>0, <1>1, <1>a DEF TypeOK, NoJobOutlivesResult, LoopInv, JobsInv
  <2>10. TokensAccounted'
    BY <1>0, <1>1, <1>a, TokensStable DEF TypeOK
  <2> QED
    BY <2>1, <2>2, <2>3, <2>4, <2>5, <2>6, <2>7, <2>8, <2>9, <2>10
<1>2. CASE /\ outcome[next] # "ok"
            /\ main' = "returned"
            /\ next' = next
            /\ result' = next
  <2>1. TypeOK'
    BY <1>0, <1>2, <1>a DEF TypeOK, LoopInv
  <2>2. LoopInv'
    BY <1>0, <1>2, <1>a DEF TypeOK, LoopInv, NoJobOutlivesResult, OutcomeInv
  <2>3. JobsInv'
    BY <1>0, <1>2, <1>a DEF TypeOK, JobsInv, LoopInv
  <2>4. OutcomeInv'
    BY <1>0, <1>2, <1>a DEF TypeOK, OutcomeInv, LoopInv, JobsInv
  <2>5. ErrInv'
    BY <1>0, <1>2, <1>a DEF TypeOK, ErrInv, OutcomeInv, LoopInv
  <2>6. CauseInv'
    BY <1>0, <1>2, <1>a DEF TypeOK, CauseInv, Cause, OutcomeInv
  <2>7. QueueInv'
    BY <1>0, <1>2, <1>a, QueueStable DEF TypeOK
  <2>8. NilMeansAllSucceeded'
    BY <1>0, <1>2, <1>a DEF TypeOK, LoopInv, NoJobOutlivesResult, NilMeansAllSucceeded
  <2>9. NoJobOutlivesResult'
    BY <1>0, <1>2, <1>a DEF TypeOK, NoJobOutlivesResult, LoopInv, JobsInv
  <2>10. TokensAccounted'
    BY <1>0, <1>2, <1>a, TokensStable DEF TypeOK
  <2> QED
    BY <2>1, <2>2, <2>3, <2>4, <2>5, <2>6, <2>7, <2>8, <2>9, <2>10
<1> QED
  BY <1>0, <1>1, <1>2 DEF CallReturned

LEMMA LoopEndsInv ==
  ASSUME Inv, LoopEnds
  PROVE  Inv'
<1> USE DEF Inv
<1>1. TypeOK'
  BY DEF TypeOK, LoopEnds
<1>2. LoopInv'
  BY DEF TypeOK, LoopInv, NoJobOutlivesResult, LoopEnds
<1>3. JobsInv'
  BY DEF TypeOK, JobsInv, LoopInv, LoopEnds
<1>4. OutcomeInv'
  BY DEF TypeOK, OutcomeInv, LoopInv, JobsInv, LoopEnds
<1>5. ErrInv'
  BY DEF TypeOK, ErrInv, OutcomeInv, LoopInv, LoopEnds
<1>6. CauseInv'
  BY DEF TypeOK, CauseInv, Cause, OutcomeInv, LoopEnds
<1>7. QueueInv'
  BY QueueStable DEF TypeOK, LoopEnds
<1>8. NilMeansAllSucceeded'
  BY DEF TypeOK, LoopInv, NoJobOutlivesResult, NilMeansAllSucceeded, LoopEnds
<1>9. NoJobOutlivesResult'
  BY DEF TypeOK, NoJobOutlivesResult, LoopInv, JobsInv, LoopEnds
<1>10. TokensAccounted'
  BY TokensStable DEF TypeOK, LoopEnds
<1> QED
  BY <1>1, <1>2, <1>3, <1>4, <1>5, <1>6, <1>7, <1>8, <1>9, <1>10

LEMMA WaitParallelInv ==
  ASSUME Inv, WaitParallel
  PROVE  Inv'
<1> USE DEF Inv
<1>1. TypeOK'
  BY DEF TypeOK, WaitParallel
<1>2. LoopInv'
  BY DEF TypeOK, LoopInv, NoJobOutlivesResult, WaitParallel
<1>3. JobsInv'
  BY DEF TypeOK, JobsInv, LoopInv, WaitParallel
<1>4. OutcomeInv'
  BY DEF TypeOK, OutcomeInv, LoopInv, JobsInv, WaitParallel
<1>5. ErrInv'
  BY DEF TypeOK, ErrInv, OutcomeInv, LoopInv, WaitParallel
<1>6. CauseInv'
  BY DEF TypeOK, CauseInv, Cause, OutcomeInv, WaitParallel
<1>7. QueueInv'
  BY QueueStable DEF TypeOK, WaitParallel
<1>8. NilMeansAllSucceeded'
  BY DEF TypeOK, NilMeansAllSucceeded, LoopInv, JobsInv, ErrInv, WaitParallel
<1>9. NoJobOutlivesResult'
  BY DEF TypeOK, NoJobOutlivesResult, LoopInv, JobsInv, WaitParallel
<1>10. TokensAccounted'
  BY TokensStable DEF TypeOK, WaitParallel
<1> QED
  BY <1>1, <1>2, <1>3, <1>4, <1>5, <1>6, <1>7, <1>8, <1>9, <1>10

LEMMA AcquireInv ==
  ASSUME Inv, NEW j \in Jobs, Acquire(j)
  PROVE  Inv'
<1> USE DEF Inv
<1>0. /\ pc[j] = "spawned"
      /\ UNCHANGED <<config, main, next, result, outcome, cancelled, goCancelled, egErr, handler, signals>>
  BY DEF Acquire
<1>m. main # "returned" /\ result = Pending
  BY <1>0 DEF LoopInv, NoJobOutlivesResult
<1>1. CASE /\ ~Limited
            /\ pc' = [pc EXCEPT ![j] = "check"]
            /\ UNCHANGED semVars
  <2>1. TypeOK'
    BY <1>0, <1>1 DEF TypeOK
  <2>2. LoopInv'
    BY <1>0, <1>1, <1>m DEF TypeOK, LoopInv, NoJobOutlivesResult, JobsInv
  <2>3. JobsInv'
    BY <1>0, <1>1 DEF TypeOK, JobsInv, LoopInv
  <2>4. OutcomeInv'
    BY <1>0, <1>1 DEF TypeOK, OutcomeInv, LoopInv, JobsInv
  <2>5. ErrInv'
    BY <1>0, <1>1 DEF TypeOK, ErrInv, OutcomeInv, LoopInv
  <2>6. CauseInv'
    BY <1>0, <1>1 DEF TypeOK, CauseInv, Cause, OutcomeInv
  <2>7. QueueInv'
    BY <1>0, <1>1, QueueStable DEF TypeOK
  <2>8. NilMeansAllSucceeded'
    BY <1>0, <1>1, <1>m DEF NilMeansAllSucceeded
  <2>9. NoJobOutlivesResult'
    BY <1>0, <1>1 DEF TypeOK, NoJobOutlivesResult, LoopInv, JobsInv
  <2>10. TokensAccounted'
    BY <1>0, <1>1 DEF TokensAccounted
  <2> QED
    BY <2>1, <2>2, <2>3, <2>4, <2>5, <2>6, <2>7, <2>8, <2>9, <2>10
<1>2. CASE /\ Limited /\ cur[CtxOf(j)] < ParallelCount
            /\ pc' = [pc EXCEPT ![j] = "check"]
            /\ cur' = [cur EXCEPT ![CtxOf(j)] = @ + 1]
            /\ UNCHANGED waiters
  <2>1. TypeOK'
    BY <1>0, <1>2 DEF TypeOK
  <2>2. LoopInv'
    BY <1>0, <1>2, <1>m DEF TypeOK, LoopInv, NoJobOutlivesResult, JobsInv
  <2>3. JobsInv'
    BY <1>0, <1>2 DEF TypeOK, JobsInv, LoopInv
  <2>4. OutcomeInv'
    BY <1>0, <1>2 DEF TypeOK, OutcomeInv, LoopInv, JobsInv
  <2>5. ErrInv'
    BY <1>0, <1>2 DEF TypeOK, ErrInv, OutcomeInv, LoopInv
  <2>6. CauseInv'
    BY <1>0, <1>2 DEF TypeOK, CauseInv, Cause, OutcomeInv
  <2>7. QueueInv'
    BY <1>0, <1>2, QueueStable DEF TypeOK
  <2>8. NilMeansAllSucceeded'
    BY <1>0, <1>2, <1>m DEF NilMeansAllSucceeded
  <2>9. NoJobOutlivesResult'
    BY <1>0, <1>2 DEF TypeOK, NoJobOutlivesResult, LoopInv, JobsInv
  <2>10. TokensAccounted'
    <3>1. CASE ~parallel
      BY <3>1, <1>0, <1>2 DEF TokensAccounted
    <3>2. CASE parallel
      <4>1. j \notin Holders(CtxOf(j)) /\ CtxOf(j) \in Contexts
        BY <1>0 DEF Holders
      <4>2. Holders(CtxOf(j))' = Holders(CtxOf(j)) \cup {j}
        BY <1>0, <1>2 DEF TypeOK, Holders
      <4>3. \A c \in Contexts \ {CtxOf(j)} : Holders(c)' = Holders(c)
        BY <1>0, <1>2 DEF TypeOK, Holders
      <4>4. Cardinality(Holders(CtxOf(j))') = Cardinality(Holders(CtxOf(j))) + 1
        BY <4>1, <4>2, HoldersFinite, FS_AddElement
      <4>5. cur[CtxOf(j)] = Cardinality(Holders(CtxOf(j)))
        BY <3>2, <1>2, <4>1 DEF TokensAccounted
      <4> QED
        BY <3>2, <1>0, <1>2, <4>1, <4>3, <4>4, <4>5 DEF TypeOK, TokensAccounted
    <3> QED
      BY <3>1, <3>2
  <2> QED
    BY <2>1, <2>2, <2>3, <2>4, <2>5, <2>6, <2>7, <2>8, <2>9, <2>10
<1>3. CASE /\ Limited
            /\ pc' = [pc EXCEPT ![j] = "queued"]
            /\ waiters' = [waiters EXCEPT ![CtxOf(j)] = Append(@, j)]
            /\ UNCHANGED cur
  <2>1. TypeOK'
    BY <1>0, <1>3 DEF TypeOK
  <2>2. LoopInv'
    BY <1>0, <1>3, <1>m DEF TypeOK, LoopInv, NoJobOutlivesResult, JobsInv
  <2>3. JobsInv'
    BY <1>0, <1>3 DEF TypeOK, JobsInv, LoopInv
  <2>4. OutcomeInv'
    BY <1>0, <1>3 DEF TypeOK, OutcomeInv, LoopInv, JobsInv
  <2>5. ErrInv'
    BY <1>0, <1>3 DEF TypeOK, ErrInv, OutcomeInv, LoopInv
  <2>6. CauseInv'
    BY <1>0, <1>3 DEF TypeOK, CauseInv, Cause, OutcomeInv
  <2>7. QueueInv'
    <3>1. CtxOf(j) \in Contexts /\ j \notin QueuedIn(CtxOf(j))
      BY <1>0 DEF QueuedIn
    <3>2. QueuedIn(CtxOf(j))' = QueuedIn(CtxOf(j)) \cup {j}
      BY <1>0, <1>3 DEF TypeOK, QueuedIn
    <3>3. waiters'[CtxOf(j)] \in Seq(QueuedIn(CtxOf(j))') /\ Distinct(waiters'[CtxOf(j)])
      BY <1>0, <1>3, <3>1, <3>2, Joins DEF TypeOK, QueueInv
    <3>4. \A d \in Contexts \ {CtxOf(j)} : QueuedIn(d)' = QueuedIn(d) /\ waiters'[d] = waiters[d]
      BY <1>0, <1>3 DEF TypeOK, QueuedIn
    <3>5. ASSUME NEW d \in Contexts
          PROVE  waiters'[d] \in Seq(QueuedIn(d)') /\ Distinct(waiters'[d])
      <4>1. CASE d = CtxOf(j)
        BY <1>0, <3>3, <4>1 DEF QueuedIn
      <4>2. CASE d # CtxOf(j)
        BY <3>4, <4>2 DEF QueueInv
      <4> QED
        BY <4>1, <4>2
    <3> QED
      BY <3>5 DEF QueueInv
  <2>8. NilMeansAllSucceeded'
    BY <1>0, <1>3, <1>m DEF NilMeansAllSucceeded
  <2>9. NoJobOutlivesResult'
    BY <1>0, <1>3 DEF TypeOK, NoJobOutlivesResult, LoopInv, JobsInv
  <2>10. TokensAccounted'
    BY <1>0, <1>3, TokensStable DEF TypeOK
  <2> QED
    BY <2>1, <2>2, <2>3, <2>4, <2>5, <2>6, <2>7, <2>8, <2>9, <2>10
<1> QED
  BY <1>0, <1>1, <1>2, <1>3 DEF Acquire

LEMMA AcquireFailsInv ==
  ASSUME Inv, NEW j \in Jobs, AcquireFails(j)
  PROVE  Inv'
<1> USE DEF Inv
<1>0. /\ Limited /\ goCancelled
      /\ pc' = [pc EXCEPT ![j] = "report"]
      /\ outcome' = [outcome EXCEPT ![j] = "notAcquired"]
      /\ UNCHANGED <<config, main, next, result, cur, cancelled, goCancelled, egErr, handler, signals>>
  BY DEF AcquireFails
<1>m. main # "returned" /\ result = Pending
  BY <1>0 DEF AcquireFails, LoopInv, NoJobOutlivesResult
<1>1. CASE /\ pc[j] = "spawned"
            /\ waiters' = waiters
  <2>1. TypeOK'
    BY <1>0, <1>1 DEF TypeOK
  <2>2. LoopInv'
    BY <1>0, <1>1, <1>m DEF TypeOK, LoopInv, NoJobOutlivesResult, JobsInv
  <2>3. JobsInv'
    BY <1>0, <1>1 DEF TypeOK, JobsInv, LoopInv
  <2>4. OutcomeInv'
    BY <1>0, <1>1 DEF TypeOK, OutcomeInv, LoopInv, JobsInv
  <2>5. ErrInv'
    BY <1>0, <1>1 DEF TypeOK, ErrInv, OutcomeInv, LoopInv
  <2>6. CauseInv'
    <3>1. Cause
      BY <1>0, <1>1 DEF TypeOK, CauseInv, LoopInv, NoJobOutlivesResult
    <3>2. \A k \in Jobs : outcome[k] = "failed" => outcome'[k] = "failed"
      BY <1>0, <1>1 DEF TypeOK, OutcomeInv
    <3>3. Cause'
      BY <1>0, <3>1, <3>2, CauseStable DEF TypeOK
    <3> QED
      BY <1>0, <1>1, <3>3 DEF TypeOK, CauseInv
  <2>7. QueueInv'
    BY <1>0, <1>1, QueueStable DEF TypeOK
  <2>8. NilMeansAllSucceeded'
    BY <1>0, <1>1, <1>m DEF NilMeansAllSucceeded
  <2>9. NoJobOutlivesResult'
    BY <1>0, <1>1 DEF TypeOK, NoJobOutlivesResult, LoopInv, JobsInv
  <2>10. TokensAccounted'
    BY <1>0, <1>1, TokensStable DEF TypeOK
  <2> QED
    BY <2>1, <2>2, <2>3, <2>4, <2>5, <2>6, <2>7, <2>8, <2>9, <2>10
<1>2. CASE /\ pc[j] = "queued"
            /\ \E n \in 1..Len(waiters[CtxOf(j)]) :
                  waiters[CtxOf(j)][n] = j /\ waiters' = [waiters EXCEPT
                    ![CtxOf(j)] = SubSeq(@, 1, n - 1) \o SubSeq(@, n + 1, Len(@))]
  <2>1. TypeOK'
    <3>1. PICK n \in 1..Len(waiters[CtxOf(j)]) :
            waiters' = [waiters EXCEPT
              ![CtxOf(j)] = SubSeq(@, 1, n - 1) \o SubSeq(@, n + 1, Len(@))]
      BY <1>2
    <3>2. CtxOf(j) \in Contexts /\ waiters[CtxOf(j)] \in Seq(Jobs)
      BY DEF TypeOK
    <3>3. SubSeq(waiters[CtxOf(j)], 1, n - 1)
            \o SubSeq(waiters[CtxOf(j)], n + 1, Len(waiters[CtxOf(j)])) \in Seq(Jobs)
      BY <3>2
    <3>4. waiters' \in [Contexts -> Seq(Jobs)]
      BY <3>1, <3>2, <3>3 DEF TypeOK
    <3> QED
      BY <1>0, <1>2, <3>4 DEF TypeOK
  <2>2. LoopInv'
    BY <1>0, <1>2, <1>m DEF TypeOK, LoopInv, NoJobOutlivesResult, JobsInv
  <2>3. JobsInv'
    BY <1>0, <1>2 DEF TypeOK, JobsInv, LoopInv
  <2>4. OutcomeInv'
    BY <1>0, <1>2 DEF TypeOK, OutcomeInv, LoopInv, JobsInv
  <2>5. ErrInv'
    BY <1>0, <1>2 DEF TypeOK, ErrInv, OutcomeInv, LoopInv
  <2>6. CauseInv'
    <3>1. Cause
      BY <1>0, <1>2 DEF TypeOK, CauseInv, LoopInv, NoJobOutlivesResult
    <3>2. \A k \in Jobs : outcome[k] = "failed" => outcome'[k] = "failed"
      BY <1>0, <1>2 DEF TypeOK, OutcomeInv
    <3>3. Cause'
      BY <1>0, <3>1, <3>2, CauseStable DEF TypeOK
    <3> QED
      BY <1>0, <1>2, <3>3 DEF TypeOK, CauseInv
  <2>7. QueueInv'
    <3>1. PICK n \in 1..Len(waiters[CtxOf(j)]) :
            /\ waiters[CtxOf(j)][n] = j
            /\ waiters' = [waiters EXCEPT
                 ![CtxOf(j)] = SubSeq(@, 1, n - 1) \o SubSeq(@, n + 1, Len(@))]
      BY <1>2
    <3>a. /\ pc'[j] = "report" /\ UNCHANGED ownContext
          /\ \A k \in Jobs \ {j} : pc'[k] = pc[k]
      BY <1>0 DEF TypeOK
    <3>2. QueuedIn(CtxOf(j))' = QueuedIn(CtxOf(j)) \ {j} /\ CtxOf(j) \in Contexts
      BY <3>a DEF QueuedIn
    <3>b. \A d \in Contexts \ {CtxOf(j)} : QueuedIn(d)' = QueuedIn(d)
      BY <3>a DEF QueuedIn
    <3>c. \A d \in Contexts \ {CtxOf(j)} : waiters'[d] = waiters[d]
      BY <3>1 DEF TypeOK
    <3>3. waiters'[CtxOf(j)] \in Seq(QueuedIn(CtxOf(j))') /\ Distinct(waiters'[CtxOf(j)])
      BY <1>0, <3>1, <3>2, OneLeaves DEF TypeOK, QueueInv
    <3>4. \A d \in Contexts \ {CtxOf(j)} : QueuedIn(d)' = QueuedIn(d) /\ waiters'[d] = waiters[d]
      BY <3>b, <3>c
    <3>5. ASSUME NEW d \in Contexts
          PROVE  waiters'[d] \in Seq(QueuedIn(d)') /\ Distinct(waiters'[d])
      <4>1. CASE d = CtxOf(j)
        BY <1>0, <3>3, <4>1 DEF QueuedIn
      <4>2. CASE d # CtxOf(j)
        BY <3>4, <4>2 DEF QueueInv
      <4> QED
        BY <4>1, <4>2
    <3> QED
      BY <3>5 DEF QueueInv
  <2>8. NilMeansAllSucceeded'
    BY <1>0, <1>2, <1>m DEF NilMeansAllSucceeded
  <2>9. NoJobOutlivesResult'
    BY <1>0, <1>2 DEF TypeOK, NoJobOutlivesResult, LoopInv, JobsInv
  <2>10. TokensAccounted'
    BY <1>0, <1>2, TokensStable DEF TypeOK
  <2> QED
    BY <2>1, <2>2, <2>3, <2>4, <2>5, <2>6, <2>7, <2>8, <2>9, <2>10
<1> QED
  BY <1>0, <1>1, <1>2 DEF AcquireFails

LEMMA AcquireReturnsInv ==
  ASSUME Inv, NEW j \in Jobs, AcquireReturns(j)
  PROVE  Inv'
<1> USE DEF Inv
<1>0. /\ pc[j] = "granted"
      /\ UNCHANGED <<config, main, next, result, cur, waiters, cancelled, goCancelled, egErr, handler, signals>>
  BY DEF AcquireReturns
<1>m. main # "returned" /\ result = Pending
  BY <1>0 DEF LoopInv, NoJobOutlivesResult
<1>1. CASE /\ pc' = [pc EXCEPT ![j] = "check"]
            /\ outcome' = outcome
  <2>1. TypeOK'
    BY <1>0, <1>1 DEF TypeOK
  <2>2. LoopInv'
    BY <1>0, <1>1, <1>m DEF TypeOK, LoopInv, NoJobOutlivesResult, JobsInv
  <2>3. JobsInv'
    BY <1>0, <1>1 DEF TypeOK, JobsInv, LoopInv
  <2>4. OutcomeInv'
    BY <1>0, <1>1 DEF TypeOK, OutcomeInv, LoopInv, JobsInv
  <2>5. ErrInv'
    BY <1>0, <1>1 DEF TypeOK, ErrInv, OutcomeInv, LoopInv
  <2>6. CauseInv'
    BY <1>0, <1>1 DEF TypeOK, CauseInv, Cause, OutcomeInv
  <2>7. QueueInv'
    BY <1>0, <1>1, QueueStable DEF TypeOK
  <2>8. NilMeansAllSucceeded'
    BY <1>0, <1>1, <1>m DEF NilMeansAllSucceeded
  <2>9. NoJobOutlivesResult'
    BY <1>0, <1>1 DEF TypeOK, NoJobOutlivesResult, LoopInv, JobsInv
  <2>10. TokensAccounted'
    BY <1>0, <1>1, TokensStable DEF TypeOK
  <2> QED
    BY <2>1, <2>2, <2>3, <2>4, <2>5, <2>6, <2>7, <2>8, <2>9, <2>10
<1>2. CASE /\ goCancelled
            /\ pc' = [pc EXCEPT ![j] = "release"]
            /\ outcome' = [outcome EXCEPT ![j] = "notAcquired"]
  <2>1. TypeOK'
    BY <1>0, <1>2 DEF TypeOK
  <2>2. LoopInv'
    BY <1>0, <1>2, <1>m DEF TypeOK, LoopInv, NoJobOutlivesResult, JobsInv
  <2>3. JobsInv'
    BY <1>0, <1>2 DEF TypeOK, JobsInv, LoopInv
  <2>4. OutcomeInv'
    BY <1>0, <1>2 DEF TypeOK, OutcomeInv, LoopInv, JobsInv
  <2>5. ErrInv'
    BY <1>0, <1>2 DEF TypeOK, ErrInv, OutcomeInv, LoopInv
  <2>6. CauseInv'
    <3>1. Cause
      BY <1>0, <1>2 DEF TypeOK, CauseInv, LoopInv, NoJobOutlivesResult
    <3>2. \A k \in Jobs : outcome[k] = "failed" => outcome'[k] = "failed"
      BY <1>0, <1>2 DEF TypeOK, OutcomeInv
    <3>3. Cause'
      BY <1>0, <3>1, <3>2, CauseStable DEF TypeOK
    <3> QED
      BY <1>0, <1>2, <3>3 DEF TypeOK, CauseInv
  <2>7. QueueInv'
    BY <1>0, <1>2, QueueStable DEF TypeOK
  <2>8. NilMeansAllSucceeded'
    BY <1>0, <1>2, <1>m DEF NilMeansAllSucceeded
  <2>9. NoJobOutlivesResult'
    BY <1>0, <1>2 DEF TypeOK, NoJobOutlivesResult, LoopInv, JobsInv
  <2>10. TokensAccounted'
    BY <1>0, <1>2, TokensStable DEF TypeOK
  <2> QED
    BY <2>1, <2>2, <2>3, <2>4, <2>5, <2>6, <2>7, <2>8, <2>9, <2>10
<1> QED
  BY <1>0, <1>1, <1>2 DEF AcquireReturns

LEMMA CheckCancelledInv ==
  ASSUME Inv, NEW j \in Jobs, CheckCancelled(j)
  PROVE  Inv'
<1> USE AfterCallbackState DEF Inv
<1>0. /\ pc[j] = "check"
      /\ UNCHANGED <<config, main, next, result, cur, waiters, cancelled, goCancelled, egErr, handler, signals>>
  BY DEF CheckCancelled
<1>m. main # "returned" /\ result = Pending
  BY <1>0 DEF LoopInv, NoJobOutlivesResult
<1>1. CASE /\ cancelled[CtxOf(j)]
            /\ pc' = [pc EXCEPT ![j] = AfterCallback]
            /\ outcome' = [outcome EXCEPT ![j] = "cancelled"]
  <2>1. TypeOK'
    BY <1>0, <1>1 DEF TypeOK
  <2>2. LoopInv'
    BY <1>0, <1>1, <1>m DEF TypeOK, LoopInv, NoJobOutlivesResult, JobsInv
  <2>3. JobsInv'
    BY <1>0, <1>1 DEF TypeOK, JobsInv, LoopInv
  <2>4. OutcomeInv'
    BY <1>0, <1>1 DEF TypeOK, OutcomeInv, LoopInv, JobsInv
  <2>5. ErrInv'
    BY <1>0, <1>1 DEF TypeOK, ErrInv, OutcomeInv, LoopInv
  <2>6. CauseInv'
    <3>1. Cause
      BY <1>0, <1>1 DEF TypeOK, CauseInv
    <3>2. \A k \in Jobs : outcome[k] = "failed" => outcome'[k] = "failed"
      BY <1>0, <1>1 DEF TypeOK, OutcomeInv
    <3>3. Cause'
      BY <1>0, <3>1, <3>2, CauseStable DEF TypeOK
    <3> QED
      BY <1>0, <1>1, <3>3 DEF TypeOK, CauseInv
  <2>7. QueueInv'
    BY <1>0, <1>1, QueueStable DEF TypeOK
  <2>8. NilMeansAllSucceeded'
    BY <1>0, <1>1, <1>m DEF NilMeansAllSucceeded
  <2>9. NoJobOutlivesResult'
    BY <1>0, <1>1 DEF TypeOK, NoJobOutlivesResult, LoopInv, JobsInv
  <2>10. TokensAccounted'
    <3>1. CASE ~(parallel /\ Limited)
      BY <1>0, <3>1 DEF TokensAccounted
    <3>2. CASE parallel /\ Limited
      BY <1>0, <1>1, <3>2, TokensStable DEF TypeOK
    <3> QED
      BY <3>1, <3>2
  <2> QED
    BY <2>1, <2>2, <2>3, <2>4, <2>5, <2>6, <2>7, <2>8, <2>9, <2>10
<1>2. CASE /\ pc' = [pc EXCEPT ![j] = "running"]
            /\ outcome' = outcome
  <2>1. TypeOK'
    BY <1>0, <1>2 DEF TypeOK
  <2>2. LoopInv'
    BY <1>0, <1>2, <1>m DEF TypeOK, LoopInv, NoJobOutlivesResult, JobsInv
  <2>3. JobsInv'
    BY <1>0, <1>2 DEF TypeOK, JobsInv, LoopInv
  <2>4. OutcomeInv'
    BY <1>0, <1>2 DEF TypeOK, OutcomeInv, LoopInv, JobsInv
  <2>5. ErrInv'
    BY <1>0, <1>2 DEF TypeOK, ErrInv, OutcomeInv, LoopInv
  <2>6. CauseInv'
    BY <1>0, <1>2 DEF TypeOK, CauseInv, Cause, OutcomeInv
  <2>7. QueueInv'
    BY <1>0, <1>2, QueueStable DEF TypeOK
  <2>8. NilMeansAllSucceeded'
    BY <1>0, <1>2, <1>m DEF NilMeansAllSucceeded
  <2>9. NoJobOutlivesResult'
    BY <1>0, <1>2 DEF TypeOK, NoJobOutlivesResult, LoopInv, JobsInv
  <2>10. TokensAccounted'
    BY <1>0, <1>2, TokensStable DEF TypeOK
  <2> QED
    BY <2>1, <2>2, <2>3, <2>4, <2>5, <2>6, <2>7, <2>8, <2>9, <2>10
<1> QED
  BY <1>0, <1>1, <1>2 DEF CheckCancelled

LEMMA CallbackReturnsInv ==
  ASSUME Inv, NEW j \in Jobs, CallbackReturns(j)
  PROVE  Inv'
<1> USE AfterCallbackState DEF Inv
<1>0. /\ pc[j] = "running"
      /\ UNCHANGED <<config, main, next, result, cur, waiters, cancelled, goCancelled, egErr, handler, signals>>
  BY DEF CallbackReturns
<1>m. main # "returned" /\ result = Pending
  BY <1>0 DEF LoopInv, NoJobOutlivesResult
<1>1. CASE /\ pc' = [pc EXCEPT ![j] = AfterCallback]
            /\ outcome' = [outcome EXCEPT ![j] = "ok"]
  <2>1. TypeOK'
    BY <1>0, <1>1 DEF TypeOK
  <2>2. LoopInv'
    BY <1>0, <1>1, <1>m DEF TypeOK, LoopInv, NoJobOutlivesResult, JobsInv
  <2>3. JobsInv'
    BY <1>0, <1>1 DEF TypeOK, JobsInv, LoopInv
  <2>4. OutcomeInv'
    BY <1>0, <1>1 DEF TypeOK, OutcomeInv, LoopInv, JobsInv
  <2>5. ErrInv'
    BY <1>0, <1>1 DEF TypeOK, ErrInv, OutcomeInv, LoopInv
  <2>6. CauseInv'
    BY <1>0, <1>1 DEF TypeOK, CauseInv, Cause, OutcomeInv
  <2>7. QueueInv'
    BY <1>0, <1>1, QueueStable DEF TypeOK
  <2>8. NilMeansAllSucceeded'
    BY <1>0, <1>1, <1>m DEF NilMeansAllSucceeded
  <2>9. NoJobOutlivesResult'
    BY <1>0, <1>1 DEF TypeOK, NoJobOutlivesResult, LoopInv, JobsInv
  <2>10. TokensAccounted'
    <3>1. CASE ~(parallel /\ Limited)
      BY <1>0, <3>1 DEF TokensAccounted
    <3>2. CASE parallel /\ Limited
      BY <1>0, <1>1, <3>2, TokensStable DEF TypeOK
    <3> QED
      BY <3>1, <3>2
  <2> QED
    BY <2>1, <2>2, <2>3, <2>4, <2>5, <2>6, <2>7, <2>8, <2>9, <2>10
<1>2. CASE /\ pc' = [pc EXCEPT ![j] = "cancel"]
            /\ outcome' = [outcome EXCEPT ![j] = "failed"]
  <2>1. TypeOK'
    BY <1>0, <1>2 DEF TypeOK
  <2>2. LoopInv'
    BY <1>0, <1>2, <1>m DEF TypeOK, LoopInv, NoJobOutlivesResult, JobsInv
  <2>3. JobsInv'
    BY <1>0, <1>2 DEF TypeOK, JobsInv, LoopInv
  <2>4. OutcomeInv'
    BY <1>0, <1>2 DEF TypeOK, OutcomeInv, LoopInv, JobsInv
  <2>5. ErrInv'
    BY <1>0, <1>2 DEF TypeOK, ErrInv, OutcomeInv, LoopInv
  <2>6. CauseInv'
    BY <1>0, <1>2 DEF TypeOK, CauseInv, Cause, OutcomeInv
  <2>7. QueueInv'
    BY <1>0, <1>2, QueueStable DEF TypeOK
  <2>8. NilMeansAllSucceeded'
    BY <1>0, <1>2, <1>m DEF NilMeansAllSucceeded
  <2>9. NoJobOutlivesResult'
    BY <1>0, <1>2 DEF TypeOK, NoJobOutlivesResult, LoopInv, JobsInv
  <2>10. TokensAccounted'
    BY <1>0, <1>2, TokensStable DEF TypeOK
  <2> QED
    BY <2>1, <2>2, <2>3, <2>4, <2>5, <2>6, <2>7, <2>8, <2>9, <2>10
<1> QED
  BY <1>0, <1>1, <1>2 DEF CallbackReturns

LEMMA SetCancelledInv ==
  ASSUME Inv, NEW j \in Jobs, SetCancelled(j)
  PROVE  Inv'
<1> USE DEF Inv
<1>1. TypeOK'
  BY DEF TypeOK, SetCancelled
<1>2. LoopInv'
  BY DEF TypeOK, LoopInv, NoJobOutlivesResult, SetCancelled
<1>3. JobsInv'
  BY DEF TypeOK, JobsInv, LoopInv, SetCancelled
<1>4. OutcomeInv'
  BY DEF TypeOK, OutcomeInv, LoopInv, JobsInv, SetCancelled
<1>5. ErrInv'
  BY DEF TypeOK, ErrInv, OutcomeInv, LoopInv, SetCancelled
<1>6. CauseInv'
  BY DEF TypeOK, CauseInv, Cause, OutcomeInv, SetCancelled
<1>7. QueueInv'
  BY QueueStable DEF TypeOK, SetCancelled
<1>8. NilMeansAllSucceeded'
  BY DEF TypeOK, LoopInv, NoJobOutlivesResult, NilMeansAllSucceeded, SetCancelled
<1>9. NoJobOutlivesResult'
  BY DEF TypeOK, NoJobOutlivesResult, LoopInv, JobsInv, SetCancelled
<1>10. TokensAccounted'
  BY TokensStable DEF TypeOK, SetCancelled
<1> QED
  BY <1>1, <1>2, <1>3, <1>4, <1>5, <1>6, <1>7, <1>8, <1>9, <1>10

LEMMA CancelGoContextInv ==
  ASSUME Inv, NEW j \in Jobs, CancelGoContext(j)
  PROVE  Inv'
<1> USE AfterCallbackState DEF Inv
<1>0. /\ pc[j] = "cancelGo"
      /\ pc' = [pc EXCEPT ![j] = AfterCallback]
      /\ goCancelled' = TRUE
      /\ UNCHANGED <<config, main, next, result, outcome, cur, waiters, cancelled, egErr, handler, signals>>
  BY DEF CancelGoContext
<1>m. main # "returned" /\ result = Pending
  BY <1>0 DEF LoopInv, NoJobOutlivesResult
<1>1. TypeOK'
  BY <1>0 DEF TypeOK
<1>2. LoopInv'
  BY <1>0, <1>m DEF TypeOK, LoopInv, NoJobOutlivesResult, JobsInv
<1>3. JobsInv'
  BY <1>0 DEF TypeOK, JobsInv, LoopInv
<1>4. OutcomeInv'
  BY <1>0 DEF TypeOK, OutcomeInv, LoopInv, JobsInv
<1>5. ErrInv'
  BY <1>0 DEF TypeOK, ErrInv, OutcomeInv, LoopInv
<1>6. CauseInv'
  BY <1>0 DEF TypeOK, CauseInv, Cause, OutcomeInv
<1>7. QueueInv'
  BY <1>0, QueueStable DEF TypeOK
<1>8. NilMeansAllSucceeded'
  BY <1>0, <1>m DEF NilMeansAllSucceeded
<1>9. NoJobOutlivesResult'
  BY <1>0 DEF TypeOK, NoJobOutlivesResult, LoopInv, JobsInv
<1>10. TokensAccounted'
  <2>1. CASE ~(parallel /\ Limited)
    BY <1>0, <2>1 DEF TokensAccounted
  <2>2. CASE parallel /\ Limited
    BY <1>0, <2>2, TokensStable DEF TypeOK
  <2> QED
    BY <2>1, <2>2
<1> QED
  BY <1>1, <1>2, <1>3, <1>4, <1>5, <1>6, <1>7, <1>8, <1>9, <1>10

LEMMA ReleaseInv ==
  ASSUME Inv, NEW j \in Jobs, Release(j)
  PROVE  Inv'
<1> USE DEF Inv
<1>0. /\ pc[j] = "release"
      /\ UNCHANGED <<config, main, next, result, outcome, cancelled, goCancelled, egErr, handler, signals>>
  BY DEF Release
<1>m. main # "returned" /\ result = Pending
  BY <1>0 DEF LoopInv, NoJobOutlivesResult
<1>a. ASSUME waiters[CtxOf(j)] # <<>>
      PROVE  /\ Head(waiters[CtxOf(j)]) \in Jobs \ {j}
             /\ pc[Head(waiters[CtxOf(j)])] = "queued"
             /\ CtxOf(Head(waiters[CtxOf(j)])) = CtxOf(j)
  <2>1. CtxOf(j) \in Contexts
    OBVIOUS
  <2>2. Head(waiters[CtxOf(j)]) \in QueuedIn(CtxOf(j))
    BY <1>a, <2>1, HeadLeaves DEF QueueInv
  <2> QED
    BY <1>0, <2>2 DEF QueuedIn
<1> DEFINE h == Head(waiters[CtxOf(j)])
<1>b. ASSUME waiters[CtxOf(j)] # <<>>,
             pc' = [pc EXCEPT ![j] = "report", ![h] = "granted"]
      PROVE  /\ pc'[j] = "report"
             /\ pc'[h] = "granted"
             /\ \A k \in Jobs \ {j, h} : pc'[k] = pc[k]
  BY <1>a, <1>b DEF TypeOK
<1>1. CASE /\ waiters[CtxOf(j)] = <<>>
            /\ pc' = [pc EXCEPT ![j] = "report"]
            /\ cur' = [cur EXCEPT ![CtxOf(j)] = @ - 1]
            /\ UNCHANGED waiters
  <2>1. TypeOK'
    <3>1. j \in Holders(CtxOf(j)) /\ CtxOf(j) \in Contexts /\ parallel /\ Limited
      BY <1>0 DEF Holders, JobsInv
    <3>2. Cardinality(Holders(CtxOf(j))) \in Nat /\ Cardinality(Holders(CtxOf(j))) # 0
      BY <3>1, HoldersFinite, FS_CardinalityType, FS_EmptySet
    <3>3. cur[CtxOf(j)] - 1 \in Nat
      BY <3>1, <3>2 DEF TokensAccounted
    <3> QED
      BY <1>0, <1>1, <3>3 DEF TypeOK
  <2>2. LoopInv'
    BY <1>0, <1>1, <1>m DEF TypeOK, LoopInv, NoJobOutlivesResult, JobsInv
  <2>3. JobsInv'
    BY <1>0, <1>1 DEF TypeOK, JobsInv, LoopInv
  <2>4. OutcomeInv'
    BY <1>0, <1>1 DEF TypeOK, OutcomeInv, LoopInv, JobsInv
  <2>5. ErrInv'
    BY <1>0, <1>1 DEF TypeOK, ErrInv, OutcomeInv, LoopInv
  <2>6. CauseInv'
    BY <1>0, <1>1 DEF TypeOK, CauseInv, Cause, OutcomeInv
  <2>7. QueueInv'
    BY <1>0, <1>1, QueueStable DEF TypeOK
  <2>8. NilMeansAllSucceeded'
    BY <1>0, <1>1, <1>m DEF NilMeansAllSucceeded
  <2>9. NoJobOutlivesResult'
    BY <1>0, <1>1 DEF TypeOK, NoJobOutlivesResult, LoopInv, JobsInv
  <2>10. TokensAccounted'
    <3>1. j \in Holders(CtxOf(j)) /\ CtxOf(j) \in Contexts /\ parallel /\ Limited
      BY <1>0 DEF Holders, JobsInv
    <3>2. Holders(CtxOf(j))' = Holders(CtxOf(j)) \ {j}
      BY <1>0, <1>1 DEF TypeOK, Holders
    <3>3. \A d \in Contexts \ {CtxOf(j)} : Holders(d)' = Holders(d)
      BY <1>0, <1>1 DEF TypeOK, Holders
    <3>4. Cardinality(Holders(CtxOf(j))') = Cardinality(Holders(CtxOf(j))) - 1
      BY <3>1, <3>2, HoldersFinite, FS_RemoveElement
    <3>5. cur[CtxOf(j)] = Cardinality(Holders(CtxOf(j))) /\ cur[CtxOf(j)] <= ParallelCount
      BY <3>1 DEF TokensAccounted
    <3>7. ASSUME NEW d \in Contexts
          PROVE  cur'[d] = Cardinality(Holders(d)') /\ cur'[d] <= ParallelCount
      <4>1. CASE d = CtxOf(j)
        BY <1>0, <1>1, <3>1, <3>4, <3>5, <4>1 DEF TypeOK, TokensAccounted
      <4>2. CASE d # CtxOf(j)
        BY <1>0, <1>1, <3>1, <3>3, <4>2 DEF TypeOK, TokensAccounted
      <4> QED
        BY <4>1, <4>2
    <3> QED
      BY <3>7 DEF TokensAccounted
  <2> QED
    BY <2>1, <2>2, <2>3, <2>4, <2>5, <2>6, <2>7, <2>8, <2>9, <2>10
<1>2. CASE /\ waiters[CtxOf(j)] # <<>>
            /\ pc' = [pc EXCEPT ![j] = "report", ![h] = "granted"]
            /\ waiters' = [waiters EXCEPT ![CtxOf(j)] = Tail(@)]
            /\ UNCHANGED cur
  <2>1. TypeOK'
    <3>1. pc' \in [Jobs -> Holding \cup Over \cup {"spawned", "queued", "report"}]
      BY <1>0, <1>2, <1>a DEF TypeOK
    <3>2. CtxOf(j) \in Contexts /\ waiters[CtxOf(j)] \in Seq(Jobs)
      BY DEF TypeOK
    <3>3. Tail(waiters[CtxOf(j)]) \in Seq(Jobs)
      BY <1>2, <3>2, HeadTailProperties
    <3>4. waiters' \in [Contexts -> Seq(Jobs)]
      BY <1>2, <3>2, <3>3 DEF TypeOK
    <3> QED
      BY <1>0, <1>2, <3>1, <3>4 DEF TypeOK
  <2>2. LoopInv'
    BY <1>0, <1>2, <1>a, <1>b, <1>m DEF TypeOK, LoopInv, JobsInv
  <2>3. JobsInv'
    BY <1>0, <1>2, <1>a, <1>b DEF TypeOK, JobsInv, LoopInv
  <2>4. OutcomeInv'
    BY <1>0, <1>2, <1>a, <1>b DEF TypeOK, OutcomeInv, LoopInv, JobsInv
  <2>5. ErrInv'
    BY <1>0, <1>2, <1>a, <1>b DEF TypeOK, ErrInv, OutcomeInv, LoopInv
  <2>6. CauseInv'
    BY <1>0, <1>2 DEF TypeOK, CauseInv, Cause, OutcomeInv
  <2>7. QueueInv'
    <3>a. /\ pc'[j] = "report" /\ pc'[h] = "granted" /\ pc[j] = "release"
          /\ \A k \in Jobs \ {j, h} : pc'[k] = pc[k]
          /\ UNCHANGED ownContext
      BY <1>0, <1>2, <1>a, <1>b
    <3>1. QueuedIn(CtxOf(j))' = QueuedIn(CtxOf(j)) \ {h} /\ CtxOf(j) \in Contexts
      BY <3>a DEF QueuedIn
    <3>2. waiters'[CtxOf(j)] \in Seq(QueuedIn(CtxOf(j))') /\ Distinct(waiters'[CtxOf(j)])
      BY <1>0, <1>2, <3>1, HeadLeaves DEF TypeOK, QueueInv
    <3>3. \A d \in Contexts \ {CtxOf(j)} : QueuedIn(d)' = QueuedIn(d) /\ waiters'[d] = waiters[d]
      BY <1>0, <1>2, <1>a, <1>b DEF TypeOK, QueuedIn
    <3>5. ASSUME NEW d \in Contexts
          PROVE  waiters'[d] \in Seq(QueuedIn(d)') /\ Distinct(waiters'[d])
      <4>1. CASE d = CtxOf(j)
        BY <1>0, <3>2, <4>1 DEF QueuedIn
      <4>2. CASE d # CtxOf(j)
        BY <3>3, <4>2 DEF QueueInv
      <4> QED
        BY <4>1, <4>2
    <3> QED
      BY <3>5 DEF QueueInv
  <2>8. NilMeansAllSucceeded'
    BY <1>0, <1>2, <1>m DEF NilMeansAllSucceeded
  <2>9. NoJobOutlivesResult'
    BY <1>0, <1>2, <1>a, <1>b DEF TypeOK, NoJobOutlivesResult, LoopInv, JobsInv
  <2>10. TokensAccounted'
    <3>1. j \in Holders(CtxOf(j)) /\ h \notin Holders(CtxOf(j)) /\ parallel /\ Limited
      BY <1>0, <1>2, <1>a DEF Holders, JobsInv
    <3>2. Holders(CtxOf(j))' = (Holders(CtxOf(j)) \ {j}) \cup {h}
      BY <1>0, <1>2, <1>a DEF TypeOK, Holders
    <3>3. \A d \in Contexts \ {CtxOf(j)} : Holders(d)' = Holders(d)
      BY <1>0, <1>2, <1>a DEF TypeOK, Holders
    <3>4. /\ IsFiniteSet(Holders(CtxOf(j)) \ {j})
          /\ Cardinality(Holders(CtxOf(j)) \ {j}) = Cardinality(Holders(CtxOf(j))) - 1
      BY <3>1, HoldersFinite, FS_RemoveElement
    <3>5. Cardinality(Holders(CtxOf(j))') = Cardinality(Holders(CtxOf(j)) \ {j}) + 1
      BY <3>1, <3>2, <3>4, FS_AddElement
    <3>6. Cardinality(Holders(CtxOf(j))) \in Nat
      BY HoldersFinite, FS_CardinalityType
    <3>7. ASSUME NEW d \in Contexts
          PROVE  cur'[d] = Cardinality(Holders(d)') /\ cur'[d] <= ParallelCount
      <4>1. CASE d = CtxOf(j)
        BY <1>0, <1>2, <3>1, <3>4, <3>5, <3>6, <4>1 DEF TypeOK, TokensAccounted
      <4>2. CASE d # CtxOf(j)
        BY <1>0, <1>2, <3>1, <3>3, <4>2 DEF TypeOK, TokensAccounted
      <4> QED
        BY <4>1, <4>2
    <3> QED
      BY <3>7 DEF TokensAccounted
  <2> QED
    BY <2>1, <2>2, <2>3, <2>4, <2>5, <2>6, <2>7, <2>8, <2>9, <2>10
<1> QED
  BY <1>0, <1>1, <1>2 DEF Release

LEMMA ReportInv ==
  ASSUME Inv, NEW j \in Jobs, Report(j)
  PROVE  Inv'
<1> USE DEF Inv
<1>0. /\ parallel
      /\ pc[j] = "report"
      /\ pc' = [pc EXCEPT ![j] = "done"]
      /\ UNCHANGED <<config, main, next, result, outcome, cur, waiters, cancelled, handler, signals>>
  BY DEF Report
<1>m. main # "returned" /\ result = Pending
  BY <1>0 DEF LoopInv, NoJobOutlivesResult
<1>1. CASE /\ outcome[j] # "ok"
            /\ egErr = Nil
            /\ egErr' = j
            /\ goCancelled' = TRUE
  <2>1. TypeOK'
    BY <1>0, <1>1 DEF TypeOK
  <2>2. LoopInv'
    BY <1>0, <1>1, <1>m DEF TypeOK, LoopInv, NoJobOutlivesResult, JobsInv
  <2>3. JobsInv'
    BY <1>0, <1>1 DEF TypeOK, JobsInv, LoopInv
  <2>4. OutcomeInv'
    BY <1>0, <1>1 DEF TypeOK, OutcomeInv, LoopInv, JobsInv
  <2>5. ErrInv'
    BY <1>0, <1>1 DEF TypeOK, ErrInv, OutcomeInv, LoopInv
  <2>6. CauseInv'
    BY <1>0, <1>1 DEF TypeOK, CauseInv, Cause, OutcomeInv
  <2>7. QueueInv'
    BY <1>0, <1>1, QueueStable DEF TypeOK
  <2>8. NilMeansAllSucceeded'
    BY <1>0, <1>1, <1>m DEF NilMeansAllSucceeded
  <2>9. NoJobOutlivesResult'
    BY <1>0, <1>1 DEF TypeOK, NoJobOutlivesResult, LoopInv, JobsInv
  <2>10. TokensAccounted'
    BY <1>0, <1>1, TokensStable DEF TypeOK
  <2> QED
    BY <2>1, <2>2, <2>3, <2>4, <2>5, <2>6, <2>7, <2>8, <2>9, <2>10
<1>2. CASE /\ outcome[j] = "ok" \/ egErr # Nil
           /\ egErr' = egErr
           /\ goCancelled' = goCancelled
  <2>1. TypeOK'
    BY <1>0, <1>2 DEF TypeOK
  <2>2. LoopInv'
    BY <1>0, <1>2, <1>m DEF TypeOK, LoopInv, NoJobOutlivesResult, JobsInv
  <2>3. JobsInv'
    BY <1>0, <1>2 DEF TypeOK, JobsInv, LoopInv
  <2>4. OutcomeInv'
    BY <1>0, <1>2 DEF TypeOK, OutcomeInv, LoopInv, JobsInv
  <2>5. ErrInv'
    BY <1>0, <1>2 DEF TypeOK, ErrInv, OutcomeInv, LoopInv
  <2>6. CauseInv'
    BY <1>0, <1>2 DEF TypeOK, CauseInv, Cause, OutcomeInv
  <2>7. QueueInv'
    BY <1>0, <1>2, QueueStable DEF TypeOK
  <2>8. NilMeansAllSucceeded'
    BY <1>0, <1>2, <1>m DEF NilMeansAllSucceeded
  <2>9. NoJobOutlivesResult'
    BY <1>0, <1>2 DEF TypeOK, NoJobOutlivesResult, LoopInv, JobsInv
  <2>10. TokensAccounted'
    BY <1>0, <1>2, TokensStable DEF TypeOK
  <2> QED
    BY <2>1, <2>2, <2>3, <2>4, <2>5, <2>6, <2>7, <2>8, <2>9, <2>10
<1> QED
  BY <1>0, <1>1, <1>2 DEF Report

LEMMA SignalInv ==
  ASSUME Inv, Signal
  PROVE  Inv'
<1> USE DEF Inv
<1>1. TypeOK'
  <2>1. handler' \in [Contexts -> {"none", "armed", "caught", "cancelGo", "gone"}]
    BY DEF TypeOK, Signal
  <2>2. signals' \in 0..MaxSignals
    BY DEF TypeOK, Signal
  <2> QED
    BY <2>1, <2>2 DEF TypeOK, Signal
<1>2. LoopInv'
  BY DEF TypeOK, LoopInv, NoJobOutlivesResult, Signal
<1>3. JobsInv'
  BY DEF TypeOK, JobsInv, LoopInv, Signal
<1>4. OutcomeInv'
  BY DEF TypeOK, OutcomeInv, LoopInv, JobsInv, Signal
<1>5. ErrInv'
  BY DEF TypeOK, ErrInv, OutcomeInv, LoopInv, Signal
<1>6. CauseInv'
  BY DEF TypeOK, CauseInv, Cause, OutcomeInv, Signal
<1>7. QueueInv'
  BY QueueStable DEF TypeOK, Signal
<1>8. NilMeansAllSucceeded'
  BY DEF TypeOK, LoopInv, NoJobOutlivesResult, NilMeansAllSucceeded, Signal
<1>9. NoJobOutlivesResult'
  BY DEF TypeOK, NoJobOutlivesResult, LoopInv, JobsInv, Signal
<1>10. TokensAccounted'
  BY TokensStable DEF TypeOK, Signal
<1> QED
  BY <1>1, <1>2, <1>3, <1>4, <1>5, <1>6, <1>7, <1>8, <1>9, <1>10

LEMMA HandlerSetsCancelledInv ==
  ASSUME Inv, NEW c \in Contexts, HandlerSetsCancelled(c)
  PROVE  Inv'
<1> USE DEF Inv
<1>1. TypeOK'
  BY DEF TypeOK, HandlerSetsCancelled
<1>2. LoopInv'
  BY DEF TypeOK, LoopInv, NoJobOutlivesResult, HandlerSetsCancelled
<1>3. JobsInv'
  BY DEF TypeOK, JobsInv, LoopInv, HandlerSetsCancelled
<1>4. OutcomeInv'
  BY DEF TypeOK, OutcomeInv, LoopInv, JobsInv, HandlerSetsCancelled
<1>5. ErrInv'
  BY DEF TypeOK, ErrInv, OutcomeInv, LoopInv, HandlerSetsCancelled
<1>6. CauseInv'
  BY DEF TypeOK, CauseInv, Cause, OutcomeInv, HandlerSetsCancelled
<1>7. QueueInv'
  BY QueueStable DEF TypeOK, HandlerSetsCancelled
<1>8. NilMeansAllSucceeded'
  BY DEF TypeOK, LoopInv, NoJobOutlivesResult, NilMeansAllSucceeded, HandlerSetsCancelled
<1>9. NoJobOutlivesResult'
  BY DEF TypeOK, NoJobOutlivesResult, LoopInv, JobsInv, HandlerSetsCancelled
<1>10. TokensAccounted'
  BY TokensStable DEF TypeOK, HandlerSetsCancelled
<1> QED
  BY <1>1, <1>2, <1>3, <1>4, <1>5, <1>6, <1>7, <1>8, <1>9, <1>10

LEMMA HandlerCancelsGoContextInv ==
  ASSUME Inv, NEW c \in Contexts, HandlerCancelsGoContext(c)
  PROVE  Inv'
<1> USE DEF Inv
<1>1. TypeOK'
  BY DEF TypeOK, HandlerCancelsGoContext
<1>2. LoopInv'
  BY DEF TypeOK, LoopInv, NoJobOutlivesResult, HandlerCancelsGoContext
<1>3. JobsInv'
  BY DEF TypeOK, JobsInv, LoopInv, HandlerCancelsGoContext
<1>4. OutcomeInv'
  BY DEF TypeOK, OutcomeInv, LoopInv, JobsInv, HandlerCancelsGoContext
<1>5. ErrInv'
  BY DEF TypeOK, ErrInv, OutcomeInv, LoopInv, HandlerCancelsGoContext
<1>6. CauseInv'
  BY DEF TypeOK, CauseInv, Cause, OutcomeInv, HandlerCancelsGoContext
<1>7. QueueInv'
  BY QueueStable DEF TypeOK, HandlerCancelsGoContext
<1>8. NilMeansAllSucceeded'
  BY DEF TypeOK, LoopInv, NoJobOutlivesResult, NilMeansAllSucceeded, HandlerCancelsGoContext
<1>9. NoJobOutlivesResult'
  BY DEF TypeOK, NoJobOutlivesResult, LoopInv, JobsInv, HandlerCancelsGoContext
<1>10. TokensAccounted'
  BY TokensStable DEF TypeOK, HandlerCancelsGoContext
<1> QED
  BY <1>1, <1>2, <1>3, <1>4, <1>5, <1>6, <1>7, <1>8, <1>9, <1>10

LEMMA StutterInv ==
  ASSUME Inv, UNCHANGED vars
  PROVE  Inv'
<1> USE DEF Inv
<1>1. TypeOK'
  BY DEF TypeOK, vars
<1>2. LoopInv'
  BY DEF TypeOK, LoopInv, NoJobOutlivesResult, vars
<1>3. JobsInv'
  BY DEF TypeOK, JobsInv, LoopInv, vars
<1>4. OutcomeInv'
  BY DEF TypeOK, OutcomeInv, LoopInv, JobsInv, vars
<1>5. ErrInv'
  BY DEF TypeOK, ErrInv, OutcomeInv, LoopInv, vars
<1>6. CauseInv'
  BY DEF TypeOK, CauseInv, Cause, OutcomeInv, vars
<1>7. QueueInv'
  BY QueueStable DEF TypeOK, vars
<1>8. NilMeansAllSucceeded'
  BY DEF TypeOK, LoopInv, NoJobOutlivesResult, NilMeansAllSucceeded, vars
<1>9. NoJobOutlivesResult'
  BY DEF TypeOK, NoJobOutlivesResult, LoopInv, JobsInv, vars
<1>10. TokensAccounted'
  BY TokensStable DEF TypeOK, vars
<1> QED
  BY <1>1, <1>2, <1>3, <1>4, <1>5, <1>6, <1>7, <1>8, <1>9, <1>10
-----------------------------------------------------------------------------

LEMMA InvNext == Inv /\ [Next]_vars => Inv'
<1> SUFFICES ASSUME Inv, [Next]_vars PROVE Inv'
  OBVIOUS
<1>1. CASE Caller
  BY <1>1, DeriveContextInv, StartParallelInv, CallReturnedInv, LoopEndsInv, WaitParallelInv
     DEF Caller
<1>2. ASSUME NEW j \in Jobs, Job(j) PROVE Inv'
  BY <1>2, AcquireInv, AcquireFailsInv, AcquireReturnsInv, CheckCancelledInv,
     CallbackReturnsInv, SetCancelledInv, CancelGoContextInv, ReleaseInv, ReportInv
     DEF Job
<1>3. CASE Signal
  BY <1>3, SignalInv
<1>4. ASSUME NEW c \in Contexts, Handler(c) PROVE Inv'
  BY <1>4, HandlerSetsCancelledInv, HandlerCancelsGoContextInv DEF Handler
<1>5. CASE UNCHANGED vars
  BY <1>5, StutterInv
<1> QED
  BY <1>1, <1>2, <1>3, <1>4, <1>5 DEF Next, Finished

\* Inv is an invariant of the specification.
THEOREM InvInvariant == Spec => []Inv
<1>1. Init => Inv
  BY InvInit
<1>2. Inv /\ [Next]_vars => Inv'
  BY InvNext
<1> QED
  BY <1>1, <1>2, PTL DEF Spec

\* Every reachable state is well typed; in particular no semaphore counts below zero.
THEOREM TypeCorrect == Spec => []TypeOK
<1>1. Inv => TypeOK
  BY DEF Inv
<1> QED
  BY <1>1, InvInvariant, PTL

\* forEachModule and SyncVolumes return nil only when every job succeeded,
\* whatever the number of jobs, the flags and the signals.
THEOREM NilMeansSuccess == Spec => []NilMeansAllSucceeded
<1>1. Inv => NilMeansAllSucceeded
  BY DEF Inv
<1> QED
  BY <1>1, InvInvariant, PTL

\* An error that is returned comes from a failed job or from a signal.
THEOREM ErrorsHaveCauses == Spec => []ErrorHasCause
<1>1. Inv => ErrorHasCause
  <2> SUFFICES ASSUME Inv, result \in Jobs
               PROVE  /\ outcome[result] \notin {"none", "ok"}
                      /\ Cause
    BY DEF ErrorHasCause, Cause
  <2>1. outcome[result] \notin {"none", "ok"}
    BY DEF Inv, TypeOK, LoopInv, ErrInv
  <2> QED
    BY <2>1 DEF Inv, TypeOK, CauseInv, Cause
<1> QED
  BY <1>1, InvInvariant, PTL

\* No job is under way when the caller has its result.
THEOREM JobsEndFirst == Spec => []NoJobOutlivesResult
<1>1. Inv => NoJobOutlivesResult
  BY DEF Inv
<1> QED
  BY <1>1, InvInvariant, PTL

\* Without --parallel, one job at a time, in order, and none after a failure.
THEOREM SequentialOrder == Spec => []SequentialStopsAtError
<1>1. Inv => SequentialStopsAtError
  BY DEF Inv, TypeOK, JobsInv, SequentialStopsAtError
<1> QED
  BY <1>1, InvInvariant, PTL

\* The semaphores' counts are the numbers of jobs that will release them.
THEOREM TokensAreAccounted == Spec => []TokensAccounted
<1>1. Inv => TokensAccounted
  BY DEF Inv
<1> QED
  BY <1>1, InvInvariant, PTL
-----------------------------------------------------------------------------
(* ParallelJobs implements JobGroup.                                       *)

\* What became of the jobs, and the verdict: the mapping of Group.
Status == [j \in Jobs |-> StatusOf(j)]
Verdict == IF result = Pending THEN "open" ELSE IF result = Nil THEN "ok" ELSE "error"
InCallback == {j \in Jobs : pc[j] = "running"}

\* Both modules count with the same operator.
LEMMA SameCardinality == \A S : Group!Cardinality(S) = Cardinality(S)
BY DEF Group!Cardinality, Cardinality

LEMMA GroupInit == Init => Group!Init
<1> SUFFICES ASSUME Init PROVE Group!Init
  OBVIOUS
<1>1. EffectiveLimit \in Nat /\ 1..active \subseteq Jobs
  BY DEF Init, EffectiveLimit
<1>2. [j \in Jobs |-> StatusOf(j)] = [j \in Jobs |-> "pending"]
  BY DEF Init, StatusOf
<1>3. (signals > 0) = FALSE
  BY DEF Init
<1> QED BY <1>1, <1>2, <1>3 DEF Init, Group!Init

\* The jobs that run are those whose callback is being executed.
LEMMA RunningJobs == ASSUME Inv PROVE Group!Running = InCallback
<1>1. ASSUME NEW j \in Jobs PROVE StatusOf(j) = "running" <=> pc[j] = "running"
  BY DEF Inv, TypeOK, OutcomeInv, StatusOf
<1> QED BY <1>1 DEF Group!Running, InCallback

\* Whatever leaves outcomes and callbacks alone is a stutter.
LEMMA GroupStutters ==
  ASSUME Status' = Status, Verdict' = Verdict, UNCHANGED <<config, signals>>
  PROVE  UNCHANGED Group!vars
BY DEF Group!vars, Status, Verdict, EffectiveLimit

LEMMA StatusKept ==
  ASSUME outcome' = outcome, \A j \in Jobs : pc'[j] = "running" <=> pc[j] = "running"
  PROVE  Status' = Status
BY DEF Status, StatusOf

LEMMA StatusChanges ==
  ASSUME NEW j \in Jobs, NEW s, StatusOf(j)' = s,
         \A k \in Jobs \ {j} : outcome'[k] = outcome[k] /\ pc'[k] = pc[k]
  PROVE  Status' = [Status EXCEPT ![j] = s]
<1>1. \A k \in Jobs \ {j} : StatusOf(k)' = StatusOf(k)
  BY DEF StatusOf
<1> QED BY <1>1 DEF Status

LEMMA GroupStarts ==
  ASSUME Inv, NEW j \in Jobs, j <= active, result = Pending, StatusOf(j) = "pending",
         Cardinality(InCallback) < EffectiveLimit,
         Status' = [Status EXCEPT ![j] = "running"], UNCHANGED <<config, signals, result>>
  PROVE  Group!Next
<1>1. j \in 1..active
  BY DEF Inv, TypeOK
<1>2. Group!Cardinality(Group!Running) < EffectiveLimit
  BY RunningJobs, SameCardinality
<1>3. Group!Start(j)
  BY <1>1, <1>2 DEF Group!Start, Status, EffectiveLimit
<1> QED BY <1>3 DEF Group!Next

LEMMA GroupSkips ==
  ASSUME Inv, NEW j \in Jobs, j <= active, result = Pending, StatusOf(j) = "pending", Cause,
         Status' = [Status EXCEPT ![j] = "skipped"], UNCHANGED <<config, signals, result>>
  PROVE  Group!Next
<1>1. j \in 1..active
  BY DEF Inv, TypeOK
<1>2. signals > 0 \/ Group!Failed # {}
  <2>1. ASSUME NEW k \in Jobs, outcome[k] = "failed" PROVE Group!Failed # {}
    <3>1. StatusOf(k) = "failed"
      BY <2>1 DEF StatusOf
    <3> QED BY <3>1 DEF Group!Failed
  <2> QED BY <2>1 DEF Cause
<1>3. Group!Skip(j)
  BY <1>1, <1>2 DEF Group!Skip, Status, EffectiveLimit
<1> QED BY <1>3 DEF Group!Next

LEMMA GroupCloses ==
  ASSUME Inv, result = Pending, InCallback = {}, Status' = Status, UNCHANGED <<config, signals>>,
         \/ result' = Nil /\ \A j \in 1..active : outcome[j] = "ok"
         \/ result' \in Jobs /\ outcome[result'] \notin {"none", "ok"}
  PROVE  Group!Next
<1>1. Group!Running = {}
  BY RunningJobs
<1>2. CASE result' = Nil /\ \A j \in 1..active : outcome[j] = "ok"
  <2>1. \A j \in 1..active : j \in Jobs /\ StatusOf(j) = "succeeded"
    BY <1>2 DEF StatusOf, Inv, TypeOK
  <2>2. Group!Close
    BY <1>1, <1>2, <2>1 DEF Group!Close, Status, EffectiveLimit
  <2> QED BY <2>2 DEF Group!Next
<1>3. CASE result' \in Jobs /\ outcome[result'] \notin {"none", "ok"}
  <2>1. StatusOf(result') \in {"failed", "skipped"}
    BY <1>3 DEF StatusOf, Inv, TypeOK
  <2>2. Group!Failed # {}
    BY <1>3, <2>1 DEF Group!Failed
  <2>3. Group!Close
    BY <1>1, <1>3, <2>2 DEF Group!Close, Status, EffectiveLimit
  <2> QED BY <2>3 DEF Group!Next
<1> QED BY <1>2, <1>3

\* Jobs that are under way are of the active ones, and the call has not returned.
LEMMA UnderWay ==
  ASSUME Inv, NEW j \in Jobs, pc[j] \notin Over
  PROVE  j <= active /\ result = Pending
<1>1. main # "returned" /\ result = Pending
  BY DEF Inv, NoJobOutlivesResult, LoopInv, TypeOK
<1>2. j <= next /\ (j = next => main \in {"call"})
  BY <1>1 DEF Inv, JobsInv, TypeOK
<1>3. next <= active + 1 /\ (main = "call" => next <= active)
  BY DEF Inv, LoopInv
<1> QED BY <1>1, <1>2, <1>3 DEF Inv, TypeOK

LEMMA StartParallelGroup == ASSUME Inv, StartParallel PROVE Group!Next \/ UNCHANGED Group!vars
<1>1. PICK j \in Jobs : j = next
  BY DEF Inv, TypeOK, StartParallel, LoopInv
<1>2. j <= active /\ pc[j] = "idle" /\ result = Pending /\ TypeOK
  BY <1>1 DEF Inv, TypeOK, StartParallel, LoopInv, JobsInv
<1>3. CASE parallel
  <2>1. \A k \in Jobs : pc'[k] = "running" <=> pc[k] = "running"
    BY <1>1, <1>2, <1>3 DEF StartParallel, TypeOK
  <2>2. Status' = Status
    BY <2>1, StatusKept DEF StartParallel
  <2> QED BY <2>2, GroupStutters DEF StartParallel, Verdict
<1>4. CASE ~parallel
  <2>1. pc' = [pc EXCEPT ![j] = "running"] /\ UNCHANGED <<config, result, outcome, signals>>
    BY <1>1, <1>4 DEF StartParallel
  <2>2. InCallback = {}
    <3>1. ASSUME NEW k \in Jobs PROVE pc[k] # "running"
      <4>1. k < next \/ k > next \/ k = j
        BY <1>1
      <4> QED BY <1>2, <1>4, <4>1 DEF Inv, JobsInv
    <3> QED BY <3>1 DEF InCallback
  <2>3. Cardinality(InCallback) < EffectiveLimit
    BY <1>4, <2>2, FS_EmptySet DEF EffectiveLimit
  <2>4. outcome[j] = "none"
    BY <1>2 DEF Inv, OutcomeInv
  <2>5. StatusOf(j) = "pending"
    BY <1>2, <2>4 DEF StatusOf
  <2>6. StatusOf(j)' = "running" /\ \A k \in Jobs \ {j} : outcome'[k] = outcome[k] /\ pc'[k] = pc[k]
    BY <1>2, <2>1, <2>4 DEF StatusOf, TypeOK
  <2>7. Status' = [Status EXCEPT ![j] = "running"]
    BY <2>6, StatusChanges
  <2> QED BY <1>2, <2>1, <2>3, <2>5, <2>7, GroupStarts
<1> QED BY <1>3, <1>4

LEMMA CallReturnedGroup == ASSUME Inv, CallReturned PROVE Group!Next \/ UNCHANGED Group!vars
<1>1. next \in Jobs /\ pc[next] = "report" /\ result = Pending /\ TypeOK /\ ~parallel
  BY DEF Inv, TypeOK, CallReturned, LoopInv
<1>2. \A j \in Jobs : pc'[j] = "running" <=> pc[j] = "running"
  BY <1>1 DEF CallReturned, TypeOK
<1>3. Status' = Status
  BY <1>2, StatusKept DEF CallReturned
<1>4. CASE outcome[next] = "ok"
  BY <1>3, <1>4, GroupStutters DEF CallReturned, Verdict
<1>5. CASE outcome[next] # "ok"
  <2>1. outcome[next] # "none"
    BY <1>1 DEF Inv, OutcomeInv
  <2>2. InCallback = {}
    <3>1. ASSUME NEW j \in Jobs PROVE pc[j] # "running"
      <4>1. j < next \/ j > next \/ j = next
        BY <1>1
      <4> QED BY <1>1, <4>1 DEF Inv, JobsInv
    <3> QED BY <3>1 DEF InCallback
  <2>3. result' = next /\ UNCHANGED <<config, signals>>
    BY <1>5 DEF CallReturned
  <2> QED BY <1>1, <1>3, <1>5, <2>1, <2>2, <2>3, GroupCloses
<1> QED BY <1>4, <1>5

LEMMA WaitParallelGroup == ASSUME Inv, WaitParallel PROVE Group!Next
<1>1. result = Pending /\ next = active + 1 /\ TypeOK /\ UNCHANGED <<config, signals, pc, outcome>>
  BY DEF Inv, TypeOK, WaitParallel, LoopInv
<1>2. InCallback = {}
  BY DEF WaitParallel, InCallback
<1>3. Status' = Status
  BY <1>1, StatusKept
<1>4. CASE egErr = Nil
  <2>1. ASSUME NEW j \in 1..active PROVE outcome[j] = "ok"
    <3>1. j \in Jobs /\ j < next
      BY <1>1 DEF TypeOK
    <3>2. pc[j] = "done"
      BY <3>1 DEF Inv, JobsInv, WaitParallel
    <3> QED BY <1>1, <1>4, <3>1, <3>2 DEF Inv, JobsInv, ErrInv, TypeOK
  <2> QED BY <1>1, <1>2, <1>3, <1>4, <2>1, GroupCloses DEF WaitParallel
<1>5. CASE egErr # Nil
  <2>1. egErr \in Jobs /\ outcome[egErr] \notin {"none", "ok"}
    BY <1>1, <1>5 DEF Inv, ErrInv, TypeOK
  <2> QED BY <1>1, <1>2, <1>3, <2>1, GroupCloses DEF WaitParallel
<1> QED BY <1>4, <1>5

\* A job that gives up before its callback is left out, for a reason.
LEMMA LeavesOut ==
  ASSUME Inv, NEW j \in Jobs, pc[j] \notin Over, outcome[j] = "none", pc[j] # "running", Cause,
         NEW s \in {"cancelled", "notAcquired"}, outcome' = [outcome EXCEPT ![j] = s],
         NEW p, pc' = [pc EXCEPT ![j] = p], UNCHANGED <<config, signals, result>>
  PROVE  Group!Next
<1>1. TypeOK /\ j <= active /\ result = Pending
  BY UnderWay DEF Inv
<1>2. StatusOf(j) = "pending"
  BY DEF StatusOf
<1>3. StatusOf(j)' = "skipped" /\ \A k \in Jobs \ {j} : outcome'[k] = outcome[k] /\ pc'[k] = pc[k]
  BY <1>1 DEF StatusOf, TypeOK
<1>4. Status' = [Status EXCEPT ![j] = "skipped"]
  BY <1>3, StatusChanges
<1> QED BY <1>1, <1>2, <1>4, GroupSkips

LEMMA AcquireFailsGroup == ASSUME Inv, NEW j \in Jobs, AcquireFails(j) PROVE Group!Next
<1>1. pc[j] \in {"spawned", "queued"} /\ goCancelled /\ pc' = [pc EXCEPT ![j] = "report"]
      /\ outcome' = [outcome EXCEPT ![j] = "notAcquired"] /\ UNCHANGED <<config, signals, result>>
  BY DEF AcquireFails
<1>2. outcome[j] = "none" /\ result = Pending
  BY <1>1, UnderWay DEF Inv, OutcomeInv
<1>3. Cause
  BY <1>1, <1>2 DEF Inv, CauseInv, LoopInv
<1> QED BY <1>1, <1>2, <1>3, LeavesOut

LEMMA AcquireReturnsGroup ==
  ASSUME Inv, NEW j \in Jobs, AcquireReturns(j) PROVE Group!Next \/ UNCHANGED Group!vars
<1>1. pc[j] = "granted" /\ UNCHANGED <<config, signals, result>> /\ TypeOK
  BY DEF AcquireReturns, Inv
<1>2. CASE pc' = [pc EXCEPT ![j] = "check"] /\ UNCHANGED outcome
  <2>1. \A k \in Jobs : pc'[k] = "running" <=> pc[k] = "running"
    BY <1>1, <1>2 DEF TypeOK
  <2> QED BY <1>1, <1>2, <2>1, StatusKept, GroupStutters DEF Verdict
<1>3. CASE goCancelled /\ pc' = [pc EXCEPT ![j] = "release"]
           /\ outcome' = [outcome EXCEPT ![j] = "notAcquired"]
  <2>1. outcome[j] = "none" /\ result = Pending
    BY <1>1, UnderWay DEF Inv, OutcomeInv
  <2>2. Cause
    BY <1>3, <2>1 DEF Inv, CauseInv, LoopInv
  <2> QED BY <1>1, <1>3, <2>1, <2>2, LeavesOut
<1> QED BY <1>2, <1>3 DEF AcquireReturns

\* A job that has what it needs to run leaves room for its callback.
LEMMA RoomToRun ==
  ASSUME Inv, NEW j \in Jobs, pc[j] = "check"
  PROVE  Cardinality(InCallback) < EffectiveLimit
<1>1. TypeOK /\ parallel /\ j <= active /\ j \notin InCallback
  BY UnderWay DEF Inv, JobsInv, InCallback
<1>2. CASE Limited /\ ~ownContext
  <2>1. InCallback \in SUBSET (Holders(Root) \ {j})
    BY <1>1, <1>2 DEF InCallback, Holders
  <2>2. j \in Holders(Root)
    BY <1>2 DEF Holders
  <2>3. IsFiniteSet(Holders(Root)) /\ Cardinality(Holders(Root)) <= ParallelCount
    BY <1>1, <1>2, HoldersFinite DEF Inv, TokensAccounted
  <2>4. IsFiniteSet(Holders(Root) \ {j})
        /\ Cardinality(Holders(Root) \ {j}) = Cardinality(Holders(Root)) - 1
    BY <2>2, <2>3, FS_RemoveElement
  <2>5. Cardinality(InCallback) <= Cardinality(Holders(Root) \ {j})
        /\ IsFiniteSet(InCallback)
    BY <2>1, <2>4, FS_Subset
  <2>6. Cardinality(InCallback) \in Nat /\ Cardinality(Holders(Root)) \in Nat
    BY <2>3, <2>5, FS_CardinalityType
  <2>7. EffectiveLimit = ParallelCount
    BY <1>1, <1>2 DEF EffectiveLimit
  <2> QED BY <2>3, <2>4, <2>5, <2>6, <2>7
<1>3. CASE ~(Limited /\ ~ownContext)
  <2>1. ASSUME NEW k \in InCallback PROVE k \in (1..active) \ {j}
    <3>1. k \in Jobs /\ pc[k] \notin Over
      BY DEF InCallback
    <3>2. k <= active
      BY <3>1, UnderWay
    <3> QED BY <1>1, <3>1, <3>2 DEF TypeOK
  <2>2. IsFiniteSet(1..active) /\ Cardinality(1..active) = active /\ j \in 1..active
    <3>1. active \in Nat /\ j \in 1..active /\ 1 \in Int /\ active \in Int /\ ~(1 > active)
      BY <1>1 DEF TypeOK
    <3>2. IsFiniteSet(1..active)
          /\ Cardinality(1..active) = IF 1 > active THEN 0 ELSE active - 1 + 1
      BY <3>1, FS_Interval
    <3> QED BY <3>1, <3>2
  <2>3. IsFiniteSet((1..active) \ {j}) /\ Cardinality((1..active) \ {j}) = active - 1
    BY <2>2, FS_RemoveElement
  <2>4. IsFiniteSet(InCallback) /\ Cardinality(InCallback) <= active - 1
    BY <2>1, <2>3, FS_Subset
  <2>5. Cardinality(InCallback) \in Nat /\ active \in Nat
    BY <1>1, <2>4, FS_CardinalityType DEF TypeOK
  <2>6. EffectiveLimit = active
    BY <1>1, <1>3 DEF EffectiveLimit
  <2> QED BY <2>4, <2>5, <2>6
<1> QED BY <1>2, <1>3

LEMMA CheckCancelledGroup ==
  ASSUME Inv, NEW j \in Jobs, CheckCancelled(j) PROVE Group!Next
<1>1. pc[j] = "check" /\ UNCHANGED <<config, signals, result>> /\ TypeOK /\ outcome[j] = "none"
      /\ j <= active /\ result = Pending
  BY UnderWay DEF CheckCancelled, Inv, OutcomeInv
<1>2. CASE cancelled[CtxOf(j)]
  <2>1. Cause
    BY <1>1, <1>2 DEF Inv, CauseInv, TypeOK
  <2>2. outcome' = [outcome EXCEPT ![j] = "cancelled"] /\ pc' = [pc EXCEPT ![j] = AfterCallback]
    BY <1>2 DEF CheckCancelled
  <2> QED BY <1>1, <2>1, <2>2, LeavesOut
<1>3. CASE ~cancelled[CtxOf(j)]
  <2>1. pc' = [pc EXCEPT ![j] = "running"] /\ UNCHANGED outcome
    BY <1>3 DEF CheckCancelled
  <2>2. StatusOf(j) = "pending"
    BY <1>1 DEF StatusOf
  <2>3. StatusOf(j)' = "running" /\ \A k \in Jobs \ {j} : outcome'[k] = outcome[k] /\ pc'[k] = pc[k]
    BY <1>1, <2>1 DEF StatusOf, TypeOK
  <2>4. Status' = [Status EXCEPT ![j] = "running"]
    BY <2>3, StatusChanges
  <2> QED BY <1>1, <2>2, <2>4, RoomToRun, GroupStarts
<1> QED BY <1>2, <1>3

LEMMA CallbackReturnsGroup ==
  ASSUME Inv, NEW j \in Jobs, CallbackReturns(j) PROVE Group!Next
<1>1. pc[j] = "running" /\ UNCHANGED <<config, signals, result>> /\ TypeOK
  BY DEF CallbackReturns, Inv
<1>2. PICK s \in {"ok", "failed"} : \E p : outcome' = [outcome EXCEPT ![j] = s]
                                          /\ pc' = [pc EXCEPT ![j] = p]
  BY DEF CallbackReturns
<1>3. PICK v \in {"succeeded", "failed"} : StatusOf(j)' = v
  BY <1>1, <1>2 DEF StatusOf, TypeOK
<1>4. \A k \in Jobs \ {j} : outcome'[k] = outcome[k] /\ pc'[k] = pc[k]
  BY <1>1, <1>2 DEF TypeOK
<1>5. Status' = [Status EXCEPT ![j] = v]
  BY <1>3, <1>4, StatusChanges
<1>6. Status[j] = "running"
  BY <1>1 DEF Status, StatusOf, Inv, OutcomeInv
<1>7. Group!Finish(j)
  BY <1>1, <1>5, <1>6 DEF Group!Finish, Status, EffectiveLimit
<1> QED BY <1>7 DEF Group!Next

\* The steps of a job that decide nothing.
LEMMA OtherGroup ==
  ASSUME Inv, NEW j \in Jobs,
         Acquire(j) \/ SetCancelled(j) \/ CancelGoContext(j) \/ Release(j) \/ Report(j)
  PROVE  UNCHANGED Group!vars
<1>1. UNCHANGED <<config, signals, result, outcome>> /\ TypeOK
  BY DEF Acquire, SetCancelled, CancelGoContext, Release, Report, Inv
<1>2. ASSUME NEW k \in Jobs PROVE pc'[k] = "running" <=> pc[k] = "running"
  <2>1. CASE Release(j)
    <3>1. waiters[CtxOf(j)] # <<>> => Head(waiters[CtxOf(j)]) \in Jobs
                                      /\ pc[Head(waiters[CtxOf(j)])] = "queued"
      <4>1. waiters[CtxOf(j)] \in Seq(QueuedIn(CtxOf(j)))
        BY DEF Inv, QueueInv, TypeOK
      <4> QED BY <4>1 DEF QueuedIn
    <3> QED BY <1>1, <2>1, <3>1 DEF Release, TypeOK
  <2>2. CASE Acquire(j) \/ SetCancelled(j) \/ CancelGoContext(j) \/ Report(j)
    BY <1>1, <2>2 DEF Acquire, SetCancelled, CancelGoContext, Report, TypeOK, AfterCallback
  <2> QED BY <2>1, <2>2
<1> QED BY <1>1, <1>2, StatusKept, GroupStutters DEF Verdict

LEMMA SignalGroup == ASSUME Inv, Signal PROVE Group!Next \/ UNCHANGED Group!vars
<1>1. UNCHANGED <<config, result, outcome, pc>> /\ signals \in Nat /\ signals' = signals + 1
  BY DEF Signal, Inv, TypeOK
<1>2. Status' = Status /\ Verdict' = Verdict
  BY <1>1, StatusKept DEF Verdict
<1>3. CASE signals = 0
  <2>1. Group!Interrupt
    BY <1>1, <1>2, <1>3 DEF Group!Interrupt, Status, Verdict, EffectiveLimit
  <2> QED BY <2>1 DEF Group!Next
<1>4. CASE signals # 0
  <2>1. (signals > 0) = TRUE /\ (signals' > 0) = TRUE
    BY <1>1, <1>4
  <2> QED BY <1>1, <1>2, <2>1 DEF Group!vars, Status, Verdict, EffectiveLimit
<1> QED BY <1>3, <1>4

LEMMA GroupNext == Inv /\ [Next]_vars => [Group!Next]_Group!vars
<1> SUFFICES ASSUME Inv, [Next]_vars PROVE Group!Next \/ UNCHANGED Group!vars
  OBVIOUS
<1>1. CASE DeriveContext \/ LoopEnds \/ UNCHANGED vars \/ \E c \in Contexts : Handler(c)
  <2>1. UNCHANGED <<config, signals, result, outcome, pc>>
    BY <1>1 DEF DeriveContext, LoopEnds, vars, Handler, HandlerSetsCancelled,
                HandlerCancelsGoContext
  <2> QED BY <2>1, StatusKept, GroupStutters DEF Verdict
<1>2. CASE StartParallel \/ CallReturned \/ WaitParallel
  BY <1>2, StartParallelGroup, CallReturnedGroup, WaitParallelGroup
<1>3. ASSUME NEW j \in Jobs, Job(j) PROVE Group!Next \/ UNCHANGED Group!vars
  BY <1>3, AcquireFailsGroup, AcquireReturnsGroup, CheckCancelledGroup, CallbackReturnsGroup,
     OtherGroup DEF Job
<1>4. CASE Signal
  BY <1>4, SignalGroup
<1> QED BY <1>1, <1>2, <1>3, <1>4 DEF Next, Caller, Finished

\* The loops of forEachModule and SyncVolumes implement what a caller may rely on, for every
\* number of jobs: at most EffectiveLimit callbacks at once, a job left out only after a failure
\* or a signal, and a verdict that tells whether every job succeeded, when none is running.
THEOREM ImplementsJobGroup == Spec => GroupSpec
<1>1. Init => Group!Init
  BY GroupInit
<1>2. Inv /\ [Next]_vars => [Group!Next]_Group!vars
  BY GroupNext
<1> QED BY <1>1, <1>2, InvInvariant, PTL DEF Spec, GroupSpec, Group!Spec
=============================================================================
