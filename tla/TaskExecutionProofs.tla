------------------------- MODULE TaskExecutionProofs -------------------------
(***************************************************************************)
(* Proofs about TaskExecution for any project and any number of modules:   *)
(* no mark outlives the calls that answer for it, and where one module     *)
(* runs at a time no task is executed inside itself.                       *)
(***************************************************************************)
EXTENDS TaskExecution, TLAPS

ModulePlaces == {"idle", "build", "next", "define", "run", "unwind", "done", "failed"}
CallPlaces == {"start", "module", "own", "check", "mark", "defined", "clear", "cond"}
Ops == {"define", "placeholder", "run"}
Calls == {c \in [op : Ops, task : Tasks \cup {Build}, at : CallPlaces, todo : Seq(Tasks)] :
            c.op # "define" => c.task \in Tasks}

Typed ==
  /\ project \in Projects /\ parallel \in BOOLEAN /\ deferred \in BOOLEAN
  /\ marks \in [Tasks -> BOOLEAN]
  /\ at \in [Modules -> ModulePlaces] /\ step \in [Modules -> Nat \ {0}]
  /\ held \in [Modules -> Seq(Tasks)]
  /\ stack \in [Modules -> Seq(Calls)]

\* A module calls only while it calculates or runs something; the step that it is at is one
\* of its steps, and RunSteps has deferred the clearing of its mark.
AtStep(m) ==
  /\ at[m] \notin {"build", "define", "run"} => stack[m] = <<>>
  /\ at[m] \in {"define", "run"} => step[m] \in DOMAIN Steps(m)
  /\ at[m] = "run" /\ deferred => Current(m) \in ToSet(held[m])

\* A placeholder that has not marked its task calls nobody.
Waiting(c) == c.op = "placeholder" /\ c.at \in {"check", "mark"}
Executing(c) == c.op = "placeholder" /\ c.at \in {"defined", "clear"}
OnTop(m) == \A i \in DOMAIN stack[m] : Waiting(stack[m][i]) => i = Len(stack[m])

\* Without --parallel a module is started when those before it have succeeded.
InTurn == ~parallel => \A j, k \in Modules : j < k /\ at[k] # "idle" => at[j] = "done"

Once(m) ==
  /\ \A i, k \in Active(m) : i # k => stack[m][i].task # stack[m][k].task
  /\ at[m] = "run" => \A i \in Active(m) : stack[m][i].task # Current(m)

\* What is about to be marked is not marked, and so it is not in the chain.
AboutToMark(m) ==
  \A i \in DOMAIN stack[m] :
    stack[m][i].op = "placeholder" /\ stack[m][i].at = "mark" => ~marks[stack[m][i].task]
ChainMarked(m) == \A t \in Chain(m) : marks[t]

Sequential(m) == ~parallel => AboutToMark(m) /\ ChainMarked(m) /\ Once(m)

ModuleInv(m) == AtStep(m) /\ OnTop(m) /\ Sequential(m)

Inv == Typed /\ (\A m \in Modules : ModuleInv(m)) /\ InTurn /\ MarksHaveOwners
-----------------------------------------------------------------------------
USE ConstantsAssumption

LEMMA ActiveIs ==
  ASSUME NEW m
  PROVE  /\ Active(m) = {i \in DOMAIN stack[m] : Executing(stack[m][i])}
         /\ Active(m)' = {i \in DOMAIN stack'[m] : Executing(stack'[m][i])}
BY DEF Active, Executing

\* What is known of a project.
LEMMA OfProject ==
  ASSUME Typed
  PROVE  /\ \A o \in Tasks \cup {Build} : project.refs[o] \in Seq(Tasks)
         /\ \A t \in Tasks : project.conds[t] \in Seq(Tasks)
         /\ \A m \in Modules : Steps(m) \in Seq(Tasks)
<1>1. project \in ProjectType
  BY DEF Typed
<1> QED BY <1>1 DEF ProjectType, Steps

LEMMA CurrentIsTask ==
  ASSUME Inv, NEW m \in Modules, at[m] \in {"define", "run"} PROVE Current(m) \in Tasks
<1>1. Steps(m) \in Seq(Tasks) /\ step[m] \in DOMAIN Steps(m)
  BY OfProject DEF Inv, ModuleInv, AtStep
<1> QED BY <1>1 DEF Current

\* The calls that are made.
LEMMA CallsAreCalls ==
  ASSUME Typed
  PROVE  /\ \A o \in Tasks \cup {Build} : DefineCall(o) \in Calls
         /\ \A t \in Tasks : PlaceholderCall(t) \in Calls /\ RunCall(t) \in Calls
<1>1. ASSUME NEW o \in Tasks \cup {Build} PROVE DefineCall(o) \in Calls
  BY OfProject DEF DefineCall, Call, Calls, Ops, CallPlaces
<1>2. ASSUME NEW t \in Tasks PROVE PlaceholderCall(t) \in Calls /\ RunCall(t) \in Calls
  BY OfProject DEF PlaceholderCall, RunCall, Call, Calls, Ops, CallPlaces
<1> QED BY <1>1, <1>2

LEMMA MovedCall ==
  ASSUME NEW c \in Calls, NEW w \in CallPlaces
  PROVE  /\ [c EXCEPT !.at = w] \in Calls /\ [c EXCEPT !.at = w].at = w
         /\ [c EXCEPT !.at = w].op = c.op /\ [c EXCEPT !.at = w].task = c.task
BY DEF Calls

LEMMA FewerTodo ==
  ASSUME NEW c \in Calls, c.todo # <<>>
  PROVE  /\ [c EXCEPT !.todo = Tail(@)] \in Calls /\ Head(c.todo) \in Tasks
         /\ [c EXCEPT !.todo = Tail(@)].op = c.op /\ [c EXCEPT !.todo = Tail(@)].at = c.at
         /\ [c EXCEPT !.todo = Tail(@)].task = c.task
<1>1. c.todo \in Seq(Tasks)
  BY DEF Calls
<1>2. Tail(c.todo) \in Seq(Tasks) /\ Head(c.todo) \in Tasks
  BY <1>1
<1> QED BY <1>1, <1>2 DEF Calls

\* The last call, replaced by the calls of s.
LEMMA InsteadIs ==
  ASSUME Typed, NEW m \in Modules, stack[m] # <<>>, NEW s \in Seq(Calls), stack' = Instead(m, s)
  PROVE  /\ Len(stack[m]) \in Nat \ {0} /\ Last(stack[m]) \in Calls
         /\ Last(stack[m]) = stack[m][Len(stack[m])] /\ DOMAIN stack[m] = 1..Len(stack[m])
         /\ stack' \in [Modules -> Seq(Calls)]
         /\ \A k \in Modules \ {m} : stack'[k] = stack[k]
         /\ Len(stack'[m]) = Len(stack[m]) - 1 + Len(s)
         /\ DOMAIN stack'[m] = 1..(Len(stack[m]) - 1 + Len(s))
         /\ \A i \in 1..(Len(stack[m]) - 1) : stack'[m][i] = stack[m][i]
         /\ \A i \in DOMAIN s : stack'[m][Len(stack[m]) - 1 + i] = s[i]
<1> DEFINE q == stack[m]
<1>1. q \in Seq(Calls) /\ q # <<>> /\ Last(q) = q[Len(q)]
  BY DEF Typed, Last
<1>2. Len(q) \in Nat \ {0} /\ q[Len(q)] \in Calls /\ DOMAIN q = 1..Len(q)
  BY <1>1
<1>3. /\ Front(q) \in Seq(Calls) /\ Len(Front(q)) = Len(q) - 1
      /\ \A i \in 1..(Len(q) - 1) : Front(q)[i] = q[i]
  BY <1>1, <1>2 DEF Front
<1>4. stack'[m] = Front(q) \o s /\ \A k \in Modules \ {m} : stack'[k] = stack[k]
  BY DEF Instead, Typed
<1> HIDE DEF q
<1>5. /\ Front(q) \o s \in Seq(Calls) /\ Len(Front(q) \o s) = Len(q) - 1 + Len(s)
      /\ DOMAIN (Front(q) \o s) = 1..(Len(q) - 1 + Len(s))
      /\ \A i \in 1..(Len(q) - 1) : (Front(q) \o s)[i] = q[i]
      /\ \A i \in DOMAIN s : (Front(q) \o s)[Len(q) - 1 + i] = s[i]
  <2> DEFINE f == Front(q)
  <2>1. f \in Seq(Calls) /\ Len(f) = Len(q) - 1 /\ Len(s) \in Nat /\ DOMAIN s = 1..Len(s)
    BY <1>3
  <2> HIDE DEF f
  <2>2. f \o s \in Seq(Calls) /\ Len(f \o s) = Len(f) + Len(s)
    BY <2>1
  <2>3. DOMAIN (f \o s) = 1..(Len(q) - 1 + Len(s))
    BY <1>2, <2>1, <2>2
  <2>4. \A i \in 1..(Len(q) - 1) : (f \o s)[i] = f[i]
    BY <1>2, <2>1
  <2>5. \A i \in DOMAIN s : (f \o s)[Len(q) - 1 + i] = s[i]
    <3> SUFFICES ASSUME NEW i \in DOMAIN s PROVE (f \o s)[Len(f) + i] = s[i]
      BY <2>1
    <3>1. Len(f) + i \in 1..(Len(f) + Len(s)) /\ Len(f) + i > Len(f) /\ Len(f) + i - Len(f) = i
      BY <2>1
    <3> QED BY <2>1, <2>2, <3>1
  <2> QED BY <1>3, <2>1, <2>2, <2>3, <2>4, <2>5 DEF f
<1>6. stack' \in [Modules -> Seq(Calls)]
  BY <1>4, <1>5 DEF Instead, Typed, q
<1> QED BY <1>1, <1>2, <1>4, <1>5, <1>6 DEF q
-----------------------------------------------------------------------------
(* The call chain. *)

LEMMA ChainIs ==
  ASSUME NEW m, NEW t
  PROVE  /\ t \in Chain(m) <=>
              \/ \E i \in Active(m) : stack[m][i].task = t
              \/ at[m] = "run" /\ t = Current(m)
         /\ t \in Chain(m)' <=>
              \/ \E i \in Active(m)' : stack'[m][i].task = t
              \/ at'[m] = "run" /\ t = Current(m)'
<1>1. t \in Chain(m) <=>
        (\E i \in Active(m) : stack[m][i].task = t) \/ (at[m] = "run" /\ t = Current(m))
  BY DEF Chain
<1>2. t \in Chain(m)' <=>
        (\E i \in Active(m)' : stack'[m][i].task = t) \/ (at'[m] = "run" /\ t = Current(m)')
  BY DEF Chain
<1> QED BY <1>1, <1>2

\* A module that makes no step of its own.
LEMMA OtherModule ==
  ASSUME NEW k, UNCHANGED project, stack'[k] = stack[k], at'[k] = at[k], step'[k] = step[k],
         held'[k] = held[k], UNCHANGED deferred, AtStep(k), OnTop(k)
  PROVE  /\ AtStep(k)' /\ OnTop(k)' /\ Chain(k)' = Chain(k) /\ Current(k)' = Current(k)
         /\ Once(k) => Once(k)'
<1>1. Current(k)' = Current(k) /\ Steps(k)' = Steps(k)
  BY DEF Current, Steps
<1>2. Active(k)' = Active(k)
  BY DEF Active
<1> QED BY <1>1, <1>2 DEF AtStep, OnTop, Chain, Once

\* Without --parallel the other modules call nobody while one is at work.
LEMMA OneAtATime ==
  ASSUME Inv, ~parallel, NEW m \in Modules, at[m] \notin {"idle", "done"}, NEW k \in Modules \ {m}
  PROVE  at[k] \in {"idle", "done"} /\ stack[k] = <<>> /\ Chain(k) = {}
<1>1. at[k] \in {"idle", "done"}
  <2>1. m \in Int /\ k \in Int
    BY DEF Modules
  <2>2. CASE k < m
    BY <2>2 DEF Inv, InTurn
  <2>3. CASE m < k
    BY <2>3 DEF Inv, InTurn
  <2> QED BY <2>1, <2>2, <2>3
<1>2. stack[k] = <<>>
  BY <1>1 DEF Inv, ModuleInv, AtStep
<1> QED BY <1>1, <1>2 DEF Chain, Active

LEMMA BusyWithCalls ==
  ASSUME Inv, NEW m \in Modules, stack[m] # <<>>
  PROVE  at[m] \in {"build", "define", "run"}
BY DEF Inv, ModuleInv, AtStep

\* Calls that return, go on or call others, and neither mark nor clear.
LEMMA QuietCalls ==
  ASSUME Inv, NEW m \in Modules, stack[m] # <<>>, NEW s \in Seq(Calls), Len(s) \in 0..2,
         UNCHANGED <<project, parallel, deferred, marks, at, step, held>>, stack' = Instead(m, s),
         Len(s) = 0 => ~Executing(Last(stack[m])),
         Len(s) \in 1..2 => /\ Executing(s[1]) <=> Executing(Last(stack[m]))
                            /\ s[1].task = Last(stack[m]).task,
         Len(s) = 2 => ~Waiting(s[1]) /\ ~Executing(s[2]),
         \A i \in DOMAIN s : s[i].op = "placeholder" /\ s[i].at = "mark" => ~marks[s[i].task]
  PROVE  Inv'
<1> DEFINE n == Len(stack[m])
<1>1. /\ n \in Nat \ {0} /\ Last(stack[m]) = stack[m][n] /\ DOMAIN stack[m] = 1..n
      /\ stack' \in [Modules -> Seq(Calls)]
      /\ \A k \in Modules \ {m} : stack'[k] = stack[k]
      /\ Len(stack'[m]) = n - 1 + Len(s)
      /\ DOMAIN stack'[m] = 1..(n - 1 + Len(s))
      /\ \A i \in 1..(n - 1) : stack'[m][i] = stack[m][i]
      /\ \A i \in DOMAIN s : stack'[m][n - 1 + i] = s[i]
  BY InsteadIs DEF Inv
<1>2. DOMAIN s = 1..Len(s)
  OBVIOUS
<1>3. /\ Len(s) \in 1..2 => stack'[m][n] = s[1]
      /\ Len(s) = 2 => stack'[m][n + 1] = s[2]
  <2>1. Len(s) \in 1..2 => stack'[m][n - 1 + 1] = s[1]
    BY <1>1, <1>2
  <2>2. Len(s) = 2 => stack'[m][n - 1 + 2] = s[2]
    BY <1>1, <1>2
  <2>3. n - 1 + 1 = n /\ n - 1 + 2 = n + 1
    BY <1>1
  <2> QED BY <2>1, <2>2, <2>3
<1>4. \A i \in DOMAIN stack'[m] :
        \/ i \in 1..(n - 1) /\ stack'[m][i] = stack[m][i]
        \/ i = n /\ Len(s) \in 1..2 /\ stack'[m][i] = s[1]
        \/ i = n + 1 /\ Len(s) = 2 /\ stack'[m][i] = s[2]
  <2> SUFFICES ASSUME NEW i \in DOMAIN stack'[m]
               PROVE  \/ i \in 1..(n - 1)
                      \/ i = n /\ Len(s) \in 1..2
                      \/ i = n + 1 /\ Len(s) = 2
    BY <1>1, <1>3
  <2>1. n \in Nat \ {0} /\ i \in 1..(n - 1 + Len(s))
    BY <1>1
  <2> HIDE DEF n
  <2>2. CASE Len(s) = 0
    BY <2>1, <2>2
  <2>3. CASE Len(s) = 1
    BY <2>1, <2>3
  <2>4. CASE Len(s) = 2
    BY <2>1, <2>4
  <2> QED BY <2>2, <2>3, <2>4
<1> HIDE DEF n
<1>5. Typed'
  BY <1>1 DEF Inv, Typed
<1>6. AtStep(m) /\ OnTop(m) /\ Sequential(m)
  BY DEF Inv, ModuleInv
<1>7. AtStep(m)'
  <2>1. at[m] \in {"build", "define", "run"}
    BY BusyWithCalls
  <2>2. Current(m)' = Current(m) /\ Steps(m)' = Steps(m)
    BY DEF Current, Steps
  <2> QED BY <1>6, <2>1, <2>2 DEF AtStep
<1>8. OnTop(m)'
  <2> SUFFICES ASSUME NEW i \in DOMAIN stack'[m], Waiting(stack'[m][i])
               PROVE  i = n - 1 + Len(s)
    BY <1>1 DEF OnTop, Waiting
  <2>1. CASE i \in 1..(n - 1) /\ stack'[m][i] = stack[m][i]
    BY <1>1, <1>6, <2>1 DEF OnTop, n
  <2>2. CASE i = n /\ Len(s) \in 1..2 /\ stack'[m][i] = s[1]
    BY <1>1, <2>2
  <2>3. CASE i = n + 1 /\ Len(s) = 2
    BY <1>1, <2>3
  <2> QED BY <1>4, <2>1, <2>2, <2>3
<1>9. /\ Active(m)' = Active(m)
      /\ \A i \in Active(m) : stack'[m][i].task = stack[m][i].task
  <2>1. ASSUME NEW i \in Active(m)
        PROVE  i \in Active(m)' /\ stack'[m][i].task = stack[m][i].task
    <3>1. i \in 1..n /\ Executing(stack[m][i])
      BY <1>1, ActiveIs
    <3>2. CASE i \in 1..(n - 1)
      <4>1. i \in DOMAIN stack'[m] /\ stack'[m][i] = stack[m][i]
        BY <1>1, <3>2
      <4> QED BY <3>1, <4>1, ActiveIs
    <3>3. CASE i = n
      <4>1. Executing(Last(stack[m])) /\ Len(s) \in 1..2
        BY <1>1, <3>1, <3>3
      <4>2. i \in DOMAIN stack'[m] /\ stack'[m][i] = s[1]
        BY <1>1, <1>3, <3>3, <4>1
      <4> QED BY <1>1, <3>3, <4>1, <4>2, ActiveIs
    <3> QED BY <1>1, <3>1, <3>2, <3>3
  <2>2. ASSUME NEW i \in Active(m)' PROVE i \in Active(m)
    <3>1. i \in DOMAIN stack'[m] /\ Executing(stack'[m][i])
      BY ActiveIs
    <3>2. CASE i \in 1..(n - 1) /\ stack'[m][i] = stack[m][i]
      <4>1. i \in DOMAIN stack[m]
        BY <1>1, <3>2
      <4> QED BY <3>1, <3>2, <4>1, ActiveIs
    <3>3. CASE i = n /\ Len(s) \in 1..2 /\ stack'[m][i] = s[1]
      <4>1. i \in DOMAIN stack[m]
        BY <1>1, <3>3
      <4> QED BY <1>1, <3>1, <3>3, <4>1, ActiveIs
    <3>4. CASE i = n + 1 /\ Len(s) = 2 /\ stack'[m][i] = s[2]
      BY <3>1, <3>4
    <3> QED BY <1>4, <3>1, <3>2, <3>3, <3>4
  <2> QED BY <2>1, <2>2
<1>10. Chain(m)' = Chain(m)
  <2>1. Current(m)' = Current(m)
    BY DEF Current, Steps
  <2> QED BY <1>9, <2>1 DEF Chain
<1>11. Sequential(m)'
  <2> SUFFICES ASSUME ~parallel PROVE AboutToMark(m)' /\ ChainMarked(m)' /\ Once(m)'
    BY DEF Sequential
  <2>1. AboutToMark(m)'
    <3> SUFFICES ASSUME NEW i \in DOMAIN stack'[m],
                        stack'[m][i].op = "placeholder", stack'[m][i].at = "mark"
                 PROVE  ~marks[stack'[m][i].task]
      BY DEF AboutToMark
    <3>1. CASE i \in 1..(n - 1) /\ stack'[m][i] = stack[m][i]
      <4>1. i \in DOMAIN stack[m]
        BY <1>1, <3>1
      <4> QED BY <1>6, <3>1, <4>1 DEF Sequential, AboutToMark
    <3>2. CASE i = n /\ Len(s) \in 1..2 /\ stack'[m][i] = s[1]
      BY <1>2, <3>2
    <3>3. CASE i = n + 1 /\ Len(s) = 2 /\ stack'[m][i] = s[2]
      BY <1>2, <3>3
    <3> QED BY <1>4, <3>1, <3>2, <3>3
  <2>2. ChainMarked(m)'
    BY <1>6, <1>10 DEF Sequential, ChainMarked
  <2>3. Once(m)'
    <3>1. Current(m)' = Current(m)
      BY DEF Current, Steps
    <3> QED BY <1>6, <1>9, <3>1 DEF Sequential, Once
  <2> QED BY <2>1, <2>2, <2>3
<1>12. ASSUME NEW k \in Modules \ {m} PROVE ModuleInv(k)' /\ Chain(k)' = Chain(k)
  <2>1. AtStep(k) /\ OnTop(k) /\ Sequential(k)
    BY DEF Inv, ModuleInv
  <2>2. AtStep(k)' /\ OnTop(k)' /\ Chain(k)' = Chain(k) /\ (Once(k) => Once(k)')
    BY <1>1, <2>1, OtherModule
  <2>3. AboutToMark(k) => AboutToMark(k)'
    BY <1>1 DEF AboutToMark
  <2> QED BY <2>1, <2>2, <2>3 DEF ModuleInv, Sequential, ChainMarked
<1>13. MarksHaveOwners'
  <2>1. \A k \in Modules : Chain(k)' = Chain(k)
    BY <1>10, <1>12
  <2>2. MarksHaveOwners
    BY DEF Inv
  <2> SUFFICES ASSUME NEW t \in Tasks, marks[t]
               PROVE  \E k \in Modules : t \in Chain(k)' \cup ToSet(held[k])
    BY DEF MarksHaveOwners
  <2>3. PICK k \in Modules : t \in Chain(k) \cup ToSet(held[k])
    BY <2>2 DEF MarksHaveOwners
  <2> QED BY <2>1, <2>3
<1>14. InTurn'
  BY DEF Inv, InTurn
<1> QED BY <1>5, <1>7, <1>8, <1>11, <1>12, <1>13, <1>14 DEF Inv, ModuleInv
-----------------------------------------------------------------------------
(* The steps of a definition and of a placeholder. *)

LEMMA LastIs ==
  ASSUME Inv, NEW m \in Modules, stack[m] # <<>>
  PROVE  /\ Last(stack[m]) \in Calls /\ Last(stack[m]) = stack[m][Len(stack[m])]
         /\ Len(stack[m]) \in DOMAIN stack[m]
<1>1. stack[m] \in Seq(Calls)
  BY DEF Inv, Typed
<1> QED BY <1>1 DEF Last

\* A call that returns.
LEMMA Returns ==
  ASSUME Inv, NEW m \in Modules, stack[m] # <<>>, stack' = Instead(m, <<>>),
         UNCHANGED <<project, parallel, deferred, marks, at, step, held>>,
         ~Executing(Last(stack[m]))
  PROVE  Inv'
<1> DEFINE s == <<>>
<1>1. s \in Seq(Calls) /\ Len(s) = 0 /\ DOMAIN s = {} /\ stack' = Instead(m, s)
  OBVIOUS
<1> HIDE DEF s
<1>2. Len(s) \in 0..2 /\ Len(s) \notin 1..2 /\ Len(s) # 2
  BY <1>1
<1> QED BY <1>1, <1>2, QuietCalls

\* A call that goes on.
LEMMA GoesOn ==
  ASSUME Inv, NEW m \in Modules, stack[m] # <<>>, NEW c \in Calls, stack' = Instead(m, <<c>>),
         UNCHANGED <<project, parallel, deferred, marks, at, step, held>>,
         Executing(c) <=> Executing(Last(stack[m])), c.task = Last(stack[m]).task,
         c.op = "placeholder" /\ c.at = "mark" => ~marks[c.task]
  PROVE  Inv'
<1> DEFINE s == <<c>>
<1>1. s \in Seq(Calls) /\ Len(s) = 1 /\ DOMAIN s = {1} /\ s[1] = c /\ stack' = Instead(m, s)
  OBVIOUS
<1> HIDE DEF s
<1>2. Len(s) \in 0..2 /\ Len(s) # 0 /\ Len(s) # 2
  BY <1>1
<1>3. \A i \in DOMAIN s : s[i].op = "placeholder" /\ s[i].at = "mark" => ~marks[s[i].task]
  BY <1>1
<1> QED BY <1>1, <1>2, <1>3, QuietCalls

\* A call that makes another one.
LEMMA GoesOnWith ==
  ASSUME Inv, NEW m \in Modules, stack[m] # <<>>, NEW c \in Calls, NEW d \in Calls,
         stack' = Instead(m, <<c, d>>),
         UNCHANGED <<project, parallel, deferred, marks, at, step, held>>,
         Executing(c) <=> Executing(Last(stack[m])), c.task = Last(stack[m]).task,
         ~Waiting(c), ~Executing(d), d.at # "mark"
  PROVE  Inv'
<1> DEFINE s == <<c, d>>
<1>1. /\ s \in Seq(Calls) /\ Len(s) = 2 /\ DOMAIN s = 1..2 /\ s[1] = c /\ s[2] = d
      /\ stack' = Instead(m, s)
  OBVIOUS
<1> HIDE DEF s
<1>2. Len(s) \in 0..2 /\ Len(s) # 0
  BY <1>1
<1>3. \A i \in DOMAIN s : s[i].op = "placeholder" /\ s[i].at = "mark" => ~marks[s[i].task]
  <2>1. ~(c.op = "placeholder" /\ c.at = "mark")
    BY DEF Waiting
  <2> QED BY <1>1, <2>1
<1> QED BY <1>1, <1>2, <1>3, QuietCalls

LEMMA DefineKeeps ==
  ASSUME Inv, NEW m \in Modules,
         \/ UseCached(m) \/ DefineFails(m) \/ Define(m) \/ ModuleDefined(m) \/ Evaluate(m)
         \/ Defined(m)
  PROVE  Inv'
<1> DEFINE c == Last(stack[m])
<1>1. stack[m] # <<>> /\ UNCHANGED <<project, parallel, deferred, marks, at, step, held>>
  BY DEF UseCached, DefineFails, Define, ModuleDefined, Evaluate, Defined, Doing, frozen
<1>2. c \in Calls
  BY <1>1, LastIs
<1>3. ~Executing(c)
  BY DEF UseCached, DefineFails, Define, ModuleDefined, Evaluate, Defined, Doing, Executing
<1>4. CASE UseCached(m) \/ DefineFails(m) \/ Defined(m)
  BY <1>1, <1>3, <1>4, Returns DEF UseCached, DefineFails, Defined
<1>5. CASE Define(m)
  <2>1. c.op = "define"
    BY <1>5 DEF Define, Doing
  <2>2. CASE c.task = Build
    <3>1. stack' = Instead(m, <<[c EXCEPT !.at = "own"]>>)
      BY <1>5, <2>2 DEF Define
    <3>2. "own" \in CallPlaces
      BY DEF CallPlaces
    <3> HIDE DEF c
    <3> DEFINE d == [c EXCEPT !.at = "own"]
    <3>3. d \in Calls /\ d.op = "define" /\ d.task = c.task
      BY <1>2, <2>1, <3>2, MovedCall
    <3> HIDE DEF d
    <3>4. stack' = Instead(m, <<d>>)
      BY <3>1 DEF d
    <3> QED BY <1>1, <1>3, <3>3, <3>4, GoesOn DEF Executing, c
  <2>3. CASE c.task # Build
    <3>1. stack' = Instead(m, <<[c EXCEPT !.at = "module"], DefineCall(Build)>>)
      BY <1>5, <2>3 DEF Define
    <3>2. "module" \in CallPlaces
      BY DEF CallPlaces
    <3>3. /\ DefineCall(Build) \in Calls /\ DefineCall(Build).op = "define"
          /\ DefineCall(Build).at = "start"
      BY CallsAreCalls DEF Inv, DefineCall, Call
    <3> HIDE DEF c
    <3> DEFINE d == [c EXCEPT !.at = "module"]
    <3>4. d \in Calls /\ d.op = "define" /\ d.task = c.task
      BY <1>2, <2>1, <3>2, MovedCall
    <3> HIDE DEF d
    <3>5. stack' = Instead(m, <<d, DefineCall(Build)>>)
      BY <3>1 DEF d
    <3> QED BY <1>1, <1>3, <3>3, <3>4, <3>5, GoesOnWith DEF Executing, Waiting, c
  <2> QED BY <2>2, <2>3
<1>6. CASE ModuleDefined(m)
  <2>1. c.op = "define"
    BY <1>6 DEF ModuleDefined, Doing
  <2>2. CASE ret[m] # "ok"
    BY <1>1, <1>3, <1>6, <2>2, Returns DEF ModuleDefined
  <2>3. CASE ret[m] = "ok"
    <3>1. stack' = Instead(m, <<[c EXCEPT !.at = "own"]>>)
      BY <1>6, <2>3 DEF ModuleDefined
    <3>2. "own" \in CallPlaces
      BY DEF CallPlaces
    <3> HIDE DEF c
    <3> DEFINE d == [c EXCEPT !.at = "own"]
    <3>3. d \in Calls /\ d.op = "define" /\ d.task = c.task
      BY <1>2, <2>1, <3>2, MovedCall
    <3> HIDE DEF d
    <3>4. stack' = Instead(m, <<d>>)
      BY <3>1 DEF d
    <3> QED BY <1>1, <1>3, <3>3, <3>4, GoesOn DEF Executing, c
  <2> QED BY <2>2, <2>3
<1>7. CASE Evaluate(m)
  <2>1. /\ c.op # "placeholder" /\ c.todo # <<>>
        /\ stack' = Instead(m, <<[c EXCEPT !.todo = Tail(@)], PlaceholderCall(Head(c.todo))>>)
    BY <1>7 DEF Evaluate, Doing
  <2> HIDE DEF c
  <2> DEFINE d == [c EXCEPT !.todo = Tail(@)]
             e == PlaceholderCall(Head(c.todo))
  <2>2. d \in Calls /\ d.op = c.op /\ d.task = c.task /\ Head(c.todo) \in Tasks
    BY <1>2, <2>1, FewerTodo
  <2>3. e \in Calls /\ e.at = "check"
    BY <2>2, CallsAreCalls DEF Inv, PlaceholderCall, Call
  <2> HIDE DEF d, e
  <2>4. stack' = Instead(m, <<d, e>>)
    BY <2>1 DEF d, e
  <2>5. ~Executing(d) /\ ~Waiting(d) /\ ~Executing(e)
    BY <2>1, <2>2, <2>3 DEF Executing, Waiting
  <2> QED BY <1>1, <1>3, <2>2, <2>3, <2>4, <2>5, GoesOnWith DEF c
<1> QED BY <1>4, <1>5, <1>6, <1>7

LEMMA RunReturnsKeeps ==
  ASSUME Inv, NEW m \in Modules, RunReturns(m) PROVE Inv'
BY Returns DEF RunReturns, Doing, Executing, frozen

LEMMA CheckKeeps ==
  ASSUME Inv, NEW m \in Modules, Check(m) PROVE Inv'
<1> DEFINE c == Last(stack[m])
<1>1. /\ stack[m] # <<>> /\ UNCHANGED <<project, parallel, deferred, marks, at, step, held>>
      /\ c.op = "placeholder" /\ c.at = "check" /\ ~Executing(c)
  BY DEF Check, Doing, Executing, frozen
<1>2. c \in Calls
  BY <1>1, LastIs
<1>3. CASE marks[c.task]
  BY <1>1, <1>3, Returns DEF Check
<1>4. CASE ~marks[c.task]
  <2>1. stack' = Instead(m, <<[c EXCEPT !.at = "mark"]>>)
    BY <1>4 DEF Check
  <2>2. "mark" \in CallPlaces
    BY DEF CallPlaces
  <2> HIDE DEF c
  <2> DEFINE d == [c EXCEPT !.at = "mark"]
  <2>3. d \in Calls /\ d.at = "mark" /\ d.task = c.task
    BY <1>2, <2>2, MovedCall
  <2> HIDE DEF d
  <2>4. stack' = Instead(m, <<d>>)
    BY <2>1 DEF d
  <2>5. ~Executing(d)
    BY <2>3 DEF Executing
  <2> QED BY <1>1, <1>4, <2>3, <2>4, <2>5, GoesOn DEF c
<1> QED BY <1>3, <1>4

LEMMA RunReferencedKeeps ==
  ASSUME Inv, NEW m \in Modules, RunReferenced(m) PROVE Inv'
<1> DEFINE c == Last(stack[m])
           d == [c EXCEPT !.at = "clear"]
           e == RunCall(c.task)
<1>1. /\ stack[m] # <<>> /\ UNCHANGED <<project, parallel, deferred, marks, at, step, held>>
      /\ c.op = "placeholder" /\ c.at = "defined" /\ Executing(c)
      /\ stack' = Instead(m, <<d, e>>) \/ stack' = Instead(m, <<d>>)
  BY DEF RunReferenced, Doing, Executing, frozen
<1>2. c \in Calls /\ "clear" \in CallPlaces
  BY <1>1, LastIs DEF CallPlaces
<1>3. c.task \in Tasks
  BY <1>1, <1>2 DEF Calls
<1>4. d \in Calls /\ d.op = "placeholder" /\ d.at = "clear" /\ d.task = c.task
  <2> HIDE DEF c
  <2> QED BY <1>1, <1>2, MovedCall
<1>5. e \in Calls /\ e.op = "run" /\ e.at = "cond"
  BY <1>3, CallsAreCalls DEF Inv, RunCall, Call
<1>6. Executing(d) /\ ~Waiting(d) /\ ~Executing(e)
  BY <1>4, <1>5 DEF Executing, Waiting
<1> HIDE DEF d, e
<1>7. CASE stack' = Instead(m, <<d, e>>)
  BY <1>1, <1>4, <1>5, <1>6, <1>7, GoesOnWith
<1>8. CASE stack' = Instead(m, <<d>>)
  BY <1>1, <1>4, <1>6, <1>8, GoesOn
<1> QED BY <1>1, <1>7, <1>8
-----------------------------------------------------------------------------
(* Marking and clearing. *)

\* A module that is at work leaves the others as they are.
LEMMA OthersKeep ==
  ASSUME Inv, NEW m \in Modules, UNCHANGED frozen, at[m] \notin {"idle", "done"} \/ UNCHANGED marks,
         \A k \in Modules \ {m} : /\ stack'[k] = stack[k] /\ at'[k] = at[k]
                                  /\ step'[k] = step[k] /\ held'[k] = held[k]
  PROVE  \A k \in Modules \ {m} : ModuleInv(k)' /\ Chain(k)' = Chain(k)
<1> SUFFICES ASSUME NEW k \in Modules \ {m} PROVE ModuleInv(k)' /\ Chain(k)' = Chain(k)
  OBVIOUS
<1>1. AtStep(k) /\ OnTop(k) /\ Sequential(k)
  BY DEF Inv, ModuleInv
<1>2. AtStep(k)' /\ OnTop(k)' /\ Chain(k)' = Chain(k) /\ (Once(k) => Once(k)')
  BY <1>1, OtherModule DEF frozen
<1>3. Sequential(k)'
  <2> SUFFICES ASSUME ~parallel PROVE AboutToMark(k)' /\ ChainMarked(k)' /\ Once(k)'
    BY DEF Sequential, frozen
  <2>1. CASE UNCHANGED marks
    BY <1>1, <1>2, <2>1 DEF Sequential, AboutToMark, ChainMarked
  <2>2. CASE at[m] \notin {"idle", "done"}
    <3>1. stack[k] = <<>> /\ Chain(k) = {}
      BY <2>2, OneAtATime
    <3>2. DOMAIN stack'[k] = {}
      BY <3>1
    <3> QED BY <1>1, <1>2, <3>1, <3>2 DEF Sequential, AboutToMark, ChainMarked
  <2> QED BY <2>1, <2>2
<1> QED BY <1>2, <1>3 DEF ModuleInv

LEMMA OwnersRemain ==
  ASSUME Inv, NEW m \in Modules,
         \A k \in Modules \ {m} : Chain(k)' = Chain(k) /\ held'[k] = held[k],
         \A t \in Tasks : marks'[t] =>
           \/ t \in Chain(m)'
           \/ /\ marks[t]
              /\ t \in Chain(m) \cup ToSet(held[m]) => t \in Chain(m)' \cup ToSet(held'[m])
  PROVE  MarksHaveOwners'
<1> SUFFICES ASSUME NEW t \in Tasks, marks'[t]
             PROVE  \E k \in Modules : t \in Chain(k)' \cup ToSet(held'[k])
  BY DEF MarksHaveOwners, ToSet
<1>1. CASE t \in Chain(m)'
  BY <1>1
<1>2. CASE /\ marks[t]
           /\ t \in Chain(m) \cup ToSet(held[m]) => t \in Chain(m)' \cup ToSet(held'[m])
  <2>1. PICK k \in Modules : t \in Chain(k) \cup ToSet(held[k])
    BY <1>2 DEF Inv, MarksHaveOwners
  <2>2. CASE k = m
    BY <1>2, <2>1, <2>2
  <2>3. CASE k # m
    BY <2>1, <2>3
  <2> QED BY <2>2, <2>3
<1> QED BY <1>1, <1>2

\* The calls below the last one.
LEMMA Below ==
  ASSUME Inv, NEW m \in Modules, stack[m] # <<>>, NEW s \in Seq(Calls), stack' = Instead(m, s)
  PROVE  /\ \A i \in DOMAIN stack[m] : i # Len(stack[m]) =>
              /\ i \in DOMAIN stack'[m] /\ stack'[m][i] = stack[m][i] /\ ~Waiting(stack'[m][i])
              /\ i < Len(stack[m])
         /\ \A i \in DOMAIN stack'[m] : i < Len(stack[m]) => i \in DOMAIN stack[m]
<1> DEFINE n == Len(stack[m])
<1>1. /\ n \in Nat \ {0} /\ DOMAIN stack[m] = 1..n
      /\ DOMAIN stack'[m] = 1..(n - 1 + Len(s)) /\ Len(s) \in Nat
      /\ \A i \in 1..(n - 1) : stack'[m][i] = stack[m][i]
  BY InsteadIs DEF Inv
<1> HIDE DEF n
<1>2. ASSUME NEW i \in DOMAIN stack[m], i # n
      PROVE  i \in DOMAIN stack'[m] /\ stack'[m][i] = stack[m][i] /\ i < n
  <2>1. i \in 1..(n - 1) /\ i \in 1..(n - 1 + Len(s)) /\ i < n
    BY <1>1, <1>2
  <2> QED BY <1>1, <2>1
<1>3. ASSUME NEW i \in DOMAIN stack[m], i # n PROVE ~Waiting(stack[m][i])
  BY <1>3 DEF Inv, ModuleInv, OnTop, n
<1>4. \A i \in DOMAIN stack'[m] : i < n => i \in DOMAIN stack[m]
  BY <1>1
<1> QED BY <1>2, <1>3, <1>4 DEF n

LEMMA MarkKeeps ==
  ASSUME Inv, NEW m \in Modules, Mark(m) PROVE Inv'
<1> DEFINE n == Len(stack[m])
           c == Last(stack[m])
           d == [c EXCEPT !.at = "defined"]
           e == DefineCall(c.task)
           s == <<d, e>>
<1>1. /\ stack[m] # <<>> /\ UNCHANGED <<project, parallel, deferred, at, step, held>>
      /\ c.op = "placeholder" /\ c.at = "mark" /\ ~Executing(c)
      /\ stack' = Instead(m, s) /\ marks' = [marks EXCEPT ![c.task] = TRUE]
  BY DEF Mark, Doing, Executing, frozen
<1>2. c \in Calls /\ c = stack[m][n] /\ n \in DOMAIN stack[m] /\ "defined" \in CallPlaces
  BY <1>1, LastIs DEF CallPlaces
<1>3. c.task \in Tasks
  BY <1>1, <1>2 DEF Calls
<1>4. d \in Calls /\ d.op = "placeholder" /\ d.at = "defined" /\ d.task = c.task
  <2> HIDE DEF c
  <2> QED BY <1>1, <1>2, MovedCall
<1>5. e \in Calls /\ e.op = "define"
  BY <1>3, CallsAreCalls DEF Inv, DefineCall, Call
<1> HIDE DEF d, e
<1>6. s \in Seq(Calls) /\ Len(s) = 2 /\ DOMAIN s = 1..2 /\ s[1] = d /\ s[2] = e
  BY <1>4, <1>5
<1> HIDE DEF s
<1>7. /\ n \in Nat \ {0} /\ stack' \in [Modules -> Seq(Calls)]
      /\ \A k \in Modules \ {m} : stack'[k] = stack[k]
      /\ DOMAIN stack'[m] = 1..(n + 1) /\ Len(stack'[m]) = n + 1
      /\ stack'[m][n] = d /\ stack'[m][n + 1] = e
  <2>1. /\ n \in Nat \ {0} /\ stack' \in [Modules -> Seq(Calls)]
        /\ \A k \in Modules \ {m} : stack'[k] = stack[k]
        /\ DOMAIN stack'[m] = 1..(n - 1 + 2) /\ Len(stack'[m]) = n - 1 + 2
        /\ stack'[m][n - 1 + 1] = d /\ stack'[m][n - 1 + 2] = e
    <3>1. /\ n \in Nat \ {0} /\ stack' \in [Modules -> Seq(Calls)]
          /\ \A k \in Modules \ {m} : stack'[k] = stack[k]
          /\ DOMAIN stack'[m] = 1..(n - 1 + Len(s)) /\ Len(stack'[m]) = n - 1 + Len(s)
          /\ \A i \in DOMAIN s : stack'[m][n - 1 + i] = s[i]
      BY <1>1, <1>6, InsteadIs DEF Inv
    <3>2. 1 \in DOMAIN s /\ 2 \in DOMAIN s
      BY <1>6
    <3> HIDE DEF n
    <3> QED BY <1>6, <3>1, <3>2
  <2>2. n - 1 + 1 = n /\ n - 1 + 2 = n + 1
    BY <2>1
  <2> QED BY <2>1, <2>2
<1>8. /\ \A i \in DOMAIN stack[m] : i # n =>
           i \in DOMAIN stack'[m] /\ stack'[m][i] = stack[m][i] /\ ~Waiting(stack'[m][i]) /\ i < n
      /\ \A i \in DOMAIN stack'[m] : i < n => i \in DOMAIN stack[m]
  BY <1>1, <1>6, Below
<1> HIDE DEF n, c
<1>9. \A i \in DOMAIN stack'[m] : i = n \/ i = n + 1 \/ (i \in DOMAIN stack[m] /\ i # n)
  <2> SUFFICES ASSUME NEW i \in DOMAIN stack'[m], i # n, i # n + 1 PROVE i < n
    BY <1>7, <1>8
  <2> QED BY <1>7
<1>10. Typed'
  BY <1>1, <1>3, <1>7 DEF Inv, Typed
<1>11. AtStep(m)' /\ OnTop(m)'
  <2>1. AtStep(m)'
    <3>1. at[m] \in {"build", "define", "run"} /\ AtStep(m)
      BY <1>1, BusyWithCalls DEF Inv, ModuleInv
    <3>2. Current(m)' = Current(m) /\ Steps(m)' = Steps(m)
      BY <1>1 DEF Current, Steps
    <3> QED BY <1>1, <3>1, <3>2 DEF AtStep
  <2>2. ~Waiting(d) /\ ~Waiting(e)
    BY <1>4, <1>5 DEF Waiting
  <2>3. \A i \in DOMAIN stack'[m] : ~Waiting(stack'[m][i])
    BY <1>7, <1>8, <1>9, <2>2
  <2> QED BY <2>1, <2>3 DEF OnTop, Waiting
<1>12. /\ Active(m)' = Active(m) \cup {n} /\ n \notin Active(m)
       /\ \A i \in Active(m) : stack'[m][i].task = stack[m][i].task
       /\ stack'[m][n].task = c.task
  <2>1. Executing(d) /\ ~Executing(e)
    BY <1>4, <1>5 DEF Executing
  <2>2. n \notin Active(m)
    BY <1>1, <1>2, ActiveIs
  <2>3. ASSUME NEW i \in Active(m)
        PROVE  i \in Active(m)' /\ stack'[m][i].task = stack[m][i].task
    <3>1. i \in DOMAIN stack[m] /\ i # n /\ Executing(stack[m][i])
      BY <2>2, ActiveIs
    <3>2. i \in DOMAIN stack'[m] /\ stack'[m][i] = stack[m][i]
      BY <1>8, <3>1
    <3> QED BY <3>1, <3>2, ActiveIs
  <2>4. ASSUME NEW i \in Active(m)', i # n PROVE i \in Active(m)
    <3>1. i \in DOMAIN stack'[m] /\ Executing(stack'[m][i])
      BY ActiveIs
    <3>2. i # n + 1
      BY <1>7, <2>1, <3>1
    <3>3. i \in DOMAIN stack[m] /\ stack'[m][i] = stack[m][i]
      BY <1>8, <1>9, <2>4, <3>1, <3>2
    <3> QED BY <3>1, <3>3, ActiveIs
  <2>5. n \in Active(m)'
    <3>1. n \in DOMAIN stack'[m]
      BY <1>7
    <3> QED BY <1>7, <2>1, <3>1, ActiveIs
  <2> QED BY <1>4, <1>7, <2>2, <2>3, <2>4, <2>5
<1>13. Current(m)' = Current(m)
  BY <1>1 DEF Current, Steps
<1>14. /\ \A t : t \in Chain(m)' <=> t \in Chain(m) \/ t = c.task
  <2> SUFFICES ASSUME NEW t PROVE t \in Chain(m)' <=> t \in Chain(m) \/ t = c.task
    OBVIOUS
  <2>1. (\E i \in Active(m)' : stack'[m][i].task = t) <=>
          (\E i \in Active(m) : stack[m][i].task = t) \/ t = c.task
    BY <1>12
  <2> QED BY <1>1, <1>13, <2>1, ChainIs
<1>15. Sequential(m)'
  <2> SUFFICES ASSUME ~parallel PROVE AboutToMark(m)' /\ ChainMarked(m)' /\ Once(m)'
    BY <1>1 DEF Sequential
  <2>1. AboutToMark(m) /\ ChainMarked(m) /\ Once(m)
    BY DEF Inv, ModuleInv, Sequential
  <2>2. AboutToMark(m)'
    <3>1. ASSUME NEW i \in DOMAIN stack'[m]
          PROVE  ~(stack'[m][i].op = "placeholder" /\ stack'[m][i].at = "mark")
      BY <1>4, <1>5, <1>7, <1>8, <1>9 DEF Waiting
    <3> QED BY <3>1 DEF AboutToMark
  <2>3. ChainMarked(m)'
    <3>1. marks \in [Tasks -> BOOLEAN]
      BY DEF Inv, Typed
    <3>2. ASSUME NEW t, t \in Chain(m)' PROVE marks'[t]
      <4>1. CASE t = c.task
        BY <1>1, <1>3, <3>1, <4>1
      <4>2. CASE t \in Chain(m) /\ t # c.task
        <5>1. marks[t]
          BY <2>1, <4>2 DEF ChainMarked
        <5> QED BY <1>1, <3>1, <4>2, <5>1
      <4> QED BY <1>14, <3>2, <4>1, <4>2
    <3> QED BY <3>2 DEF ChainMarked
  <2>4. c.task \notin Chain(m)
    <3>1. ~marks[c.task]
      BY <1>1, <1>2, <2>1 DEF AboutToMark
    <3> QED BY <2>1, <3>1 DEF ChainMarked
  <2>5. \A i \in Active(m) : stack[m][i].task # c.task
    BY <2>4, ChainIs
  <2>6. at[m] = "run" => Current(m) # c.task
    BY <2>4, ChainIs
  <2>7. Once(m)'
    BY <1>1, <1>12, <1>13, <2>1, <2>5, <2>6 DEF Once
  <2> QED BY <2>2, <2>3, <2>7
<1>16. \A k \in Modules \ {m} : ModuleInv(k)' /\ Chain(k)' = Chain(k)
  <2>1. at[m] \notin {"idle", "done"}
    BY <1>1, BusyWithCalls
  <2> QED BY <1>1, <1>7, <2>1, OthersKeep DEF frozen
<1>17. MarksHaveOwners'
  <2>1. \A t \in Tasks : marks'[t] =>
          t \in Chain(m)' \/ (marks[t] /\ (t \in Chain(m) => t \in Chain(m)'))
    BY <1>1, <1>14 DEF Inv, Typed
  <2> QED BY <1>1, <1>16, <2>1, OwnersRemain
<1>18. InTurn'
  BY <1>1 DEF Inv, InTurn
<1> QED BY <1>10, <1>11, <1>15, <1>16, <1>17, <1>18 DEF Inv, ModuleInv

LEMMA UnmarkKeeps ==
  ASSUME Inv, NEW m \in Modules, Unmark(m) PROVE Inv'
<1> DEFINE n == Len(stack[m])
           c == Last(stack[m])
           s == <<>>
<1>1. /\ stack[m] # <<>> /\ UNCHANGED <<project, parallel, deferred, at, step, held>>
      /\ c.op = "placeholder" /\ c.at = "clear" /\ Executing(c)
      /\ stack' = Instead(m, s) /\ marks' = [marks EXCEPT ![c.task] = FALSE]
  BY DEF Unmark, Doing, Executing, frozen
<1>2. c \in Calls /\ c = stack[m][n] /\ n \in DOMAIN stack[m]
  BY <1>1, LastIs
<1>3. c.task \in Tasks
  BY <1>1, <1>2 DEF Calls
<1>4. s \in Seq(Calls) /\ Len(s) = 0
  OBVIOUS
<1> HIDE DEF s
<1>5. /\ n \in Nat \ {0} /\ stack' \in [Modules -> Seq(Calls)]
      /\ \A k \in Modules \ {m} : stack'[k] = stack[k]
      /\ DOMAIN stack'[m] = 1..(n - 1)
  <2>1. /\ n \in Nat \ {0} /\ stack' \in [Modules -> Seq(Calls)]
        /\ \A k \in Modules \ {m} : stack'[k] = stack[k]
        /\ DOMAIN stack'[m] = 1..(n - 1 + Len(s))
    BY <1>1, <1>4, InsteadIs DEF Inv
  <2>2. n - 1 + Len(s) = n - 1
    BY <1>4, <2>1
  <2> QED BY <2>1, <2>2
<1>6. /\ \A i \in DOMAIN stack[m] : i # n =>
           i \in DOMAIN stack'[m] /\ stack'[m][i] = stack[m][i] /\ ~Waiting(stack'[m][i]) /\ i < n
      /\ \A i \in DOMAIN stack'[m] : i < n => i \in DOMAIN stack[m]
  BY <1>1, <1>4, Below
<1> HIDE DEF n, c
<1>7. \A i \in DOMAIN stack'[m] : i \in DOMAIN stack[m] /\ i # n
  <2> SUFFICES ASSUME NEW i \in DOMAIN stack'[m] PROVE i < n
    BY <1>5, <1>6
  <2> QED BY <1>5
<1>8. Typed'
  BY <1>1, <1>3, <1>5 DEF Inv, Typed
<1>9. AtStep(m)' /\ OnTop(m)'
  <2>1. AtStep(m)'
    <3>1. at[m] \in {"build", "define", "run"} /\ AtStep(m)
      BY <1>1, BusyWithCalls DEF Inv, ModuleInv
    <3>2. Current(m)' = Current(m) /\ Steps(m)' = Steps(m)
      BY <1>1 DEF Current, Steps
    <3> QED BY <1>1, <3>1, <3>2 DEF AtStep
  <2>2. \A i \in DOMAIN stack'[m] : ~Waiting(stack'[m][i])
    BY <1>6, <1>7
  <2> QED BY <2>1, <2>2 DEF OnTop, Waiting
<1>10. /\ Active(m)' = Active(m) \ {n} /\ n \in Active(m)
       /\ \A i \in Active(m)' : stack'[m][i].task = stack[m][i].task
       /\ stack[m][n].task = c.task
  <2>1. n \in Active(m)
    BY <1>1, <1>2, ActiveIs
  <2>2. ASSUME NEW i \in Active(m), i # n
        PROVE  i \in Active(m)' /\ stack'[m][i].task = stack[m][i].task
    <3>1. i \in DOMAIN stack[m] /\ Executing(stack[m][i])
      BY ActiveIs
    <3>2. i \in DOMAIN stack'[m] /\ stack'[m][i] = stack[m][i]
      BY <1>6, <2>2, <3>1
    <3> QED BY <3>1, <3>2, ActiveIs
  <2>3. ASSUME NEW i \in Active(m)' PROVE i \in Active(m) /\ i # n
    <3>1. i \in DOMAIN stack'[m] /\ Executing(stack'[m][i])
      BY ActiveIs
    <3>2. i \in DOMAIN stack[m] /\ i # n /\ stack'[m][i] = stack[m][i]
      BY <1>6, <1>7, <3>1
    <3> QED BY <3>1, <3>2, ActiveIs
  <2> QED BY <1>2, <2>1, <2>2, <2>3
<1>11. Current(m)' = Current(m)
  BY <1>1 DEF Current, Steps
<1>12. \A t : /\ t \in Chain(m)' => t \in Chain(m)
              /\ (t \in Chain(m) => t \in Chain(m)' \/ t = c.task)
  <2> SUFFICES ASSUME NEW t
               PROVE  (t \in Chain(m)' => t \in Chain(m))
                        /\ (t \in Chain(m) => t \in Chain(m)' \/ t = c.task)
    OBVIOUS
  <2>1. (\E i \in Active(m)' : stack'[m][i].task = t) => \E i \in Active(m) : stack[m][i].task = t
    BY <1>10
  <2>2. (\E i \in Active(m) : stack[m][i].task = t) =>
          (\E i \in Active(m)' : stack'[m][i].task = t) \/ t = c.task
    BY <1>10
  <2> QED BY <1>1, <1>11, <2>1, <2>2, ChainIs
<1>13. Sequential(m)'
  <2> SUFFICES ASSUME ~parallel PROVE AboutToMark(m)' /\ ChainMarked(m)' /\ Once(m)'
    BY <1>1 DEF Sequential
  <2>1. AboutToMark(m) /\ ChainMarked(m) /\ Once(m)
    BY DEF Inv, ModuleInv, Sequential
  <2>2. AboutToMark(m)'
    <3>1. ASSUME NEW i \in DOMAIN stack'[m]
          PROVE  ~(stack'[m][i].op = "placeholder" /\ stack'[m][i].at = "mark")
      BY <1>6, <1>7 DEF Waiting
    <3> QED BY <3>1 DEF AboutToMark
  <2>3. c.task \notin Chain(m)'
    <3>1. \A i \in Active(m)' : stack'[m][i].task # c.task
      BY <1>10, <2>1 DEF Once
    <3>2. at[m] = "run" => Current(m) # c.task
      BY <1>10, <2>1 DEF Once
    <3> QED BY <1>1, <1>11, <3>1, <3>2, ChainIs
  <2>4. ChainMarked(m)'
    <3>1. marks \in [Tasks -> BOOLEAN]
      BY DEF Inv, Typed
    <3>2. ASSUME NEW t, t \in Chain(m)' PROVE marks'[t]
      <4>1. t # c.task /\ marks[t]
        BY <1>12, <2>1, <2>3, <3>2 DEF ChainMarked
      <4> QED BY <1>1, <3>1, <4>1
    <3> QED BY <3>2 DEF ChainMarked
  <2>5. Once(m)'
    BY <1>1, <1>10, <1>11, <2>1 DEF Once
  <2> QED BY <2>2, <2>4, <2>5
<1>14. \A k \in Modules \ {m} : ModuleInv(k)' /\ Chain(k)' = Chain(k)
  <2>1. at[m] \notin {"idle", "done"}
    BY <1>1, BusyWithCalls
  <2> QED BY <1>1, <1>5, <2>1, OthersKeep DEF frozen
<1>15. MarksHaveOwners'
  <2>1. \A t \in Tasks : marks'[t] => marks[t] /\ (t \in Chain(m) => t \in Chain(m)')
    BY <1>1, <1>3, <1>12 DEF Inv, Typed
  <2> QED BY <1>1, <1>14, <2>1, OwnersRemain
<1>16. InTurn'
  BY <1>1 DEF Inv, InTurn
<1> QED BY <1>8, <1>9, <1>13, <1>14, <1>15, <1>16 DEF Inv, ModuleInv
-----------------------------------------------------------------------------
(* The steps of a module. *)

\* A module that goes on while nobody is called.
LEMMA TurnKeeps ==
  ASSUME Inv, NEW m \in Modules, stack[m] = <<>>, NEW w \in ModulePlaces \ {"idle"},
         at[m] \notin {"done", "failed"}, at' = [at EXCEPT ![m] = w], UNCHANGED frozen,
         at[m] = "idle" =>
           /\ UNCHANGED marks
           /\ parallel \/ \A k \in Modules : k < m => at[k] = "done",
         \A k \in Modules \ {m} : held'[k] = held[k] /\ step'[k] = step[k],
         \/ UNCHANGED stack
         \/ \E c \in Calls : /\ c.op # "placeholder" /\ stack' = Push(m, c)
                             /\ w \in {"build", "define", "run"},
         marks' \in [Tasks -> BOOLEAN], step'[m] \in Nat \ {0}, held'[m] \in Seq(Tasks),
         step' \in [Modules -> Nat \ {0}], held' \in [Modules -> Seq(Tasks)],
         w \in {"define", "run"} => step'[m] \in DOMAIN Steps(m),
         w = "run" /\ deferred => Current(m)' \in ToSet(held'[m]),
         w = "run" => marks'[Current(m)'],
         \A t \in Tasks : marks'[t] =>
           \/ w = "run" /\ t = Current(m)'
           \/ /\ marks[t]
              /\ at[m] = "run" => t # Current(m) \/ t \in ToSet(held'[m])
              /\ t \in ToSet(held[m]) => t \in ToSet(held'[m])
  PROVE  Inv'
<1>1. at \in [Modules -> ModulePlaces] /\ at'[m] = w /\ \A k \in Modules \ {m} : at'[k] = at[k]
  BY DEF Inv, Typed
<1>2. stack \in [Modules -> Seq(Calls)]
  BY DEF Inv, Typed
<1>3. PICK q \in Seq(Calls) :
        /\ stack' = [stack EXCEPT ![m] = q]
        /\ \A i \in DOMAIN q : q[i].op # "placeholder"
        /\ q # <<>> => w \in {"build", "define", "run"}
  <2>1. CASE UNCHANGED stack
    <3>1. stack' = [stack EXCEPT ![m] = <<>>] /\ <<>> \in Seq(Calls) /\ DOMAIN <<>> = {}
      BY <1>2, <2>1
    <3> QED BY <3>1
  <2>2. ASSUME NEW c \in Calls, c.op # "placeholder", stack' = Push(m, c),
               w \in {"build", "define", "run"}
        PROVE  \E q \in Seq(Calls) :
                 /\ stack' = [stack EXCEPT ![m] = q]
                 /\ \A i \in DOMAIN q : q[i].op # "placeholder"
                 /\ q # <<>> => w \in {"build", "define", "run"}
    <3>1. Append(stack[m], c) = <<c>>
      OBVIOUS
    <3>2. stack' = [stack EXCEPT ![m] = <<c>>]
      BY <2>2, <3>1 DEF Push
    <3>3. <<c>> \in Seq(Calls) /\ \A i \in DOMAIN <<c>> : <<c>>[i].op # "placeholder"
      BY <2>2
    <3> QED BY <2>2, <3>2, <3>3
  <2> QED BY <2>1, <2>2
<1>4. /\ stack'[m] = q /\ \A k \in Modules \ {m} : stack'[k] = stack[k]
      /\ stack' \in [Modules -> Seq(Calls)]
  BY <1>2, <1>3
<1>5. Typed'
  BY <1>1, <1>4 DEF Inv, Typed, frozen
<1>6. AtStep(m)'
  <2>1. Steps(m)' = Steps(m)
    BY DEF Steps, frozen
  <2> QED BY <1>1, <1>3, <1>4, <2>1 DEF AtStep, frozen
<1>7. OnTop(m)'
  BY <1>3, <1>4 DEF OnTop, Waiting
<1>8. Active(m)' = {} /\ Active(m) = {}
  <2>1. Active(m)' = {}
    <3>1. \A i \in DOMAIN q : q[i].op # "placeholder"
      BY <1>3
    <3>2. \A i \in DOMAIN stack'[m] : stack'[m][i].op # "placeholder"
      BY <1>4, <3>1
    <3> QED BY <3>2 DEF Active
  <2> QED BY <2>1 DEF Active
<1>9. /\ \A t : t \in Chain(m)' <=> w = "run" /\ t = Current(m)'
      /\ \A t : t \in Chain(m) <=> at[m] = "run" /\ t = Current(m)
  BY <1>1, <1>8, ChainIs
<1>10. Sequential(m)'
  <2>1. AboutToMark(m)'
    BY <1>3, <1>4 DEF AboutToMark
  <2>2. ChainMarked(m)'
    BY <1>9 DEF ChainMarked
  <2>3. Once(m)'
    BY <1>8 DEF Once
  <2> QED BY <2>1, <2>2, <2>3 DEF Sequential
<1>11. \A k \in Modules \ {m} : ModuleInv(k)' /\ Chain(k)' = Chain(k)
  <2>1. at[m] \notin {"idle", "done"} \/ UNCHANGED marks
    OBVIOUS
  <2> QED BY <1>1, <1>4, <2>1, OthersKeep
<1>12. MarksHaveOwners'
  <2>1. ASSUME NEW t \in Tasks, marks'[t]
        PROVE  \/ t \in Chain(m)'
               \/ /\ marks[t]
                  /\ t \in Chain(m) \cup ToSet(held[m]) => t \in Chain(m)' \cup ToSet(held'[m])
    BY <1>9, <2>1
  <2> QED BY <1>11, <2>1, OwnersRemain
<1>13. InTurn'
  <2> SUFFICES ASSUME ~parallel, NEW j \in Modules, NEW k \in Modules, j < k, at'[k] # "idle"
               PROVE  at'[j] = "done"
    BY DEF InTurn, frozen
  <2>1. \A x, y \in Modules : x < y /\ at[y] # "idle" => at[x] = "done"
    BY DEF Inv, InTurn
  <2>2. m \in Int /\ j \in Int /\ k \in Int
    BY DEF Modules
  <2>3. CASE k = m
    <3>1. at[j] = "done" /\ j # m
      BY <2>1, <2>2, <2>3
    <3> QED BY <1>1, <3>1
  <2>4. CASE k # m
    <3>1. at[j] = "done"
      BY <1>1, <2>1, <2>4
    <3> QED BY <1>1, <3>1
  <2> QED BY <2>3, <2>4
<1> QED BY <1>5, <1>6, <1>7, <1>10, <1>11, <1>12, <1>13 DEF Inv, ModuleInv

LEMMA LastOfSeq ==
  ASSUME NEW T, NEW q \in Seq(T), q # <<>>
  PROVE  /\ Last(q) \in T /\ Front(q) \in Seq(T)
         /\ \A t \in ToSet(q) : t # Last(q) => t \in ToSet(Front(q))
<1>1. Last(q) = q[Len(q)] /\ Len(q) \in Nat \ {0} /\ DOMAIN q = 1..Len(q)
  BY DEF Last
<1>2. /\ Front(q) \in Seq(T) /\ DOMAIN Front(q) = 1..(Len(q) - 1)
      /\ \A i \in 1..(Len(q) - 1) : Front(q)[i] = q[i]
  BY <1>1 DEF Front
<1>3. ASSUME NEW t \in ToSet(q), t # Last(q) PROVE t \in ToSet(Front(q))
  <2>1. PICK i \in DOMAIN q : q[i] = t
    BY DEF ToSet
  <2>2. i # Len(q)
    BY <1>1, <1>3, <2>1
  <2>3. i \in 1..(Len(q) - 1)
    BY <1>1, <2>2
  <2> QED BY <1>2, <2>1, <2>3 DEF ToSet
<1> QED BY <1>1, <1>2, <1>3

LEMMA AppendedTo ==
  ASSUME NEW T, NEW q \in Seq(T), NEW t \in T
  PROVE  /\ Append(q, t) \in Seq(T) /\ ToSet(q) \subseteq ToSet(Append(q, t))
         /\ t \in ToSet(Append(q, t))
<1>1. /\ Len(q) \in Nat /\ DOMAIN q = 1..Len(q) /\ DOMAIN Append(q, t) = 1..(Len(q) + 1)
      /\ \A i \in 1..Len(q) : Append(q, t)[i] = q[i]
      /\ Append(q, t)[Len(q) + 1] = t
  OBVIOUS
<1>2. 1..Len(q) \subseteq 1..(Len(q) + 1) /\ Len(q) + 1 \in 1..(Len(q) + 1)
  BY <1>1
<1> QED BY <1>1, <1>2 DEF ToSet

LEMMA OfModule ==
  ASSUME Inv, NEW m \in Modules
  PROVE  /\ marks \in [Tasks -> BOOLEAN] /\ step \in [Modules -> Nat \ {0}]
         /\ held \in [Modules -> Seq(Tasks)] /\ stack \in [Modules -> Seq(Calls)]
         /\ at \in [Modules -> ModulePlaces]
         /\ step[m] \in Nat \ {0} /\ held[m] \in Seq(Tasks) /\ AtStep(m)
BY DEF Inv, Typed, ModuleInv

LEMMA StartKeeps ==
  ASSUME Inv, NEW m \in Modules, Start(m) PROVE Inv'
<1>1. /\ at[m] = "idle" /\ at' = [at EXCEPT ![m] = "build"] /\ stack[m] = <<>>
      /\ UNCHANGED <<frozen, marks, step, held>> /\ stack' = Push(m, DefineCall(Build))
      /\ parallel \/ \A k \in Modules : k < m => at[k] = "done"
  BY OfModule DEF Start, AtStep
<1>2. DefineCall(Build) \in Calls /\ DefineCall(Build).op # "placeholder"
  BY CallsAreCalls DEF Inv, DefineCall, Call
<1>3. \E c \in Calls : /\ c.op # "placeholder" /\ stack' = Push(m, c)
                       /\ "build" \in {"build", "define", "run"}
  BY <1>1, <1>2
<1> QED BY <1>1, <1>3, OfModule, TurnKeeps DEF ModulePlaces

LEMMA BuildDefinedKeeps ==
  ASSUME Inv, NEW m \in Modules, BuildDefined(m) PROVE Inv'
<1>1. PICK w \in {"next", "unwind"} : at' = [at EXCEPT ![m] = w]
  BY DEF BuildDefined
<1>2. at[m] = "build" /\ stack[m] = <<>> /\ UNCHANGED <<frozen, marks, step, held, stack>>
  BY DEF BuildDefined, Idle
<1> QED BY <1>1, <1>2, OfModule, TurnKeeps DEF ModulePlaces

LEMMA NextStepKeeps ==
  ASSUME Inv, NEW m \in Modules, NextStep(m) PROVE Inv'
<1>1. at[m] = "next" /\ stack[m] = <<>> /\ UNCHANGED <<frozen, marks, step, held>>
  BY DEF NextStep, Idle
<1>2. CASE step[m] <= Len(Steps(m))
  <2>1. at' = [at EXCEPT ![m] = "define"] /\ stack' = Push(m, DefineCall(Current(m)))
    BY <1>2 DEF NextStep
  <2>2. Steps(m) \in Seq(Tasks)
    BY OfProject DEF Inv
  <2>3. step[m] \in DOMAIN Steps(m)
    BY <1>2, <2>2, OfModule
  <2>4. Current(m) \in Tasks
    BY <2>2, <2>3 DEF Current
  <2>5. DefineCall(Current(m)) \in Calls /\ DefineCall(Current(m)).op # "placeholder"
    BY <2>4, CallsAreCalls DEF Inv, DefineCall, Call
  <2>6. \E c \in Calls : /\ c.op # "placeholder" /\ stack' = Push(m, c)
                         /\ "define" \in {"build", "define", "run"}
    BY <2>1, <2>5
  <2> QED BY <1>1, <2>1, <2>3, <2>6, OfModule, TurnKeeps DEF ModulePlaces
<1>3. CASE ~(step[m] <= Len(Steps(m)))
  <2>1. at' = [at EXCEPT ![m] = "unwind"] /\ UNCHANGED stack
    BY <1>3 DEF NextStep
  <2> QED BY <1>1, <2>1, OfModule, TurnKeeps DEF ModulePlaces
<1> QED BY <1>2, <1>3

LEMMA MarkStepKeeps ==
  ASSUME Inv, NEW m \in Modules, MarkStep(m) PROVE Inv'
<1>1. at[m] = "define" /\ stack[m] = <<>> /\ UNCHANGED <<frozen, step>>
  BY DEF MarkStep, Idle
<1>2. CASE ret[m] # "ok"
  <2>1. at' = [at EXCEPT ![m] = "unwind"] /\ UNCHANGED <<marks, held, stack>>
    BY <1>2 DEF MarkStep
  <2> QED BY <1>1, <2>1, OfModule, TurnKeeps DEF ModulePlaces
<1>3. CASE ret[m] = "ok"
  <2> DEFINE t == Current(m)
             h == IF deferred THEN Append(held[m], t) ELSE held[m]
  <2>1. /\ marks' = [marks EXCEPT ![t] = TRUE] /\ held' = [held EXCEPT ![m] = h]
        /\ stack' = Push(m, RunCall(t)) /\ at' = [at EXCEPT ![m] = "run"]
    BY <1>3 DEF MarkStep
  <2>2. t \in Tasks
    BY <1>1, CurrentIsTask
  <2>3. Current(m)' = t /\ step[m] \in DOMAIN Steps(m)
    BY <1>1, OfModule DEF Current, Steps, AtStep, frozen
  <2> HIDE DEF t
  <2>4. h \in Seq(Tasks) /\ ToSet(held[m]) \subseteq ToSet(h) /\ (deferred => t \in ToSet(h))
    BY <2>2, OfModule, AppendedTo
  <2> HIDE DEF h
  <2>5. RunCall(t) \in Calls /\ RunCall(t).op # "placeholder"
    BY <2>2, CallsAreCalls DEF Inv, RunCall, Call
  <2>6. \E c \in Calls : /\ c.op # "placeholder" /\ stack' = Push(m, c)
                         /\ "run" \in {"build", "define", "run"}
    BY <2>1, <2>5
  <2>7. /\ marks' \in [Tasks -> BOOLEAN] /\ marks'[t]
        /\ \A u \in Tasks : marks'[u] => marks[u] \/ u = t
    BY <2>1, <2>2, OfModule
  <2>8. /\ held' \in [Modules -> Seq(Tasks)] /\ held'[m] = h
        /\ \A k \in Modules \ {m} : held'[k] = held[k]
    BY <2>1, <2>4, OfModule
  <2>9. \A u \in Tasks : marks'[u] =>
          \/ "run" = "run" /\ u = Current(m)'
          \/ /\ marks[u]
             /\ at[m] = "run" => u # Current(m) \/ u \in ToSet(held'[m])
             /\ u \in ToSet(held[m]) => u \in ToSet(held'[m])
    BY <1>1, <2>3, <2>4, <2>7, <2>8
  <2>10. /\ step'[m] \in Nat \ {0} /\ step' \in [Modules -> Nat \ {0}]
         /\ step'[m] \in DOMAIN Steps(m) /\ \A k \in Modules \ {m} : step'[k] = step[k]
         /\ deferred => Current(m)' \in ToSet(held'[m])
         /\ marks'[Current(m)'] /\ held'[m] \in Seq(Tasks)
    BY <1>1, <2>3, <2>4, <2>7, <2>8, OfModule
  <2> QED BY <1>1, <2>1, <2>6, <2>7, <2>8, <2>9, <2>10, TurnKeeps DEF ModulePlaces
<1> QED BY <1>2, <1>3

LEMMA StepReturnsKeeps ==
  ASSUME Inv, NEW m \in Modules, StepReturns(m) PROVE Inv'
<1>1. at[m] = "run" /\ stack[m] = <<>> /\ UNCHANGED <<frozen, held, stack>>
  BY DEF StepReturns, Idle
<1>2. PICK w \in {"next", "unwind"}, n \in Nat \ {0} :
        at' = [at EXCEPT ![m] = w] /\ step' = [step EXCEPT ![m] = n]
  <2>1. step \in [Modules -> Nat \ {0}] /\ step[m] \in Nat \ {0} /\ step[m] + 1 \in Nat \ {0}
    BY OfModule
  <2>2. CASE ret[m] = "ok"
    <3>1. at' = [at EXCEPT ![m] = "next"] /\ step' = [step EXCEPT ![m] = step[m] + 1]
      BY <2>2 DEF StepReturns
    <3> QED BY <2>1, <3>1
  <2>3. CASE ret[m] # "ok"
    <3>1. at' = [at EXCEPT ![m] = "unwind"] /\ step' = [step EXCEPT ![m] = step[m]]
      BY <2>1, <2>3 DEF StepReturns
    <3> QED BY <2>1, <3>1
  <2> QED BY <2>2, <2>3
<1>3. /\ step' \in [Modules -> Nat \ {0}] /\ step'[m] = n
      /\ \A k \in Modules \ {m} : step'[k] = step[k]
  BY <1>2, OfModule
<1>4. /\ marks' \in [Tasks -> BOOLEAN]
      /\ \A t \in Tasks : marks'[t] => marks[t] /\ (t # Current(m) \/ t \in ToSet(held[m]))
  <2>1. CASE deferred
    <3>1. UNCHANGED marks
      BY <2>1 DEF StepReturns
    <3>2. Current(m) \in ToSet(held[m])
      BY <1>1, <2>1, OfModule DEF AtStep
    <3> QED BY <3>1, <3>2, OfModule
  <2>2. CASE ~deferred
    <3>1. marks' = [marks EXCEPT ![Current(m)] = FALSE]
      BY <2>2 DEF StepReturns
    <3>2. Current(m) \in Tasks
      BY <1>1, CurrentIsTask
    <3> QED BY <3>1, <3>2, OfModule
  <2> QED BY <2>1, <2>2
<1> QED BY <1>1, <1>2, <1>3, <1>4, OfModule, TurnKeeps DEF ModulePlaces

LEMMA UnwindKeeps ==
  ASSUME Inv, NEW m \in Modules, Unwind(m) PROVE Inv'
<1>1. at[m] = "unwind" /\ stack[m] = <<>> /\ UNCHANGED <<frozen, step, stack>>
  BY OfModule DEF Unwind, AtStep
<1>2. CASE held[m] = <<>>
  <2>1. PICK w \in {"done", "failed"} : at' = [at EXCEPT ![m] = w]
    BY <1>2 DEF Unwind
  <2>2. UNCHANGED <<marks, held>>
    BY <1>2 DEF Unwind
  <2> QED BY <1>1, <2>1, <2>2, OfModule, TurnKeeps DEF ModulePlaces
<1>3. CASE held[m] # <<>>
  <2> DEFINE t == Last(held[m])
             h == Front(held[m])
  <2>1. marks' = [marks EXCEPT ![t] = FALSE] /\ held' = [held EXCEPT ![m] = h] /\ UNCHANGED at
    BY <1>3 DEF Unwind
  <2>2. /\ t \in Tasks /\ h \in Seq(Tasks)
        /\ \A u \in ToSet(held[m]) : u # t => u \in ToSet(h)
    BY <1>3, OfModule, LastOfSeq
  <2> HIDE DEF t, h
  <2>3. /\ marks' \in [Tasks -> BOOLEAN]
        /\ \A u \in Tasks : marks'[u] => marks[u] /\ u # t
    BY <2>1, <2>2, OfModule
  <2>4. /\ held' \in [Modules -> Seq(Tasks)] /\ held'[m] = h
        /\ \A k \in Modules \ {m} : held'[k] = held[k]
    BY <2>1, <2>2, OfModule
  <2>5. at' = [at EXCEPT ![m] = "unwind"]
    BY <1>1, <2>1, OfModule
  <2> QED BY <1>1, <2>2, <2>3, <2>4, <2>5, OfModule, TurnKeeps DEF ModulePlaces
<1> QED BY <1>2, <1>3
-----------------------------------------------------------------------------
(* The theorems. *)

LEMMA InitInv == Init => Inv
<1> SUFFICES ASSUME Init PROVE Inv
  OBVIOUS
<1>1. Typed
  <2>1. <<>> \in Seq(Tasks) /\ <<>> \in Seq(Calls)
    OBVIOUS
  <2> QED BY <2>1 DEF Init, Typed, ModulePlaces
<1>2. ASSUME NEW m \in Modules
      PROVE  at[m] = "idle" /\ stack[m] = <<>> /\ Active(m) = {} /\ Chain(m) = {}
  BY DEF Init, Active, Chain
<1>3. ASSUME NEW m \in Modules PROVE ModuleInv(m)
  <2>1. DOMAIN stack[m] = {}
    BY <1>2
  <2> QED BY <1>2, <2>1
          DEF ModuleInv, AtStep, OnTop, Sequential, AboutToMark, ChainMarked, Once
<1>4. InTurn
  BY <1>2 DEF InTurn
<1>5. MarksHaveOwners
  BY DEF Init, MarksHaveOwners
<1> QED BY <1>1, <1>3, <1>4, <1>5 DEF Inv

LEMMA StutterInv == Inv /\ UNCHANGED vars => Inv'
<1> SUFFICES ASSUME Inv, UNCHANGED vars PROVE Inv'
  OBVIOUS
<1> USE DEF vars, frozen
<1>1. Typed' /\ InTurn'
  BY DEF Inv, Typed, InTurn
<1>2. ASSUME NEW m \in Modules
      PROVE  Chain(m)' = Chain(m) /\ Active(m)' = Active(m) /\ Current(m)' = Current(m)
  BY DEF Chain, Active, Current, Steps
<1>3. ASSUME NEW m \in Modules PROVE ModuleInv(m)'
  <2>1. AtStep(m) /\ OnTop(m) /\ Sequential(m) /\ Steps(m)' = Steps(m)
    BY DEF Inv, ModuleInv, Steps
  <2>2. AtStep(m)' /\ OnTop(m)'
    BY <1>2, <2>1 DEF AtStep, OnTop
  <2>3. Sequential(m)'
    BY <1>2, <2>1 DEF Sequential, AboutToMark, ChainMarked, Once
  <2> QED BY <2>2, <2>3 DEF ModuleInv
<1>4. MarksHaveOwners'
  BY <1>2 DEF Inv, MarksHaveOwners
<1> QED BY <1>1, <1>3, <1>4 DEF Inv

\* The marks, the calls and the turns of the modules belong together, whatever the project,
\* in every state of RunSteps and runAfterTasks.
THEOREM Invariance == Spec => []Inv
<1>1. Inv /\ [Next]_vars => Inv'
  <2> SUFFICES ASSUME Inv, [Next]_vars PROVE Inv'
    OBVIOUS
  <2>1. CASE UNCHANGED vars
    BY <2>1, StutterInv
  <2>2. ASSUME NEW m \in Modules, Module(m) PROVE Inv'
    BY <2>2, StartKeeps, BuildDefinedKeeps, NextStepKeeps, MarkStepKeeps, StepReturnsKeeps,
       UnwindKeeps, DefineKeeps, CheckKeeps, MarkKeeps, RunReferencedKeeps, UnmarkKeeps,
       RunReturnsKeeps DEF Module
  <2> QED BY <2>1, <2>2 DEF Next, Finished
<1> QED BY InitInv, <1>1, PTL DEF Spec

\* No way through RunSteps, runAfterTasks and extTask leaves a task marked for good, for any
\* project and any number of modules, in parallel or not.
THEOREM EveryMarkHasAnOwner == Spec => []MarksHaveOwners
<1>1. Inv => MarksHaveOwners
  BY DEF Inv
<1> QED BY Invariance, <1>1, PTL

\* Where one module runs at a time no task is executed inside itself, and what is in the call
\* chain is marked, for any project, however its definitions and conditions refer to each
\* other (template.go: recursion is not allowed).
THEOREM NoTaskInsideItself == Spec => []SequentialChain
<1>1. Inv => SequentialChain
  <2> SUFFICES ASSUME Inv, ~parallel PROVE NoRecursion /\ \A m \in Modules : ChainMarked(m)
    BY DEF SequentialChain, ChainMarked
  <2>1. \A m \in Modules : ChainMarked(m) /\ Once(m)
    BY DEF Inv, ModuleInv, Sequential
  <2> QED BY <2>1 DEF NoRecursion, Once
<1> QED BY Invariance, <1>1, PTL
==============================================================================
