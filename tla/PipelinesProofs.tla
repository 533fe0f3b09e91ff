--------------------------- MODULE PipelinesProofs ---------------------------
(***************************************************************************)
(* Proofs about Pipelines for any configuration, names and processes: the  *)
(* container of a step stays, no container is forgotten, a sequential run  *)
(* runs what it is asked for in order, and the environment is carried      *)
(* along a script.                                                         *)
(***************************************************************************)
EXTENDS Pipelines, FiniteSetTheorems, WellFoundedInduction, TLAPS

Places == {"idle", "queued", "start", "remove", "create", "script", "pipe start", "pipe remove",
           "pipe create", "pipe", "pipe end", "close", "leave", "done", "failed"}
ProcessPlaces == {"idle", "started", "steps", "in step", "done", "exited"}
PlanItem == [step : Steps, async : BOOLEAN]
Every == Processes \X Steps \X Items

Typed ==
  /\ scenario \in Scenarios
  /\ pc \in [Processes -> ProcessPlaces]
  /\ plan \in [Processes -> Seq(PlanItem)] /\ next \in [Processes -> Nat \ {0}]
  /\ cancelled \subseteq Processes
  /\ at \in [Job -> Places] /\ item \in [Job -> Nat \ {0}]
  /\ containers \subseteq Every /\ abandoned \subseteq Every

\* A step is started once: it is idle as long as it is ahead in the plan.
Planned(p) ==
  /\ \A k, l \in DOMAIN plan[p] : plan[p][k].step = plan[p][l].step => k = l
  /\ pc[p] \in {"idle", "started"} => \A s \in Steps : at[<<p, s>>] = "idle"
  /\ pc[p] # "exited" => \A s \in Steps : at[<<p, s>>] # "idle" =>
       \E k \in DOMAIN plan[p] :
         plan[p][k].step = s /\ (k < next[p] \/ (k = next[p] /\ pc[p] # "steps"))

\* Where a step is at work on a pipe, or has come to the end of the pipe.
AtPipe(p, s) ==
  at[<<p, s>>] \in {"pipe remove", "pipe create", "pipe", "pipe end"} =>
    item[<<p, s>>] \in DOMAIN Script[s] /\ Script[s][item[<<p, s>>]].kind = "pipe"

\* What a step has not created yet nobody has abandoned.
Ahead == {"idle", "queued", "start", "remove", "create"}
Behind == {"close", "leave", "done", "failed"}
Fresh(p, s) ==
  pc[p] # "exited" =>
    /\ at[<<p, s>>] \in Ahead => <<p, s, 0>> \notin abandoned
    /\ \A i \in Items :
         i > item[<<p, s>>] \/ (i = item[<<p, s>>] /\ at[<<p, s>>] \notin Behind)
         => <<p, s, i>> \notin abandoned

Stays(p, s) ==
  /\ Lives(p) /\ at[<<p, s>>] \in Working \ {"close", "leave"}
  /\ Rivals(p, s) = {}
  => <<p, s, 0>> \in containers

Owed == Held \union abandoned
Of(C, id) == {c \in C : RunID(c) = id}

\* Each container is matched by one that somebody owes, or that was abandoned.
Counted == \A id : Cardinality(Of(containers, id)) <= Cardinality(Of(Owed, id))

StepInv == \A p \in Processes, s \in Steps : AtPipe(p, s) /\ Fresh(p, s) /\ Stays(p, s)

Inv == Typed /\ (\A p \in Processes : Planned(p)) /\ StepInv /\ Counted
-----------------------------------------------------------------------------
(* Sequences. *)

\* Induction, for the sets of numbers that the lemmas on sequences need.
LEMMA NumbersAfterEachOther ==
  ASSUME NEW S, 0 \in S, \A n \in Nat : n \in S => n + 1 \in S
  PROVE  Nat \subseteq S
<1> SUFFICES ASSUME Nat \ S # {} PROVE FALSE
  OBVIOUS
<1>1. PICK n \in Nat \ S : \A m \in Nat \ S : <<m, n>> \notin OpToRel(<, Nat)
  BY WFMin, NatLessThanWellFounded
<1>2. \A m \in Nat \ S : ~ (m < n)
  BY <1>1 DEF OpToRel
<1>3. n # 0 /\ n - 1 \in Nat
  OBVIOUS
<1>4. n - 1 \in S
  BY <1>2, <1>3
<1>5. (n - 1) + 1 \in S
  BY <1>3, <1>4
<1> QED BY <1>3, <1>5

\* What FlattenSeq recurs on.
IsFlattening(f, seqs, n) ==
  f = [i \in 1..n |-> IF i = 1 THEN seqs[i] ELSE f[i - 1] \o seqs[i]]

LEMMA FlatteningExists ==
  ASSUME NEW T, NEW seqs \in Seq(Seq(T))
  PROVE  \E f \in [1..Len(seqs) -> Seq(T)] : IsFlattening(f, seqs, Len(seqs))
<1> DEFINE S == {n \in Nat : n <= Len(seqs) => \E f \in [1..n -> Seq(T)] : IsFlattening(f, seqs, n)}
<1>1. 0 \in S
  <2>1. [i \in 1..0 |-> <<>>] \in [1..0 -> Seq(T)]
    OBVIOUS
  <2>2. IsFlattening([i \in 1..0 |-> <<>>], seqs, 0)
    BY DEF IsFlattening
  <2> QED BY <2>1, <2>2
<1>2. ASSUME NEW n \in Nat, n \in S PROVE n + 1 \in S
  <2> SUFFICES ASSUME n + 1 <= Len(seqs)
               PROVE  \E f \in [1..(n + 1) -> Seq(T)] : IsFlattening(f, seqs, n + 1)
    OBVIOUS
  <2>1. PICK f \in [1..n -> Seq(T)] : IsFlattening(f, seqs, n)
    BY <1>2
  <2>0. \A i \in 1..n : f[i] = IF i = 1 THEN seqs[i] ELSE f[i - 1] \o seqs[i]
    BY <2>1 DEF IsFlattening
  <2> DEFINE g == [i \in 1..(n + 1) |-> IF i <= n THEN f[i]
                     ELSE IF i = 1 THEN seqs[i] ELSE f[i - 1] \o seqs[i]]
  <2>2. \A i \in 1..(n + 1) : seqs[i] \in Seq(T)
    OBVIOUS
  <2>3. g \in [1..(n + 1) -> Seq(T)]
    <3> SUFFICES ASSUME NEW i \in 1..(n + 1) PROVE g[i] \in Seq(T)
      OBVIOUS
    <3>1. CASE i <= n
      BY <3>1
    <3>2. CASE i > n /\ i = 1
      BY <2>2, <3>2
    <3>3. CASE i > n /\ i # 1
      <4>1. f[i - 1] \in Seq(T)
        BY <3>3
      <4> QED BY <2>2, <3>3, <4>1
    <3> QED BY <3>1, <3>2, <3>3
  <2>4. \A i \in 1..(n + 1) : g[i] = IF i = 1 THEN seqs[i] ELSE g[i - 1] \o seqs[i]
    <3> TAKE i \in 1..(n + 1)
    <3>1. CASE i <= n
      <4>1. f[i] = IF i = 1 THEN seqs[i] ELSE f[i - 1] \o seqs[i]
        <5>1. i \in 1..n
          BY <3>1
        <5> QED BY <2>0, <5>1
      <4>2. i # 1 => i - 1 \in 1..(n + 1) /\ i - 1 <= n
        OBVIOUS
      <4>3. i # 1 => g[i - 1] = f[i - 1]
        BY <4>2
      <4>4. g[i] = f[i]
        BY <3>1
      <4> HIDE DEF g
      <4> QED BY <4>1, <4>3, <4>4
    <3>2. CASE i > n
      <4>1. i # 1 => i - 1 \in 1..(n + 1) /\ i - 1 <= n
        OBVIOUS
      <4>2. i # 1 => g[i - 1] = f[i - 1]
        BY <4>1
      <4>3. g[i] = IF i = 1 THEN seqs[i] ELSE f[i - 1] \o seqs[i]
        BY <3>2
      <4> HIDE DEF g
      <4> QED BY <4>2, <4>3
    <3> QED BY <3>1, <3>2
  <2>5. g = [i \in 1..(n + 1) |-> IF i = 1 THEN seqs[i] ELSE g[i - 1] \o seqs[i]]
    BY <2>4
  <2>6. IsFlattening(g, seqs, n + 1)
    BY <2>5 DEF IsFlattening
  <2> QED BY <2>3, <2>6
<1>3. Nat \subseteq S
  <2> HIDE DEF S
  <2> QED BY <1>1, <1>2, NumbersAfterEachOther
<1>4. Len(seqs) \in S
  BY <1>3
<1> QED BY <1>4

\* flat has what the first n of seqs have, in their order.
Flat(flat, seqs, n) ==
  /\ \A g \in 1..n : \A k \in DOMAIN seqs[g] : \E a \in DOMAIN flat : flat[a] = seqs[g][k]
  /\ \A a \in DOMAIN flat : \E g \in 1..n : \E k \in DOMAIN seqs[g] : flat[a] = seqs[g][k]
  /\ \A a, b \in DOMAIN flat : a < b =>
       \E g, h \in 1..n : \E k \in DOMAIN seqs[g], l \in DOMAIN seqs[h] :
         /\ flat[a] = seqs[g][k] /\ flat[b] = seqs[h][l]
         /\ g < h \/ (g = h /\ k < l)

LEMMA FlatOne ==
  ASSUME NEW T, NEW seqs \in Seq(Seq(T)), 1 <= Len(seqs)
  PROVE  Flat(seqs[1], seqs, 1)
<1>1. 1 \in 1..1 /\ \A g \in 1..1 : g = 1
  OBVIOUS
<1> QED BY <1>1 DEF Flat

LEMMA FlatMore ==
  ASSUME NEW T, NEW seqs \in Seq(Seq(T)), NEW n \in Nat, 1 <= n, n + 1 <= Len(seqs),
         NEW flat \in Seq(T), Flat(flat, seqs, n)
  PROVE  Flat(flat \o seqs[n + 1], seqs, n + 1)
<1> DEFINE more == seqs[n + 1]
           both == flat \o more
<1>1. n + 1 \in DOMAIN seqs /\ more \in Seq(T)
  OBVIOUS
<1>2. /\ DOMAIN flat = 1..Len(flat) /\ DOMAIN more = 1..Len(more)
      /\ Len(flat) \in Nat /\ Len(more) \in Nat
      /\ DOMAIN both = 1..(Len(flat) + Len(more))
  BY <1>1
<1>3. \A a \in DOMAIN flat : a \in DOMAIN both /\ both[a] = flat[a]
  BY <1>1, <1>2
<1>4. \A k \in DOMAIN more : Len(flat) + k \in DOMAIN both /\ both[Len(flat) + k] = more[k]
  BY <1>1, <1>2
<1>5. \A a \in DOMAIN both : a \notin DOMAIN flat =>
        a - Len(flat) \in DOMAIN more /\ both[a] = more[a - Len(flat)]
  BY <1>1, <1>2
<1> HIDE DEF both
<1>6. 1..n \subseteq 1..(n + 1) /\ n + 1 \in 1..(n + 1)
  OBVIOUS
<1>7. ASSUME NEW g \in 1..(n + 1), NEW k \in DOMAIN seqs[g]
      PROVE  \E a \in DOMAIN both : both[a] = seqs[g][k]
  <2>1. CASE g \in 1..n
    <3>1. PICK a \in DOMAIN flat : flat[a] = seqs[g][k]
      BY <2>1 DEF Flat
    <3> QED BY <1>3, <3>1
  <2>2. CASE g = n + 1
    BY <1>4, <2>2
  <2> QED BY <2>1, <2>2
<1>8. ASSUME NEW a \in DOMAIN both
      PROVE  \E g \in 1..(n + 1) : \E k \in DOMAIN seqs[g] : both[a] = seqs[g][k]
  <2>1. CASE a \in DOMAIN flat
    <3>1. PICK g \in 1..n : \E k \in DOMAIN seqs[g] : flat[a] = seqs[g][k]
      BY <2>1 DEF Flat
    <3> QED BY <1>3, <1>6, <2>1, <3>1
  <2>2. CASE a \notin DOMAIN flat
    BY <1>5, <1>6, <2>2
  <2> QED BY <2>1, <2>2
<1>9. ASSUME NEW a \in DOMAIN both, NEW b \in DOMAIN both, a < b
      PROVE  \E g, h \in 1..(n + 1) : \E k \in DOMAIN seqs[g], l \in DOMAIN seqs[h] :
               /\ both[a] = seqs[g][k] /\ both[b] = seqs[h][l]
               /\ g < h \/ (g = h /\ k < l)
  <2>1. CASE b \in DOMAIN flat
    <3>1. a \in DOMAIN flat
      BY <1>2, <1>9, <2>1
    <3>2. PICK g \in 1..n, h \in 1..n : \E k \in DOMAIN seqs[g], l \in DOMAIN seqs[h] :
               /\ flat[a] = seqs[g][k] /\ flat[b] = seqs[h][l]
               /\ g < h \/ (g = h /\ k < l)
      BY <1>9, <2>1, <3>1 DEF Flat
    <3>3. both[a] = flat[a] /\ both[b] = flat[b]
      BY <1>3, <2>1, <3>1
    <3>4. g \in 1..(n + 1) /\ h \in 1..(n + 1)
      BY <1>6
    <3> QED BY <3>2, <3>3, <3>4
  <2>2. CASE b \notin DOMAIN flat /\ a \in DOMAIN flat
    <3>1. PICK g \in 1..n : \E k \in DOMAIN seqs[g] : flat[a] = seqs[g][k]
      BY <2>2 DEF Flat
    <3>2. b - Len(flat) \in DOMAIN seqs[n + 1] /\ both[b] = seqs[n + 1][b - Len(flat)]
      BY <1>5, <2>2
    <3>3. g \in 1..(n + 1) /\ g < n + 1
      BY <1>6
    <3> QED BY <1>3, <1>6, <2>2, <3>1, <3>2, <3>3
  <2>3. CASE b \notin DOMAIN flat /\ a \notin DOMAIN flat
    <3>1. /\ a - Len(flat) \in DOMAIN seqs[n + 1] /\ both[a] = seqs[n + 1][a - Len(flat)]
          /\ b - Len(flat) \in DOMAIN seqs[n + 1] /\ both[b] = seqs[n + 1][b - Len(flat)]
      BY <1>5, <2>3
    <3>2. a - Len(flat) < b - Len(flat)
      BY <1>2, <1>9
    <3> QED BY <1>6, <3>1, <3>2
  <2>4. b \in DOMAIN flat => a \in DOMAIN flat
    BY <1>2, <1>9
  <2> QED BY <2>1, <2>2, <2>3, <2>4
<1>10. Flat(both, seqs, n + 1)
  BY <1>7, <1>8, <1>9 DEF Flat
<1> QED BY <1>10 DEF both

LEMMA Flattened ==
  ASSUME NEW T, NEW seqs \in Seq(Seq(T))
  PROVE  FlattenSeq(seqs) \in Seq(T) /\ Flat(FlattenSeq(seqs), seqs, Len(seqs))
<1> DEFINE flatten == CHOOSE f : IsFlattening(f, seqs, Len(seqs))
<1>1. CASE Len(seqs) = 0
  <2>1. seqs = <<>> /\ FlattenSeq(seqs) = seqs
    BY <1>1 DEF FlattenSeq
  <2>2. <<>> \in Seq(T) /\ DOMAIN <<>> = {} /\ 1..0 = {}
    OBVIOUS
  <2>3. Flat(<<>>, seqs, 0)
    BY <2>2 DEF Flat
  <2> QED BY <1>1, <2>1, <2>2, <2>3
<1>2. CASE Len(seqs) # 0
  <2>1. FlattenSeq(seqs) = flatten[Len(seqs)]
    BY <1>2 DEF FlattenSeq, IsFlattening
  <2>2. IsFlattening(flatten, seqs, Len(seqs))
    BY FlatteningExists
  <2> HIDE DEF flatten
  <2>3. \A i \in 1..Len(seqs) :
          flatten[i] = IF i = 1 THEN seqs[i] ELSE flatten[i - 1] \o seqs[i]
    BY <2>2 DEF IsFlattening
  <2> DEFINE S == {n \in Nat : n + 1 <= Len(seqs) =>
                     flatten[n + 1] \in Seq(T) /\ Flat(flatten[n + 1], seqs, n + 1)}
  <2>4. 0 \in S
    BY <1>2, <2>3, FlatOne
  <2>5. ASSUME NEW n \in Nat, n \in S PROVE n + 1 \in S
    <3> SUFFICES ASSUME (n + 1) + 1 <= Len(seqs)
                 PROVE  /\ flatten[(n + 1) + 1] \in Seq(T)
                        /\ Flat(flatten[(n + 1) + 1], seqs, (n + 1) + 1)
      OBVIOUS
    <3>1. flatten[n + 1] \in Seq(T) /\ Flat(flatten[n + 1], seqs, n + 1)
      BY <2>5
    <3>2. flatten[(n + 1) + 1] = flatten[n + 1] \o seqs[(n + 1) + 1]
      <4>1. /\ (n + 1) + 1 \in 1..Len(seqs) /\ (n + 1) + 1 # 1
            /\ ((n + 1) + 1) - 1 = n + 1
        OBVIOUS
      <4> QED BY <2>3, <4>1
    <3>3. n + 1 \in Nat /\ 1 <= n + 1 /\ seqs[(n + 1) + 1] \in Seq(T)
      OBVIOUS
    <3> QED BY <3>1, <3>2, <3>3, FlatMore
  <2>6. Nat \subseteq S
    <3> HIDE DEF S
    <3> QED BY <2>4, <2>5, NumbersAfterEachOther
  <2>7. Len(seqs) - 1 \in Nat /\ (Len(seqs) - 1) + 1 = Len(seqs)
    BY <1>2
  <2>8. \A n \in Nat : n + 1 <= Len(seqs) =>
          flatten[n + 1] \in Seq(T) /\ Flat(flatten[n + 1], seqs, n + 1)
    BY <2>6
  <2>9. flatten[Len(seqs)] \in Seq(T) /\ Flat(flatten[Len(seqs)], seqs, Len(seqs))
    <3> DEFINE n == Len(seqs) - 1
    <3>1. n \in Nat /\ n + 1 = Len(seqs) /\ n + 1 <= Len(seqs)
      BY <2>7
    <3> HIDE DEF n
    <3>2. flatten[n + 1] \in Seq(T) /\ Flat(flatten[n + 1], seqs, n + 1)
      BY <2>8, <3>1
    <3> QED BY <3>1, <3>2
  <2> QED BY <2>1, <2>9
<1> QED BY <1>1, <1>2
-----------------------------------------------------------------------------
(* Plans. *)

LEMMA GroupsAre ==
  ASSUME NEW x
  PROVE  /\ DOMAIN Groups(x) = 1..Len(Groups(x)) /\ Len(Groups(x)) \in Nat
         /\ \A g \in DOMAIN Groups(x) : Groups(x)[g].steps \in Seq(Steps)
         /\ \A g, h \in DOMAIN Groups(x) :
              \A k \in DOMAIN Groups(x)[g].steps, l \in DOMAIN Groups(x)[h].steps :
                Groups(x)[g].steps[k] = Groups(x)[h].steps[l] => g = h /\ k = l
<1> DEFINE b == IF Branch(x) \in DOMAIN Branches THEN Branch(x) ELSE "default"
<1>1. b \in DOMAIN Branches /\ Groups(x) = Branches[b]
  BY ConstantsAssumption DEF Groups
<1> HIDE DEF b
<1> DEFINE groups == Branches[b]
           G == [parallel : BOOLEAN, steps : Seq(Steps)]
<1>2. /\ groups \in Seq(G)
      /\ \A g, h \in DOMAIN groups :
           \A k \in DOMAIN groups[g].steps, l \in DOMAIN groups[h].steps :
             groups[g].steps[k] = groups[h].steps[l] => g = h /\ k = l
  BY <1>1, BranchesAssumption
<1>3. \A r \in G : r.steps \in Seq(Steps)
  OBVIOUS
<1> HIDE DEF groups, G
<1>4. /\ DOMAIN groups = 1..Len(groups) /\ Len(groups) \in Nat
      /\ \A g \in DOMAIN groups : groups[g] \in G
  BY <1>2
<1> QED BY <1>1, <1>2, <1>3, <1>4 DEF groups

\* A step has one place in the configuration, thus nothing precedes what it follows.
LEMMA PrecedesIsStrict ==
  ASSUME NEW x, NEW s, NEW t, Precedes(x, s, t)
  PROVE  ~Precedes(x, t, s)
<1> DEFINE groups == Groups(x)
<1>1. /\ DOMAIN groups = 1..Len(groups) /\ Len(groups) \in Nat
      /\ \A g \in DOMAIN groups : groups[g].steps \in Seq(Steps)
  BY GroupsAre
<1>2. \A g, h \in DOMAIN groups : \A k \in DOMAIN groups[g].steps, l \in DOMAIN groups[h].steps :
        groups[g].steps[k] = groups[h].steps[l] => g = h /\ k = l
  BY GroupsAre
<1> HIDE DEF groups
<1>3. PICK g \in DOMAIN groups, h \in DOMAIN groups :
        \E k \in DOMAIN groups[g].steps, l \in DOMAIN groups[h].steps :
          /\ groups[g].steps[k] = s /\ groups[h].steps[l] = t
          /\ g < h \/ (g = h /\ k < l)
  BY DEF Precedes, groups
<1>4. PICK k \in DOMAIN groups[g].steps, l \in DOMAIN groups[h].steps :
        /\ groups[g].steps[k] = s /\ groups[h].steps[l] = t
        /\ g < h \/ (g = h /\ k < l)
  BY <1>3
<1> SUFFICES ASSUME Precedes(x, t, s) PROVE FALSE
  OBVIOUS
<1>5. PICK g2 \in DOMAIN groups, h2 \in DOMAIN groups :
        \E k2 \in DOMAIN groups[g2].steps, l2 \in DOMAIN groups[h2].steps :
          /\ groups[g2].steps[k2] = t /\ groups[h2].steps[l2] = s
          /\ g2 < h2 \/ (g2 = h2 /\ k2 < l2)
  BY DEF Precedes, groups
<1>6. PICK k2 \in DOMAIN groups[g2].steps, l2 \in DOMAIN groups[h2].steps :
        /\ groups[g2].steps[k2] = t /\ groups[h2].steps[l2] = s
        /\ g2 < h2 \/ (g2 = h2 /\ k2 < l2)
  BY <1>5
<1>7. g2 = h /\ k2 = l /\ h2 = g /\ l2 = k
  BY <1>2, <1>4, <1>6
<1>8. /\ g \in Int /\ h \in Int
      /\ groups[g].steps \in Seq(Steps) /\ groups[h].steps \in Seq(Steps)
  BY <1>1
<1>9. k \in Int /\ l \in Int
  BY <1>8
<1> QED BY <1>4, <1>6, <1>7, <1>8, <1>9

\* The steps of all groups, one after the other.
LEMMA AllStepsOf ==
  ASSUME NEW x
  PROVE  LET seqs == [g \in DOMAIN Groups(x) |-> Groups(x)[g].steps]
             all == FlattenSeq(seqs) IN
         /\ all \in Seq(Steps)
         /\ \A s : (\E k \in DOMAIN all : all[k] = s)
                   <=> \E g \in ToSet(Groups(x)) : s \in ToSet(g.steps)
         /\ \A a, b \in DOMAIN all : a < b => Precedes(x, all[a], all[b])
<1> DEFINE groups == Groups(x)
           seqs == [g \in DOMAIN groups |-> groups[g].steps]
           all == FlattenSeq(seqs)
<1>1. /\ DOMAIN groups = 1..Len(groups) /\ Len(groups) \in Nat
      /\ \A g \in DOMAIN groups : groups[g].steps \in Seq(Steps)
  BY GroupsAre
<1>2. seqs \in Seq(Seq(Steps)) /\ Len(seqs) = Len(groups) /\ DOMAIN groups = 1..Len(groups)
  BY <1>1
<1>3. all \in Seq(Steps) /\ Flat(all, seqs, Len(seqs))
  BY <1>2, Flattened
<1>4. \A g \in 1..Len(seqs) : g \in DOMAIN groups /\ seqs[g] = groups[g].steps
  BY <1>2
<1> HIDE DEF all
<1>5. ASSUME NEW k \in DOMAIN all
      PROVE  \E g \in ToSet(groups) : all[k] \in ToSet(g.steps)
  <2>1. PICK g \in 1..Len(seqs) : \E l \in DOMAIN seqs[g] : all[k] = seqs[g][l]
    BY <1>3 DEF Flat
  <2>2. PICK l \in DOMAIN seqs[g] : all[k] = seqs[g][l]
    BY <2>1
  <2>3. g \in DOMAIN groups /\ l \in DOMAIN groups[g].steps /\ all[k] = groups[g].steps[l]
    BY <1>4, <2>2
  <2>4. groups[g] \in ToSet(groups) /\ all[k] \in ToSet(groups[g].steps)
    BY <2>3 DEF ToSet
  <2> QED BY <2>4
<1>6. ASSUME NEW g \in ToSet(groups), NEW s \in ToSet(g.steps)
      PROVE  \E k \in DOMAIN all : all[k] = s
  <2>1. PICK i \in DOMAIN groups : g = groups[i]
    BY DEF ToSet
  <2>2. PICK l \in DOMAIN groups[i].steps : s = groups[i].steps[l]
    BY <2>1 DEF ToSet
  <2>3. i \in 1..Len(seqs) /\ l \in DOMAIN seqs[i] /\ s = seqs[i][l]
    BY <1>2, <2>2
  <2> HIDE DEF seqs
  <2>4. PICK k \in DOMAIN all : all[k] = seqs[i][l]
    BY <1>3, <2>3 DEF Flat
  <2> QED BY <2>3, <2>4
<1>7. ASSUME NEW a \in DOMAIN all, NEW b \in DOMAIN all, a < b
      PROVE  Precedes(x, all[a], all[b])
  <2> HIDE DEF seqs
  <2>1. PICK g \in 1..Len(seqs), h \in 1..Len(seqs) :
          \E k \in DOMAIN seqs[g], l \in DOMAIN seqs[h] :
            /\ all[a] = seqs[g][k] /\ all[b] = seqs[h][l]
            /\ g < h \/ (g = h /\ k < l)
    BY <1>3, <1>7 DEF Flat
  <2> QED BY <1>4, <2>1 DEF Precedes
<1> QED BY <1>3, <1>5, <1>6, <1>7 DEF all

LEMMA PlanOfCommand ==
  ASSUME NEW x, x.cli = TRUE
  PROVE  LET list == PlanOf(x) IN
         /\ list \in Seq(PlanItem)
         /\ \A s : (\E k \in DOMAIN list : list[k].step = s) <=> Chosen(x, s)
         /\ \A a, b \in DOMAIN list : a < b => Precedes(x, list[a].step, list[b].step)
<1> DEFINE all == FlattenSeq([g \in DOMAIN Groups(x) |-> Groups(x)[g].steps])
           pieces == [k \in DOMAIN all |-> IF x.step \in {"all", all[k]} THEN <<all[k]>> ELSE <<>>]
           chosen == FlattenSeq(pieces)
           list == PlanOf(x)
<1>1. /\ all \in Seq(Steps)
      /\ \A s : (\E k \in DOMAIN all : all[k] = s)
                <=> \E g \in ToSet(Groups(x)) : s \in ToSet(g.steps)
      /\ \A a, b \in DOMAIN all : a < b => Precedes(x, all[a], all[b])
  BY AllStepsOf
<1> HIDE DEF all
<1>2. DOMAIN all = 1..Len(all) /\ Len(all) \in Nat
  BY <1>1
<1>3. \A k \in DOMAIN all : pieces[k] \in Seq(Steps) /\ DOMAIN pieces[k] \subseteq {1}
  BY <1>1
<1>4. pieces \in Seq(Seq(Steps)) /\ Len(pieces) = Len(all)
  BY <1>2, <1>3
<1>5. chosen \in Seq(Steps) /\ Flat(chosen, pieces, Len(pieces))
  BY <1>4, Flattened
<1>6. list = [k \in DOMAIN chosen |-> [step |-> chosen[k], async |-> FALSE]]
  BY DEF PlanOf, filterSteps, all
<1>7. \A g \in 1..Len(pieces) : \A k \in DOMAIN pieces[g] :
        g \in DOMAIN all /\ k = 1 /\ pieces[g][k] = all[g] /\ x.step \in {"all", all[g]}
  BY <1>2, <1>3, <1>4
<1>8. \A g \in DOMAIN all : x.step \in {"all", all[g]} =>
        g \in 1..Len(pieces) /\ 1 \in DOMAIN pieces[g] /\ pieces[g][1] = all[g]
  BY <1>2, <1>4
<1> HIDE DEF chosen, pieces, list
<1>9. list \in Seq(PlanItem) /\ DOMAIN list = DOMAIN chosen
  <2>1. DOMAIN chosen = 1..Len(chosen) /\ Len(chosen) \in Nat
    BY <1>5
  <2>2. \A k \in DOMAIN chosen : [step |-> chosen[k], async |-> FALSE] \in PlanItem
    BY <1>5 DEF PlanItem
  <2> QED BY <1>6, <2>1, <2>2
<1>10. \A k \in DOMAIN list : list[k].step = chosen[k]
  BY <1>6, <1>9
<1>11. ASSUME NEW k \in DOMAIN list PROVE Chosen(x, list[k].step)
  <2>1. PICK g \in 1..Len(pieces) : \E l \in DOMAIN pieces[g] : chosen[k] = pieces[g][l]
    BY <1>5, <1>9 DEF Flat
  <2>2. g \in DOMAIN all /\ list[k].step = all[g] /\ x.step \in {"all", all[g]}
    BY <1>7, <1>10, <2>1
  <2> QED BY <1>1, <2>2 DEF Chosen
<1>12. ASSUME NEW s, Chosen(x, s) PROVE \E k \in DOMAIN list : list[k].step = s
  <2>1. PICK g \in DOMAIN all : all[g] = s
    BY <1>1, <1>12 DEF Chosen
  <2>2. g \in 1..Len(pieces) /\ 1 \in DOMAIN pieces[g] /\ pieces[g][1] = s
    BY <1>8, <1>12, <2>1 DEF Chosen
  <2>3. PICK k \in DOMAIN chosen : chosen[k] = s
    BY <1>5, <2>2 DEF Flat
  <2> QED BY <1>9, <1>10, <2>3
<1>13. ASSUME NEW a \in DOMAIN list, NEW b \in DOMAIN list, a < b
       PROVE  Precedes(x, list[a].step, list[b].step)
  <2>1. PICK g \in 1..Len(pieces), h \in 1..Len(pieces) :
          \E k \in DOMAIN pieces[g], l \in DOMAIN pieces[h] :
            /\ chosen[a] = pieces[g][k] /\ chosen[b] = pieces[h][l]
            /\ g < h \/ (g = h /\ k < l)
    BY <1>5, <1>9, <1>13 DEF Flat
  <2>2. PICK k \in DOMAIN pieces[g], l \in DOMAIN pieces[h] :
            /\ chosen[a] = pieces[g][k] /\ chosen[b] = pieces[h][l]
            /\ g < h \/ (g = h /\ k < l)
    BY <2>1
  <2>3. k = 1 /\ l = 1 /\ g \in DOMAIN all /\ h \in DOMAIN all
    BY <1>7, <2>2
  <2>4. g < h /\ chosen[a] = all[g] /\ chosen[b] = all[h]
    BY <1>7, <2>2, <2>3
  <2> QED BY <1>1, <1>10, <2>3, <2>4
<1> QED BY <1>9, <1>11, <1>12, <1>13 DEF list

LEMMA PlanOfApi ==
  ASSUME NEW x, x.cli = FALSE
  PROVE  LET list == PlanOf(x) IN
         /\ list \in Seq(PlanItem)
         /\ \A s : (\E k \in DOMAIN list : list[k].step = s) <=> Chosen(x, s)
         /\ \A a, b \in DOMAIN list : a < b => Precedes(x, list[a].step, list[b].step)
<1> DEFINE groups == Groups(x)
           seqs == [g \in DOMAIN groups |->
                      [k \in DOMAIN groups[g].steps |->
                         [step |-> groups[g].steps[k], async |-> groups[g].parallel /\ x.parallel]]]
           list == PlanOf(x)
<1>1. /\ DOMAIN groups = 1..Len(groups) /\ Len(groups) \in Nat
      /\ \A g \in DOMAIN groups : groups[g].steps \in Seq(Steps)
  BY GroupsAre
<1>3. list = FlattenSeq(seqs)
  BY DEF PlanOf
<1> HIDE DEF groups, list
<1>4. ASSUME NEW g \in DOMAIN groups
      PROVE  /\ seqs[g] \in Seq(PlanItem) /\ DOMAIN seqs[g] = DOMAIN groups[g].steps
             /\ \A k \in DOMAIN seqs[g] : seqs[g][k].step = groups[g].steps[k]
  <2>1. groups[g].steps \in Seq(Steps)
    BY <1>1
  <2> DEFINE async == groups[g].parallel /\ x.parallel
           steps == groups[g].steps
           F == [k \in DOMAIN steps |-> [step |-> steps[k], async |-> async]]
  <2>2. async \in BOOLEAN
    OBVIOUS
  <2>3. seqs[g] = F
    OBVIOUS
  <2> HIDE DEF async, seqs, steps
  <2>4. steps \in Seq(Steps)
    BY <2>1 DEF steps
  <2>5. \A k \in DOMAIN steps : F[k] \in PlanItem /\ F[k].step = steps[k]
    BY <2>2, <2>4 DEF PlanItem
  <2>6. F \in Seq(PlanItem) /\ DOMAIN F = DOMAIN steps
    <3>1. DOMAIN steps = 1..Len(steps) /\ Len(steps) \in Nat
      BY <2>4
    <3> QED BY <2>5, <3>1
  <2> HIDE DEF F
  <2> QED BY <2>3, <2>5, <2>6 DEF steps
<1>5. DOMAIN seqs = DOMAIN groups
  OBVIOUS
<1> HIDE DEF seqs
<1>6. seqs \in Seq(Seq(PlanItem)) /\ Len(seqs) = Len(groups)
  <2>1. \A g \in 1..Len(groups) : seqs[g] \in Seq(PlanItem)
    BY <1>1, <1>4
  <2>2. seqs = [g \in 1..Len(groups) |-> seqs[g]]
    BY <1>1 DEF seqs
  <2> QED BY <1>1, <2>1, <2>2
<1>7. list \in Seq(PlanItem) /\ Flat(list, seqs, Len(seqs))
  BY <1>3, <1>6, Flattened
<1>8. ASSUME NEW k \in DOMAIN list PROVE Chosen(x, list[k].step)
  <2>1. PICK g \in 1..Len(seqs) : \E l \in DOMAIN seqs[g] : list[k] = seqs[g][l]
    BY <1>7 DEF Flat
  <2>2. g \in DOMAIN groups
    BY <1>1, <1>6
  <2>3. \E l \in DOMAIN groups[g].steps : list[k].step = groups[g].steps[l]
    BY <1>4, <2>1, <2>2
  <2>4. groups[g] \in ToSet(groups) /\ list[k].step \in ToSet(groups[g].steps)
    BY <2>2, <2>3 DEF ToSet
  <2> QED BY <2>4 DEF Chosen, groups
<1>9. ASSUME NEW s, Chosen(x, s) PROVE \E k \in DOMAIN list : list[k].step = s
  <2>1. PICK g \in DOMAIN groups : s \in ToSet(groups[g].steps)
    BY <1>9 DEF Chosen, ToSet, groups
  <2>2. PICK l \in DOMAIN groups[g].steps : s = groups[g].steps[l]
    BY <2>1 DEF ToSet
  <2>3. g \in 1..Len(seqs) /\ l \in DOMAIN seqs[g] /\ s = seqs[g][l].step
    BY <1>1, <1>4, <1>6, <2>2
  <2>4. PICK k \in DOMAIN list : list[k] = seqs[g][l]
    BY <1>7, <2>3 DEF Flat
  <2> QED BY <2>3, <2>4
<1>10. ASSUME NEW a \in DOMAIN list, NEW b \in DOMAIN list, a < b
       PROVE  Precedes(x, list[a].step, list[b].step)
  <2>1. PICK g \in 1..Len(seqs), h \in 1..Len(seqs) :
          \E k \in DOMAIN seqs[g], l \in DOMAIN seqs[h] :
            /\ list[a] = seqs[g][k] /\ list[b] = seqs[h][l]
            /\ g < h \/ (g = h /\ k < l)
    BY <1>7, <1>10 DEF Flat
  <2>2. g \in DOMAIN groups /\ h \in DOMAIN groups
    BY <1>1, <1>6
  <2>3. \E k \in DOMAIN groups[g].steps, l \in DOMAIN groups[h].steps :
             /\ list[a].step = groups[g].steps[k] /\ list[b].step = groups[h].steps[l]
             /\ g < h \/ (g = h /\ k < l)
    <3>1. PICK k \in DOMAIN seqs[g], l \in DOMAIN seqs[h] :
            /\ list[a] = seqs[g][k] /\ list[b] = seqs[h][l]
            /\ g < h \/ (g = h /\ k < l)
      BY <2>1
    <3>2. /\ k \in DOMAIN groups[g].steps /\ list[a].step = groups[g].steps[k]
          /\ l \in DOMAIN groups[h].steps /\ list[b].step = groups[h].steps[l]
      BY <1>4, <2>2, <3>1
    <3> QED BY <3>1, <3>2
  <2> QED BY <2>2, <2>3 DEF Precedes, groups
<1> QED BY <1>7, <1>8, <1>9, <1>10 DEF list

\* The plan has the steps that are asked for, each once, in the order of the configuration.
LEMMA PlanIs ==
  ASSUME NEW x, x.cli \in BOOLEAN
  PROVE  LET list == PlanOf(x) IN
         /\ list \in Seq(PlanItem)
         /\ \A s : (\E k \in DOMAIN list : list[k].step = s) <=> Chosen(x, s)
         /\ \A a, b \in DOMAIN list : a < b <=> Precedes(x, list[a].step, list[b].step)
         /\ \A a, b \in DOMAIN list : list[a].step = list[b].step => a = b
<1> DEFINE list == PlanOf(x)
<1>1. /\ list \in Seq(PlanItem)
      /\ \A s : (\E k \in DOMAIN list : list[k].step = s) <=> Chosen(x, s)
      /\ \A a, b \in DOMAIN list : a < b => Precedes(x, list[a].step, list[b].step)
  BY PlanOfCommand, PlanOfApi
<1> HIDE DEF list
<1>2. \A k \in DOMAIN list : k \in Int
  BY <1>1
<1>3. ASSUME NEW a \in DOMAIN list, NEW b \in DOMAIN list, list[a].step = list[b].step
      PROVE  a = b
  BY <1>1, <1>2, <1>3, PrecedesIsStrict
<1>4. ASSUME NEW a \in DOMAIN list, NEW b \in DOMAIN list, Precedes(x, list[a].step, list[b].step)
      PROVE  a < b
  BY <1>1, <1>2, <1>4, PrecedesIsStrict
<1> QED BY <1>1, <1>3, <1>4 DEF list

-----------------------------------------------------------------------------
(* Environments. *)

\* What SliceDistinct recurs on.
IsDistinct(f, list, n) ==
  f = [i \in 0..n |->
         IF i = 0 THEN <<>>
         ELSE IF list[i] \in ToSet(f[i - 1]) THEN f[i - 1] ELSE Append(f[i - 1], list[i])]

LEMMA DistinctExists ==
  ASSUME NEW T, NEW list \in Seq(T)
  PROVE  \E f \in [0..Len(list) -> Seq(T)] : IsDistinct(f, list, Len(list))
<1> DEFINE S == {n \in Nat : n <= Len(list) => \E f \in [0..n -> Seq(T)] : IsDistinct(f, list, n)}
<1>1. 0 \in S
  <2> DEFINE g == [i \in 0..0 |-> <<>>]
  <2>1. g \in [0..0 -> Seq(T)]
    OBVIOUS
  <2>2. \A i \in 0..0 : i = 0
    OBVIOUS
  <2>3. IsDistinct(g, list, 0)
    BY <2>2 DEF IsDistinct
  <2> QED BY <2>1, <2>3
<1>2. ASSUME NEW n \in Nat, n \in S PROVE n + 1 \in S
  <2> SUFFICES ASSUME n + 1 <= Len(list)
               PROVE  \E f \in [0..(n + 1) -> Seq(T)] : IsDistinct(f, list, n + 1)
    OBVIOUS
  <2>1. PICK f \in [0..n -> Seq(T)] : IsDistinct(f, list, n)
    BY <1>2
  <2>2. \A i \in 0..n : f[i] = IF i = 0 THEN <<>>
            ELSE IF list[i] \in ToSet(f[i - 1]) THEN f[i - 1] ELSE Append(f[i - 1], list[i])
    BY <2>1 DEF IsDistinct
  <2> DEFINE last == IF list[n + 1] \in ToSet(f[n]) THEN f[n] ELSE Append(f[n], list[n + 1])
             g == [i \in 0..(n + 1) |-> IF i = n + 1 THEN last ELSE f[i]]
  <2>3. list[n + 1] \in T /\ f[n] \in Seq(T)
    OBVIOUS
  <2>4. last \in Seq(T)
    BY <2>3
  <2>5. \A i \in 0..n : i \in 0..(n + 1) /\ i # n + 1 /\ (i # 0 => i - 1 \in 0..n)
    OBVIOUS
  <2>6. n + 1 \in 0..(n + 1) /\ n + 1 # 0 /\ (n + 1) - 1 = n /\ n \in 0..n
    OBVIOUS
  <2>7. \A i \in 0..(n + 1) : i \in 0..n \/ i = n + 1
    OBVIOUS
  <2>8. (\A i \in 0..n : g[i] = f[i]) /\ g[n + 1] = last
    BY <2>5, <2>6
  <2>9. g \in [0..(n + 1) -> Seq(T)]
    BY <2>4, <2>7
  <2>10. g = [i \in 0..(n + 1) |-> g[i]]
    OBVIOUS
  <2> HIDE DEF g
  <2>11. \A i \in 0..(n + 1) : g[i] = IF i = 0 THEN <<>>
             ELSE IF list[i] \in ToSet(g[i - 1]) THEN g[i - 1] ELSE Append(g[i - 1], list[i])
    <3> TAKE i \in 0..(n + 1)
    <3>1. CASE i \in 0..n
      BY <2>2, <2>5, <2>8, <3>1
    <3>2. CASE i = n + 1
      BY <2>6, <2>8, <3>2
    <3> QED BY <2>7, <3>1, <3>2
  <2>12. IsDistinct(g, list, n + 1)
    BY <2>10, <2>11 DEF IsDistinct
  <2> QED BY <2>9, <2>12
<1>3. Nat \subseteq S
  <2> HIDE DEF S
  <2> QED BY <1>1, <1>2, NumbersAfterEachOther
<1> QED BY <1>3

LEMMA ToSetOf ==
  ASSUME NEW T, NEW sq \in Seq(T), NEW e \in T
  PROVE  ToSet(<<>>) = {} /\ ToSet(sq) \subseteq T /\ ToSet(Append(sq, e)) = ToSet(sq) \union {e}
<1> DEFINE more == Append(sq, e)
<1>1. /\ DOMAIN sq = 1..Len(sq) /\ Len(sq) \in Nat /\ DOMAIN more = 1..(Len(sq) + 1)
      /\ more[Len(sq) + 1] = e /\ \A i \in DOMAIN sq : more[i] = sq[i] /\ sq[i] \in T
  OBVIOUS
<1> HIDE DEF more
<1>2. \A i \in DOMAIN more : i \in DOMAIN sq \/ i = Len(sq) + 1
  BY <1>1
<1>3. DOMAIN sq \subseteq DOMAIN more /\ Len(sq) + 1 \in DOMAIN more
  BY <1>1
<1>4. ToSet(more) \subseteq ToSet(sq) \union {e}
  BY <1>1, <1>2 DEF ToSet
<1>5. ToSet(sq) \union {e} \subseteq ToSet(more)
  <2>1. \A i \in DOMAIN sq : sq[i] \in ToSet(more)
    BY <1>1, <1>3 DEF ToSet
  <2>2. e \in ToSet(more)
    BY <1>1, <1>3 DEF ToSet
  <2> QED BY <2>1, <2>2 DEF ToSet
<1>6. ToSet(<<>>) = {}
  <2>1. DOMAIN <<>> = {}
    OBVIOUS
  <2> QED BY <2>1 DEF ToSet
<1>7. ToSet(sq) \subseteq T
  BY <1>1 DEF ToSet
<1> QED BY <1>4, <1>5, <1>6, <1>7 DEF more

\* SliceDistinct keeps what there is.
LEMMA DistinctHasTheSame ==
  ASSUME NEW T, NEW list \in Seq(T)
  PROVE  SliceDistinct(list) \in Seq(T) /\ ToSet(SliceDistinct(list)) = ToSet(list)
<1> DEFINE kept == CHOOSE f : IsDistinct(f, list, Len(list))
           Upto(n) == {list[i] : i \in 1..n}
<1>1. SliceDistinct(list) = kept[Len(list)]
  BY DEF SliceDistinct, IsDistinct
<1>2. IsDistinct(kept, list, Len(list))
  BY DistinctExists
<1> HIDE DEF kept
<1>0. Len(list) \in Nat
  OBVIOUS
<1>3. \A i \in 0..Len(list) : kept[i] = IF i = 0 THEN <<>>
        ELSE IF list[i] \in ToSet(kept[i - 1]) THEN kept[i - 1] ELSE Append(kept[i - 1], list[i])
  BY <1>2 DEF IsDistinct
<1> DEFINE S == {n \in Nat : n <= Len(list) => kept[n] \in Seq(T) /\ ToSet(kept[n]) = Upto(n)}
<1>4. 0 \in S
  <2>1. 0 \in 0..Len(list) /\ 1..0 = {}
    OBVIOUS
  <2>2. kept[0] = <<>> /\ Upto(0) = {}
    BY <1>3, <2>1
  <2>3. ToSet(<<>>) = {}
    <3>1. DOMAIN <<>> = {}
      OBVIOUS
    <3> QED BY <3>1 DEF ToSet
  <2>4. <<>> \in Seq(T)
    OBVIOUS
  <2> HIDE DEF Upto
  <2>5. kept[0] \in Seq(T) /\ ToSet(kept[0]) = Upto(0)
    BY <2>2, <2>3, <2>4
  <2> QED BY <2>5
<1>5. ASSUME NEW n \in Nat, n \in S PROVE n + 1 \in S
  <2> SUFFICES ASSUME n + 1 <= Len(list)
               PROVE  kept[n + 1] \in Seq(T) /\ ToSet(kept[n + 1]) = Upto(n + 1)
    OBVIOUS
  <2> DEFINE e == list[n + 1]
  <2>1. kept[n] \in Seq(T) /\ ToSet(kept[n]) = Upto(n)
    BY <1>5
  <2>2. kept[n + 1] = IF e \in ToSet(kept[n]) THEN kept[n] ELSE Append(kept[n], e)
    <3> HIDE DEF S
    <3>1. n + 1 \in 0..Len(list) /\ n + 1 # 0 /\ (n + 1) - 1 = n
      BY <1>0
    <3> QED BY <1>3, <3>1
  <2>3. e \in T
    OBVIOUS
  <2>4. Upto(n + 1) = Upto(n) \union {e}
    OBVIOUS
  <2> HIDE DEF e, Upto
  <2> HIDE DEF S
  <2>5. CASE e \in ToSet(kept[n])
    <3>1. kept[n + 1] = kept[n]
      BY <2>2, <2>5
    <3>2. Upto(n) \union {e} = Upto(n)
      BY <2>1, <2>5
    <3> QED BY <2>1, <2>4, <3>1, <3>2
  <2>6. CASE e \notin ToSet(kept[n])
    <3>1. kept[n + 1] = Append(kept[n], e)
      BY <2>2, <2>6
    <3>2. ToSet(Append(kept[n], e)) = ToSet(kept[n]) \union {e}
      BY <2>1, <2>3, ToSetOf
    <3>3. Append(kept[n], e) \in Seq(T)
      BY <2>1, <2>3
    <3> QED BY <2>1, <2>4, <3>1, <3>2, <3>3
  <2> QED BY <2>5, <2>6
<1>6. Nat \subseteq S
  <2> HIDE DEF S
  <2> QED BY <1>4, <1>5, NumbersAfterEachOther
<1>7. kept[Len(list)] \in Seq(T) /\ ToSet(kept[Len(list)]) = Upto(Len(list))
  <2> HIDE DEF Upto
  <2>1. \A n \in Nat : n <= Len(list) => kept[n] \in Seq(T) /\ ToSet(kept[n]) = Upto(n)
    BY <1>6
  <2> QED BY <1>0, <2>1
<1>8. Upto(Len(list)) = ToSet(list)
  BY DEF ToSet
<1> QED BY <1>1, <1>7, <1>8
-----------------------------------------------------------------------------
USE ConstantsAssumption DEF Goto

LEMMA ScriptItems ==
  ASSUME NEW s \in Steps
  PROVE  /\ Len(Script[s]) \in Nat /\ DOMAIN Script[s] = 1..Len(Script[s])
         /\ DOMAIN Script[s] \subseteq Items /\ 0 \in Items
<1>1. Len(Script[s]) \in Nat /\ DOMAIN Script[s] = 1..Len(Script[s])
  OBVIOUS
<1>2. 0..Len(Script[s]) \subseteq Items
  BY DEF Items
<1>3. 0 \in 0..Len(Script[s]) /\ 1..Len(Script[s]) \subseteq 0..Len(Script[s])
  BY <1>1
<1> QED BY <1>1, <1>2, <1>3

LEMMA ItemsAreNat == Items \subseteq Nat
<1> SUFFICES ASSUME NEW i \in Items PROVE i \in Nat
  OBVIOUS
<1>1. PICK s \in Steps : i \in 0..Len(Script[s])
  BY DEF Items
<1> QED BY <1>1, ScriptItems

\* There are finitely many containers that there may ever be.
LEMMA EveryIsFinite == IsFiniteSet(Every)
<1> DEFINE Ranges == {0..Len(Script[s]) : s \in Steps}
           r == [s \in Steps |-> 0..Len(Script[s])]
           Pairs == (Processes \X Steps) \X Items
           f == [x \in Pairs |-> <<x[1][1], x[1][2], x[2]>>]
<1>1. IsFiniteSet(Ranges)
  <2>1. r \in Surjection(Steps, Ranges)
    BY DEF Surjection
  <2> QED BY <2>1, FS_Surjection
<1>2. \A T \in Ranges : IsFiniteSet(T)
  <2> SUFFICES ASSUME NEW s \in Steps PROVE IsFiniteSet(0..Len(Script[s]))
    OBVIOUS
  <2> QED BY ScriptItems, FS_Interval
<1>3. IsFiniteSet(Items)
  BY <1>1, <1>2, FS_UNION DEF Items
<1>4. IsFiniteSet(Pairs)
  BY <1>3, FS_Product
<1>5. f \in Surjection(Pairs, Every)
  <2>1. f \in [Pairs -> Every]
    BY DEF Every
  <2>2. ASSUME NEW c \in Every PROVE \E x \in Pairs : f[x] = c
    <3>1. PICK p \in Processes, s \in Steps, i \in Items : c = <<p, s, i>>
      BY <2>2 DEF Every
    <3>2. <<<<p, s>>, i>> \in Pairs
      OBVIOUS
    <3> QED BY <3>1, <3>2
  <2> QED BY <2>1, <2>2 DEF Surjection
<1> QED BY <1>4, <1>5, FS_Surjection

LEMMA InEvery ==
  ASSUME NEW c \in Every
  PROVE  \E p \in Processes, s \in Steps, i \in Items : c = <<p, s, i>>
BY DEF Every

LEMMA SubsetsOfEvery ==
  ASSUME NEW C, C \subseteq Every, NEW id
  PROVE  IsFiniteSet(Of(C, id)) /\ Cardinality(Of(C, id)) \in Nat
<1>1. Of(C, id) \in SUBSET Every
  BY DEF Of
<1> QED BY <1>1, EveryIsFinite, FS_Subset, FS_CardinalityType

\* A step owes the removal of its own container, and of the one of the pipe it is at.
Due(p, s, i) ==
  \/ i = 0 /\ at[<<p, s>>] \in Working
  \/ i = item[<<p, s>>] /\ at[<<p, s>>] \in {"pipe", "pipe end"}

LEMMA HeldByIs ==
  ASSUME NEW q, NEW p \in Processes, NEW s \in Steps, NEW i \in Items
  PROVE  /\ <<p, s, i>> \in HeldBy(q) <=> q = p /\ Due(p, s, i)
         /\ <<p, s, i>> \in HeldBy(q)' <=> q = p /\ Due(p, s, i)'
<1>1. <<p, s, i>> \in {q} \X Steps \X Items <=> q = p
  OBVIOUS
<1>2. <<p, s, i>>[1] = p /\ <<p, s, i>>[2] = s /\ <<p, s, i>>[3] = i
  OBVIOUS
<1>3. <<p, s, i>> \in HeldBy(q) <=> q = p /\ Due(p, s, i)
  BY <1>1, <1>2 DEF HeldBy, Due
<1>4. <<p, s, i>> \in HeldBy(q)' <=> q = p /\ Due(p, s, i)'
  BY <1>1, <1>2 DEF HeldBy, Due
<1> QED BY <1>3, <1>4

LEMMA HeldIs ==
  ASSUME NEW p \in Processes, NEW s \in Steps, NEW i \in Items
  PROVE  <<p, s, i>> \in Held <=> Lives(p) /\ Due(p, s, i)
<1>1. <<p, s, i>> \in Held <=> \E q \in Processes : Lives(q) /\ <<p, s, i>> \in HeldBy(q)
  BY DEF Held
<1> QED BY <1>1, HeldByIs

LEMMA HeldNextIs ==
  ASSUME NEW p \in Processes, NEW s \in Steps, NEW i \in Items
  PROVE  <<p, s, i>> \in Held' <=> Lives(p)' /\ Due(p, s, i)'
<1>1. ASSUME <<p, s, i>> \in Held' PROVE Lives(p)' /\ Due(p, s, i)'
  <2>1. PICK q \in Processes : Lives(q)' /\ <<p, s, i>> \in HeldBy(q)'
    BY <1>1 DEF Held
  <2>2. q = p /\ Due(p, s, i)'
    BY <2>1, HeldByIs
  <2> QED BY <2>1, <2>2
<1>2. ASSUME Lives(p)', Due(p, s, i)' PROVE <<p, s, i>> \in Held'
  <2>1. <<p, s, i>> \in HeldBy(p)'
    BY <1>2, HeldByIs
  <2> QED BY <1>2, <2>1 DEF Held
<1> QED BY <1>1, <1>2

LEMMA HeldInEvery ==
  /\ Held \subseteq Every /\ Held' \subseteq Every
  /\ \A p \in Processes : HeldBy(p) \subseteq Every
<1>1. ASSUME NEW p \in Processes PROVE HeldBy(p) \subseteq Every /\ HeldBy(p)' \subseteq Every
  <2>1. {p} \X Steps \X Items \subseteq Every
    BY DEF Every
  <2>2. HeldBy(p) \subseteq {p} \X Steps \X Items /\ HeldBy(p)' \subseteq {p} \X Steps \X Items
    BY DEF HeldBy
  <2> QED BY <2>1, <2>2
<1>2. Held \subseteq Every
  BY <1>1 DEF Held
<1>3. ASSUME NEW c \in Held' PROVE c \in Every
  <2>1. PICK p \in Processes : c \in HeldBy(p)'
    BY <1>3 DEF Held
  <2> QED BY <1>1, <2>1
<1> QED BY <1>1, <1>2, <1>3
-----------------------------------------------------------------------------
(* Counting. *)

LEMMA CountKept ==
  ASSUME Inv, containers' \subseteq containers, Owed' \subseteq Every, Owed \subseteq Owed'
  PROVE  Counted'
<1> SUFFICES ASSUME NEW id PROVE Cardinality(Of(containers, id)') <= Cardinality(Of(Owed, id)')
  BY DEF Counted
<1>1. Owed \subseteq Every /\ containers \subseteq Every
  BY HeldInEvery DEF Owed, Inv, Typed
<1>2. /\ Of(containers, id)' \in SUBSET Of(containers, id)
      /\ Of(Owed, id) \in SUBSET Of(Owed, id)'
  BY DEF Of, RunID
<1>3. IsFiniteSet(Of(containers, id)) /\ Cardinality(Of(containers, id)) \in Nat
  BY <1>1, SubsetsOfEvery
<1>4. IsFiniteSet(Of(Owed, id)) /\ Cardinality(Of(Owed, id)) \in Nat
  BY <1>1, SubsetsOfEvery
<1>5. IsFiniteSet(Of(Owed, id)') /\ Cardinality(Of(Owed, id)') \in Nat
  <2>1. Of(Owed, id)' = Of(Owed', id)
    BY DEF Of, RunID
  <2> QED BY <2>1, SubsetsOfEvery
<1>6. /\ Cardinality(Of(containers, id)') <= Cardinality(Of(containers, id))
      /\ Cardinality(Of(containers, id)') \in Nat
  BY <1>2, <1>3, FS_Subset, FS_CardinalityType
<1>7. Cardinality(Of(Owed, id)) <= Cardinality(Of(Owed, id)')
  BY <1>2, <1>5, FS_Subset
<1>8. Cardinality(Of(containers, id)) <= Cardinality(Of(Owed, id))
  BY DEF Inv, Counted
<1> QED BY <1>3, <1>4, <1>5, <1>6, <1>7, <1>8

\* A container that is created is a new one, and is owed.
LEMMA CountCreated ==
  ASSUME Inv, NEW c \in Every, c \notin Owed, Owed' \subseteq Every,
         containers' = containers \union {c}, Owed \union {c} \subseteq Owed'
  PROVE  Counted'
<1> SUFFICES ASSUME NEW id PROVE Cardinality(Of(containers, id)') <= Cardinality(Of(Owed, id)')
  BY DEF Counted
<1>1. Owed \subseteq Every /\ containers \subseteq Every
  BY HeldInEvery DEF Owed, Inv, Typed
<1> DEFINE C == Of(containers, id)
           O == Of(Owed, id)
<1>2. /\ IsFiniteSet(C) /\ Cardinality(C) \in Nat
      /\ IsFiniteSet(O) /\ Cardinality(O) \in Nat
  BY <1>1, SubsetsOfEvery
<1>3. IsFiniteSet(Of(Owed, id)') /\ Cardinality(Of(Owed, id)') \in Nat
  <2>1. Of(Owed, id)' = Of(Owed', id)
    BY DEF Of, RunID
  <2> QED BY <2>1, SubsetsOfEvery
<1>4. Cardinality(C) <= Cardinality(O)
  BY DEF Inv, Counted
<1>5. CASE RunID(c) = id
  <2>1. Of(containers, id)' = C \cup {c} /\ O \cup {c} \in SUBSET Of(Owed, id)' /\ c \notin O
    BY <1>5 DEF Of, RunID
  <2> HIDE DEF C, O
  <2>2. Cardinality(C \cup {c}) \in {Cardinality(C), Cardinality(C) + 1}
    BY <1>2, FS_AddElement
  <2>3. Cardinality(O \cup {c}) = Cardinality(O) + 1
    BY <1>2, <2>1, FS_AddElement
  <2>4. Cardinality(O \cup {c}) <= Cardinality(Of(Owed, id)')
    BY <1>3, <2>1, FS_Subset
  <2>5. Cardinality(C \cup {c}) <= Cardinality(O \cup {c})
    BY <1>2, <1>4, <2>2, <2>3
  <2>6. Cardinality(C \cup {c}) \in Nat /\ Cardinality(O \cup {c}) \in Nat
    BY <1>2, <2>2, <2>3
  <2>7. Cardinality(C \cup {c}) <= Cardinality(Of(Owed, id)')
    BY <1>3, <2>4, <2>5, <2>6
  <2> QED BY <2>1, <2>7
<1>6. CASE RunID(c) # id
  <2>1. Of(containers, id)' = C /\ O \in SUBSET Of(Owed, id)'
    BY <1>6 DEF Of, RunID
  <2> HIDE DEF C, O
  <2>2. Cardinality(O) <= Cardinality(Of(Owed, id)')
    BY <1>3, <2>1, FS_Subset
  <2> QED BY <1>2, <1>3, <1>4, <2>1, <2>2
<1> QED BY <1>5, <1>6

\* Whoever stops to owe a container has removed one with its run ID, if there was one.
LEMMA CountDestroyed ==
  ASSUME Inv, NEW p, NEW c, p \notin cancelled, Destroy(p, RunID(c)), Owed' \subseteq Every,
         Owed \ {c} \subseteq Owed'
  PROVE  Counted'
<1> SUFFICES ASSUME NEW id PROVE Cardinality(Of(containers, id)') <= Cardinality(Of(Owed, id)')
  BY DEF Counted
<1>1. Owed \subseteq Every /\ containers \subseteq Every
  BY HeldInEvery DEF Owed, Inv, Typed
<1> DEFINE C == Of(containers, id)
           O == Of(Owed, id)
<1>2. /\ IsFiniteSet(C) /\ Cardinality(C) \in Nat
      /\ IsFiniteSet(O) /\ Cardinality(O) \in Nat
  BY <1>1, SubsetsOfEvery
<1>3. IsFiniteSet(Of(Owed, id)') /\ Cardinality(Of(Owed, id)') \in Nat
  <2>1. Of(Owed, id)' = Of(Owed', id)
    BY DEF Of, RunID
  <2> QED BY <2>1, SubsetsOfEvery
<1>4. Cardinality(C) <= Cardinality(O)
  BY DEF Inv, Counted
<1>5. containers' = containers \/ \E d \in Labelled(RunID(c)) : containers' = containers \ {d}
  BY DEF Destroy
<1>6. CASE RunID(c) = id
  <2>1. O \ {c} \in SUBSET Of(Owed, id)'
    BY DEF Of, RunID
  <2>2. C = Labelled(id)
    BY DEF Of, Labelled
  <2>3. CASE C = {}
    <3>1. Of(containers, id)' = {}
      BY <1>5, <2>3 DEF Of, RunID
    <3> QED BY <1>3, <3>1, FS_EmptySet
  <2>4. CASE C # {}
    <3>1. PICK d \in C : containers' = containers \ {d}
      BY <1>6, <2>2, <2>4 DEF Destroy
    <3>2. Of(containers, id)' = C \ {d}
      BY <3>1 DEF Of, RunID
    <3> HIDE DEF C, O
    <3>3. Cardinality(C \ {d}) = Cardinality(C) - 1
      BY <1>2, FS_RemoveElement
    <3>4. Cardinality(O \ {c}) \in {Cardinality(O), Cardinality(O) - 1}
      BY <1>2, FS_RemoveElement
    <3>5. Cardinality(O \ {c}) <= Cardinality(Of(Owed, id)')
      BY <1>3, <2>1, FS_Subset
    <3> QED BY <1>2, <1>3, <1>4, <3>2, <3>3, <3>4, <3>5
  <2> QED BY <2>3, <2>4
<1>7. CASE RunID(c) # id
  <2>1. Of(containers, id)' = C /\ O \in SUBSET Of(Owed, id)'
    BY <1>5, <1>7 DEF Of, RunID, Labelled
  <2> HIDE DEF C, O
  <2>2. Cardinality(O) <= Cardinality(Of(Owed, id)')
    BY <1>3, <2>1, FS_Subset
  <2> QED BY <1>2, <1>3, <1>4, <2>1, <2>2
<1> QED BY <1>6, <1>7

-----------------------------------------------------------------------------
(* Rivals. *)

\* Whoever has been started remains a rival.
LEMMA RivalsRemain ==
  ASSUME NEW p, NEW s,
         \A q \in Processes, t \in Steps :
           /\ at[<<q, t>>] # "idle" => at'[<<q, t>>] # "idle"
           /\ item[<<q, t>>] <= item'[<<q, t>>],
         item \in [Job -> Nat], item' \in [Job -> Nat]
  PROVE  Rivals(p, s) \subseteq Rivals(p, s)'
<1> SUFFICES ASSUME NEW c \in Rivals(p, s) PROVE c \in Rivals(p, s)'
  OBVIOUS
<1>1. PICK q \in Processes, t \in Steps, i \in Items : c = <<q, t, i>>
  BY DEF Rivals
<1>2. /\ c # <<p, s, 0>> /\ at[<<q, t>>] # "idle"
      /\ i = 0 \/ (i \in DOMAIN Script[t] /\ Script[t][i].kind = "pipe" /\ i <= item[<<q, t>>])
      /\ RunID(c) = RunID(<<p, s, 0>>)
  BY <1>1 DEF Rivals
<1>3. <<q, t>> \in Job /\ i \in Nat
  BY ItemsAreNat DEF Job
<1>4. i <= item[<<q, t>>] => i <= item'[<<q, t>>]
  <2>1. item[<<q, t>>] \in Nat /\ item'[<<q, t>>] \in Nat
    BY <1>3
  <2> QED BY <1>3, <2>1
<1>5. RunID(c)' = RunID(<<p, s, 0>>)'
  BY <1>2 DEF RunID
<1>6. /\ c \in Processes \X Steps \X Items /\ c[1] = q /\ c[2] = t /\ c[3] = i
  BY <1>1
<1> QED BY <1>2, <1>4, <1>5, <1>6 DEF Rivals

\* What a step removes has its own run ID, or that of the pipe it is at.
Removable(p, s, i) ==
  i = 0 \/ (i = item[<<p, s>>] /\ i \in DOMAIN Script[s] /\ Script[s][i].kind = "pipe")

LEMMA OnlyRivalsRemove ==
  ASSUME NEW p \in Processes, NEW s \in Steps, NEW i \in Items, NEW q, NEW t,
         at[<<p, s>>] # "idle", item[<<p, s>>] \in Nat, Removable(p, s, i),
         Destroy(p, RunID(<<p, s, i>>)), <<p, s, i>> # <<q, t, 0>>,
         Rivals(q, t) = {}, <<q, t, 0>> \in containers
  PROVE  <<q, t, 0>> \in containers'
<1>1. ASSUME RunID(<<p, s, i>>) = RunID(<<q, t, 0>>) PROVE FALSE
  <2> DEFINE c == <<p, s, i>>
  <2>1. c \in Processes \X Steps \X Items /\ c[1] = p /\ c[2] = s /\ c[3] = i
    OBVIOUS
  <2>2. \/ i = 0
        \/ i \in DOMAIN Script[s] /\ Script[s][i].kind = "pipe" /\ i <= item[<<p, s>>]
    BY DEF Removable
  <2>3. c \in Rivals(q, t)
    BY <1>1, <2>1, <2>2 DEF Rivals
  <2> QED BY <2>3
<1>2. \A d \in Labelled(RunID(<<p, s, i>>)) : d # <<q, t, 0>>
  BY <1>1 DEF Labelled
<1> QED BY <1>2 DEF Destroy

-----------------------------------------------------------------------------
(* The steps of a pipeline's step. *)

\* A move of step s, seen from all the others.
LEMMA JobKeeps ==
  ASSUME Inv, NEW p \in Processes, NEW s \in Steps, NEW w \in Places \ {"idle"},
         UNCHANGED <<scenario, pc, plan, next>>, cancelled' \subseteq Processes,
         at[<<p, s>>] # "idle", Goto(<<p, s>>, w), UNCHANGED item \/ NextItem(p, s),
         containers' \subseteq Every, abandoned' \subseteq Every,
         \A c \in Every : c \in abandoned' =>
           c \in abandoned \/ \E i \in Items : c = <<p, s, i>>,
         \/ containers \subseteq containers'
         \/ \E i \in Items : Removable(p, s, i) /\ Destroy(p, RunID(<<p, s, i>>)),
         AtPipe(p, s)', Fresh(p, s)', Stays(p, s)', Counted'
  PROVE  Inv'
<1>1. /\ at \in [Job -> Places] /\ item \in [Job -> Nat \ {0}] /\ <<p, s>> \in Job
      /\ pc \in [Processes -> ProcessPlaces]
  BY DEF Inv, Typed, Job
<1>2. /\ at' \in [Job -> Places] /\ at'[<<p, s>>] = w
      /\ \A j \in Job \ {<<p, s>>} : at'[j] = at[j]
  BY <1>1
<1>3. /\ item' \in [Job -> Nat \ {0}]
      /\ \A j \in Job \ {<<p, s>>} : item'[j] = item[j]
      /\ item'[<<p, s>>] \in {item[<<p, s>>], item[<<p, s>>] + 1}
  <2>1. CASE UNCHANGED item
    BY <1>1, <2>1
  <2>2. CASE NextItem(p, s)
    BY <1>1, <2>2 DEF NextItem
  <2> QED BY <2>1, <2>2
<1>4. Typed'
  BY <1>2, <1>3 DEF Inv, Typed
<1>5. ASSUME NEW q \in Processes PROVE Planned(q)'
  <2>1. \A t \in Steps : (at'[<<q, t>>] = "idle") <=> (at[<<q, t>>] = "idle")
    <3> SUFFICES ASSUME NEW t \in Steps PROVE (at'[<<q, t>>] = "idle") <=> (at[<<q, t>>] = "idle")
      OBVIOUS
    <3>1. <<q, t>> \in Job
      BY DEF Job
    <3> QED BY <1>2, <3>1
  <2> QED BY <2>1 DEF Inv, Planned
<1>6. ASSUME NEW q \in Processes, NEW t \in Steps
      PROVE  (AtPipe(q, t) /\ Fresh(q, t) /\ Stays(q, t))'
  <2>1. CASE q = p /\ t = s
    BY <2>1
  <2>2. CASE ~(q = p /\ t = s)
    <3>1. /\ at'[<<q, t>>] = at[<<q, t>>] /\ item'[<<q, t>>] = item[<<q, t>>]
          /\ AtPipe(q, t) /\ Fresh(q, t) /\ Stays(q, t)
      <4>1. <<q, t>> \in Job \ {<<p, s>>}
        BY <2>2 DEF Job
      <4> QED BY <1>2, <1>3, <4>1 DEF Inv, StepInv
    <3>2. AtPipe(q, t)'
      BY <3>1 DEF AtPipe
    <3>3. Fresh(q, t)'
      <4>1. ASSUME NEW i \in Items, <<q, t, i>> \in abandoned' PROVE <<q, t, i>> \in abandoned
        <5>1. <<q, t, i>> \in Every /\ \A k \in Items : <<q, t, i>> # <<p, s, k>>
          BY <2>2 DEF Every
        <5> QED BY <4>1, <5>1
      <4>2. 0 \in Items
        BY ScriptItems
      <4> QED BY <3>1, <4>1, <4>2 DEF Fresh
    <3>4. Stays(q, t)'
      <4> SUFFICES ASSUME Lives(q), at[<<q, t>>] \in Working \ {"close", "leave"},
                          Rivals(q, t)' = {}
                   PROVE  <<q, t, 0>> \in containers'
        BY <3>1 DEF Stays, Lives
      <4>1. Rivals(q, t) \subseteq Rivals(q, t)'
        <5>1. ASSUME NEW x \in Processes, NEW y \in Steps
              PROVE  /\ at[<<x, y>>] # "idle" => at'[<<x, y>>] # "idle"
                     /\ item[<<x, y>>] <= item'[<<x, y>>]
          <6>1. <<x, y>> \in Job /\ item[<<x, y>>] \in Nat
            BY <1>1 DEF Job
          <6>2. CASE <<x, y>> = <<p, s>>
            BY <1>2, <1>3, <6>1, <6>2
          <6>3. CASE <<x, y>> # <<p, s>>
            BY <1>2, <1>3, <6>1, <6>3
          <6> QED BY <6>2, <6>3
        <5>2. item \in [Job -> Nat] /\ item' \in [Job -> Nat]
          BY <1>1, <1>3
        <5> QED BY <5>1, <5>2, RivalsRemain
      <4>2. Rivals(q, t) = {} /\ <<q, t, 0>> \in containers
        BY <3>1, <4>1 DEF Stays
      <4>3. ASSUME NEW i \in Items, Removable(p, s, i), Destroy(p, RunID(<<p, s, i>>))
            PROVE  <<q, t, 0>> \in containers'
        <5>1. <<p, s, i>> # <<q, t, 0>>
          BY <2>2
        <5>2. item[<<p, s>>] \in Nat
          BY <1>1
        <5> QED BY <4>2, <4>3, <5>1, <5>2, OnlyRivalsRemove
      <4> QED BY <4>2, <4>3
    <3> QED BY <3>2, <3>3, <3>4
  <2> QED BY <2>1, <2>2
<1> QED BY <1>4, <1>5, <1>6 DEF Inv, StepInv

\* What is owed after a move of step s.
LEMMA OwedAfter ==
  ASSUME Inv, NEW p \in Processes, NEW s \in Steps, NEW w, NEW D, Lives(p),
         UNCHANGED pc, Goto(<<p, s>>, w), UNCHANGED item \/ NextItem(p, s),
         abandoned \subseteq abandoned', abandoned' \subseteq Every,
         \A i \in Items : Due(p, s, i) =>
           Due(p, s, i)' \/ <<p, s, i>> \in abandoned' \/ <<p, s, i>> \in D
  PROVE  Owed \ D \subseteq Owed' /\ Owed' \subseteq Every
<1>1. Owed' \subseteq Every
  BY HeldInEvery DEF Owed
<1>2. ASSUME NEW c \in Held, c \notin D PROVE c \in Owed'
  <2>1. PICK q \in Processes, t \in Steps, i \in Items : c = <<q, t, i>>
    BY HeldInEvery DEF Every
  <2>2. Lives(q) /\ Due(q, t, i)
    BY <2>1, HeldIs
  <2>3. Lives(q)'
    BY <2>2 DEF Lives
  <2>4. CASE q = p /\ t = s
    <3>1. Due(p, s, i)' \/ c \in abandoned'
      BY <1>2, <2>1, <2>2, <2>4
    <3> QED BY <2>1, <2>3, <2>4, <3>1, HeldNextIs DEF Owed
  <2>5. CASE ~(q = p /\ t = s)
    <3>1. <<q, t>> \in Job \ {<<p, s>>} /\ at \in [Job -> Places] /\ item \in [Job -> Nat \ {0}]
      BY <2>5 DEF Inv, Typed, Job
    <3>2. at'[<<q, t>>] = at[<<q, t>>] /\ item'[<<q, t>>] = item[<<q, t>>]
      BY <3>1 DEF NextItem
    <3>3. Due(q, t, i)'
      BY <2>2, <3>2 DEF Due
    <3> QED BY <2>1, <2>3, <3>3, HeldNextIs DEF Owed
  <2> QED BY <2>4, <2>5
<1> QED BY <1>1, <1>2 DEF Owed

-----------------------------------------------------------------------------
(* The kinds of moves. *)

AtWork == Working \ {"close", "leave"}
PipePlaces == {"pipe remove", "pipe create", "pipe", "pipe end"}

\* What is known of a step that has been started.
LEMMA OfJob ==
  ASSUME Inv, NEW p \in Processes, NEW s \in Steps
  PROVE  /\ <<p, s>> \in Job /\ at[<<p, s>>] \in Places /\ item[<<p, s>>] \in Nat \ {0}
         /\ AtPipe(p, s) /\ Fresh(p, s) /\ Stays(p, s)
         /\ \A i \in Items : <<p, s, i>> \in Every
         /\ containers \subseteq Every /\ abandoned \subseteq Every
<1>1. <<p, s>> \in Job /\ \A i \in Items : <<p, s, i>> \in Every
  BY DEF Job, Every
<1> QED BY <1>1 DEF Inv, Typed, StepInv

\* A move of a step keeps the invariant if all that is owed is still counted.
LEMMA Move ==
  ASSUME Inv, NEW p \in Processes, NEW s \in Steps, NEW w \in Places \ {"idle"},
         UNCHANGED <<scenario, pc, plan, next>>, cancelled' \subseteq Processes,
         at[<<p, s>>] # "idle", Goto(<<p, s>>, w), UNCHANGED item \/ NextItem(p, s),
         w \in Ahead => at[<<p, s>>] \in Ahead,
         at[<<p, s>>] \in Behind => w \in Behind,
         w \in PipePlaces =>
           /\ UNCHANGED item /\ item[<<p, s>>] \in DOMAIN Script[s]
           /\ Script[s][item[<<p, s>>]].kind = "pipe",
         w \in AtWork => at[<<p, s>>] \in AtWork \/ <<p, s, 0>> \in containers',
         containers' \subseteq Every,
         \/ containers \subseteq containers'
         \/ \E i \in Items :
              Removable(p, s, i) /\ Destroy(p, RunID(<<p, s, i>>)) /\ (w \in AtWork => i # 0),
         \/ UNCHANGED abandoned
         \/ \E k \in Items :
              /\ abandoned' = abandoned \union {<<p, s, k>>} /\ (k = 0 => w \notin Ahead)
              /\ k < item'[<<p, s>>] \/ (k = item'[<<p, s>>] /\ w \in Behind),
         Counted'
  PROVE  Inv'
<1>1. /\ <<p, s>> \in Job /\ item[<<p, s>>] \in Nat \ {0}
      /\ AtPipe(p, s) /\ Fresh(p, s) /\ Stays(p, s)
      /\ \A i \in Items : <<p, s, i>> \in Every
      /\ abandoned \subseteq Every
  BY OfJob
<1>2. at'[<<p, s>>] = w /\ item'[<<p, s>>] \in {item[<<p, s>>], item[<<p, s>>] + 1}
  BY <1>1 DEF NextItem, Inv, Typed
<1>3. /\ abandoned' \subseteq Every
      /\ \A c \in Every : c \in abandoned' =>
           c \in abandoned \/ \E i \in Items : c = <<p, s, i>>
  BY <1>1
<1>4. AtPipe(p, s)'
  <2>1. w \in PipePlaces => item'[<<p, s>>] = item[<<p, s>>]
    OBVIOUS
  <2> QED BY <1>2, <2>1 DEF AtPipe, PipePlaces
<1>5. Fresh(p, s)'
  <2> SUFFICES ASSUME pc[p] # "exited"
               PROVE  /\ w \in Ahead => <<p, s, 0>> \notin abandoned'
                      /\ \A i \in Items :
                           i > item'[<<p, s>>] \/ (i = item'[<<p, s>>] /\ w \notin Behind)
                           => <<p, s, i>> \notin abandoned'
    BY <1>2 DEF Fresh
  <2>1. w \in Ahead => <<p, s, 0>> \notin abandoned
    BY <1>1 DEF Fresh
  <2>2. ASSUME NEW i \in Items,
               i > item'[<<p, s>>] \/ (i = item'[<<p, s>>] /\ w \notin Behind)
        PROVE  <<p, s, i>> \notin abandoned
    <3>1. i \in Nat
      BY ItemsAreNat
    <3>2. i > item[<<p, s>>] \/ (i = item[<<p, s>>] /\ at[<<p, s>>] \notin Behind)
      BY <1>1, <1>2, <2>2, <3>1
    <3> QED BY <1>1, <3>2 DEF Fresh
  <2>3. CASE UNCHANGED abandoned
    BY <2>1, <2>2, <2>3
  <2>4. ASSUME NEW k \in Items,
               /\ abandoned' = abandoned \union {<<p, s, k>>} /\ (k = 0 => w \notin Ahead)
               /\ k < item'[<<p, s>>] \/ (k = item'[<<p, s>>] /\ w \in Behind)
        PROVE  /\ w \in Ahead => <<p, s, 0>> \notin abandoned'
               /\ \A i \in Items :
                    i > item'[<<p, s>>] \/ (i = item'[<<p, s>>] /\ w \notin Behind)
                    => <<p, s, i>> \notin abandoned'
    <3>1. w \in Ahead => <<p, s, 0>> \notin abandoned'
      BY <2>1, <2>4
    <3>2. ASSUME NEW i \in Items,
                 i > item'[<<p, s>>] \/ (i = item'[<<p, s>>] /\ w \notin Behind)
          PROVE  <<p, s, i>> # <<p, s, k>>
      <4>1. i \in Nat /\ k \in Nat /\ item'[<<p, s>>] \in Nat
        <5>1. i \in Nat /\ k \in Nat
          BY ItemsAreNat
        <5>2. item[<<p, s>>] \in Nat
          BY <1>1
        <5> QED BY <1>2, <5>1, <5>2
      <4>2. i # k
        BY <2>4, <3>2, <4>1
      <4> QED BY <4>2
    <3> QED BY <2>2, <2>4, <3>1, <3>2
  <2> QED BY <2>3, <2>4
<1>6. Stays(p, s)'
  <2> SUFFICES ASSUME Lives(p), w \in AtWork, Rivals(p, s)' = {}
               PROVE  <<p, s, 0>> \in containers'
    BY <1>2 DEF Stays, Lives, AtWork
  <2>1. CASE at[<<p, s>>] \in AtWork
    <3>1. Rivals(p, s) \subseteq Rivals(p, s)'
      <4>1. /\ at \in [Job -> Places] /\ item \in [Job -> Nat \ {0}]
            /\ \A j \in Job \ {<<p, s>>} : at'[j] = at[j] /\ item'[j] = item[j]
            /\ item' \in [Job -> Nat \ {0}]
        <5>1. at \in [Job -> Places] /\ item \in [Job -> Nat \ {0}]
          BY DEF Inv, Typed
        <5>2. \A j \in Job \ {<<p, s>>} : at'[j] = at[j]
          BY <5>1
        <5>3. CASE UNCHANGED item
          BY <5>1, <5>2, <5>3
        <5>4. CASE NextItem(p, s)
          <6>1. item' \in [Job -> Nat \ {0}]
            BY <1>1, <5>1, <5>4 DEF NextItem
          <6> QED BY <5>1, <5>2, <5>4, <6>1 DEF NextItem
        <5> QED BY <5>3, <5>4
      <4>2. ASSUME NEW x \in Processes, NEW y \in Steps
            PROVE  /\ at[<<x, y>>] # "idle" => at'[<<x, y>>] # "idle"
                   /\ item[<<x, y>>] <= item'[<<x, y>>]
        <5>1. <<x, y>> \in Job /\ item[<<x, y>>] \in Nat
          BY <4>1 DEF Job
        <5>2. CASE <<x, y>> = <<p, s>>
          BY <1>2, <5>1, <5>2
        <5>3. CASE <<x, y>> # <<p, s>>
          BY <4>1, <5>1, <5>3
        <5> QED BY <5>2, <5>3
      <4>3. item \in [Job -> Nat] /\ item' \in [Job -> Nat]
        BY <4>1
      <4> QED BY <4>2, <4>3, RivalsRemain
    <3>2. Rivals(p, s) = {} /\ <<p, s, 0>> \in containers
      BY <1>1, <2>1, <3>1 DEF Stays, AtWork
    <3>3. ASSUME NEW i \in Items, Removable(p, s, i), Destroy(p, RunID(<<p, s, i>>)), i # 0
          PROVE  <<p, s, 0>> \in containers'
      <4>1. <<p, s, i>> # <<p, s, 0>> /\ item[<<p, s>>] \in Nat
        BY <1>1, <3>3
      <4> QED BY <3>2, <3>3, <4>1, OnlyRivalsRemove
    <3> QED BY <3>2, <3>3
  <2>2. CASE <<p, s, 0>> \in containers'
    BY <2>2
  <2> QED BY <2>1, <2>2
<1>7. \/ containers \subseteq containers'
      \/ \E i \in Items : Removable(p, s, i) /\ Destroy(p, RunID(<<p, s, i>>))
  OBVIOUS
<1> QED BY <1>3, <1>4, <1>5, <1>6, <1>7, JobKeeps

\* A step that goes on without a container more, or one fewer to remove.
LEMMA QuietMove ==
  ASSUME Inv, NEW p \in Processes, NEW s \in Steps, NEW w \in Places \ {"idle"}, Lives(p),
         UNCHANGED <<scenario, pc, plan, next, abandoned>>, cancelled' \subseteq Processes,
         at[<<p, s>>] # "idle", Goto(<<p, s>>, w), UNCHANGED item \/ NextItem(p, s),
         w \in Ahead => at[<<p, s>>] \in Ahead,
         at[<<p, s>>] \in Behind => w \in Behind,
         w \in PipePlaces =>
           /\ UNCHANGED item /\ item[<<p, s>>] \in DOMAIN Script[s]
           /\ Script[s][item[<<p, s>>]].kind = "pipe",
         w \in AtWork => at[<<p, s>>] \in AtWork,
         at[<<p, s>>] \in Working => w \in Working,
         at[<<p, s>>] \in {"pipe", "pipe end"} => UNCHANGED item /\ w \in {"pipe", "pipe end"},
         \/ UNCHANGED containers
         \/ \E i \in Items :
              Removable(p, s, i) /\ Destroy(p, RunID(<<p, s, i>>)) /\ (w \in AtWork => i # 0)
  PROVE  Inv'
<1>1. /\ <<p, s>> \in Job /\ item[<<p, s>>] \in Nat \ {0}
      /\ containers \subseteq Every /\ abandoned \subseteq Every
  BY OfJob
<1>2. containers' \subseteq containers
  BY DEF Destroy
<1>3. at'[<<p, s>>] = w
  BY <1>1 DEF Inv, Typed
<1>4. ASSUME NEW i \in Items, Due(p, s, i) PROVE Due(p, s, i)'
  BY <1>3, <1>4 DEF Due
<1>5. Owed \ {} \subseteq Owed' /\ Owed' \subseteq Every
  BY <1>1, <1>4, OwedAfter
<1>6. Counted'
  BY <1>2, <1>5, CountKept
<1>7. containers' \subseteq Every
  BY <1>1, <1>2
<1>8. w \in AtWork => at[<<p, s>>] \in AtWork \/ <<p, s, 0>> \in containers'
  OBVIOUS
<1>9. \/ containers \subseteq containers'
      \/ \E i \in Items :
           Removable(p, s, i) /\ Destroy(p, RunID(<<p, s, i>>)) /\ (w \in AtWork => i # 0)
  OBVIOUS
<1> QED BY <1>6, <1>7, <1>8, <1>9, Move
-----------------------------------------------------------------------------
(* The moves. *)

LEMMA CancelKeeps ==
  ASSUME Inv, NEW p \in Processes, NEW s, NEW res, Cancel(p, s, res)
  PROVE  cancelled' \subseteq Processes
BY DEF Cancel, Inv, Typed

LEMMA AcquireKeeps ==
  ASSUME Inv, NEW p \in Processes, NEW s \in Steps, Acquire(p, s) PROVE Inv'
<1> USE DEF process
<1>1. Lives(p) /\ at[<<p, s>>] = "queued"
  BY DEF Acquire, In
<1>2. CASE Goto(<<p, s>>, "start") /\ UNCHANGED cancelled
  <2>1. cancelled' \subseteq Processes
    BY <1>2 DEF Inv, Typed
  <2> QED BY <1>1, <1>2, <2>1, QuietMove
          DEF Acquire, Places, Ahead, Behind, PipePlaces, AtWork, Working
<1>3. CASE EndOfJob(p, s, "failed")
  <2>1. cancelled' \subseteq Processes /\ Goto(<<p, s>>, "failed")
    BY <1>3, CancelKeeps DEF EndOfJob
  <2> QED BY <1>1, <2>1, QuietMove
          DEF Acquire, Places, Ahead, Behind, PipePlaces, AtWork, Working
<1> QED BY <1>2, <1>3 DEF Acquire

LEMMA StartOfStepKeeps ==
  ASSUME Inv, NEW p \in Processes, NEW s \in Steps, StartOfStep(p, s) PROVE Inv'
<1> USE DEF process
<1>1. Lives(p) /\ at[<<p, s>>] = "start"
  BY DEF StartOfStep, In
<1>2. CASE Goto(<<p, s>>, "remove") /\ UNCHANGED cancelled
  <2>1. cancelled' \subseteq Processes
    BY <1>2 DEF Inv, Typed
  <2> QED BY <1>1, <1>2, <2>1, QuietMove
          DEF StartOfStep, Places, Ahead, Behind, PipePlaces, AtWork, Working
<1>3. CASE EndOfJob(p, s, "failed")
  <2>1. cancelled' \subseteq Processes /\ Goto(<<p, s>>, "failed")
    BY <1>3, CancelKeeps DEF EndOfJob
  <2> QED BY <1>1, <2>1, QuietMove
          DEF StartOfStep, Places, Ahead, Behind, PipePlaces, AtWork, Working
<1> QED BY <1>2, <1>3 DEF StartOfStep

LEMMA RemoveOrphanKeeps ==
  ASSUME Inv, NEW p \in Processes, NEW s \in Steps, RemoveOrphan(p, s) PROVE Inv'
<1> USE DEF process
<1>1. /\ Lives(p) /\ at[<<p, s>>] = "remove" /\ Goto(<<p, s>>, "create")
      /\ Destroy(p, RunID(<<p, s, 0>>))
      /\ UNCHANGED <<scenario, pc, plan, next, abandoned, item>>
  BY DEF RemoveOrphan, In
<1>2. cancelled' \subseteq Processes
  BY DEF RemoveOrphan, Inv, Typed
<1>3. 0 \in Items /\ Removable(p, s, 0)
  BY ScriptItems DEF Removable
<1>4. /\ \E i \in Items : Removable(p, s, i) /\ Destroy(p, RunID(<<p, s, i>>))
      /\ "create" \notin AtWork
  BY <1>1, <1>3 DEF AtWork, Working
<1> QED BY <1>1, <1>2, <1>4, QuietMove DEF Places, Ahead, Behind, PipePlaces, AtWork, Working

LEMMA SkipKeeps ==
  ASSUME Inv, NEW p \in Processes, NEW s \in Steps, Skip(p, s) PROVE Inv'
<1> USE DEF process
<1>1. /\ Lives(p) /\ at[<<p, s>>] = "script" /\ NextItem(p, s)
      /\ UNCHANGED <<scenario, pc, plan, next, abandoned, containers, at>>
  BY DEF Skip, AtItem, In
<1>2. cancelled' \subseteq Processes
  BY DEF Skip, Inv, Typed
<1>3. Goto(<<p, s>>, "script")
  BY <1>1 DEF Inv, Typed
<1> QED BY <1>1, <1>2, <1>3, QuietMove DEF Places, Ahead, Behind, PipePlaces, AtWork, Working

LEMMA RunScriptKeeps ==
  ASSUME Inv, NEW p \in Processes, NEW s \in Steps, RunScript(p, s) PROVE Inv'
<1> USE DEF process
<1>1. /\ Lives(p) /\ at[<<p, s>>] = "script"
      /\ UNCHANGED <<scenario, pc, plan, next, abandoned, containers>>
  BY DEF RunScript, AtItem, In
<1>2. cancelled' \subseteq Processes
  BY DEF RunScript, Inv, Typed
<1>3. CASE NextItem(p, s) /\ UNCHANGED at
  <2>1. Goto(<<p, s>>, "script")
    BY <1>1, <1>3 DEF Inv, Typed
  <2> QED BY <1>1, <1>2, <1>3, <2>1, QuietMove
          DEF Places, Ahead, Behind, PipePlaces, AtWork, Working
<1>4. CASE FailJob(p, s) /\ UNCHANGED item
  <2>1. Goto(<<p, s>>, "leave") /\ UNCHANGED item
    BY <1>4 DEF FailJob
  <2> QED BY <1>1, <1>2, <2>1, QuietMove
          DEF Places, Ahead, Behind, PipePlaces, AtWork, Working
<1> QED BY <1>3, <1>4 DEF RunScript

LEMMA DestroyAtEndKeeps ==
  ASSUME Inv, NEW p \in Processes, NEW s \in Steps, DestroyAtEnd(p, s) PROVE Inv'
<1> USE DEF process
<1>1. /\ Lives(p) /\ at[<<p, s>>] = "script" /\ Goto(<<p, s>>, "close")
      /\ Destroy(p, RunID(<<p, s, 0>>))
      /\ UNCHANGED <<scenario, pc, plan, next, abandoned, item>>
  BY DEF DestroyAtEnd, In
<1>2. cancelled' \subseteq Processes
  BY DEF DestroyAtEnd, Inv, Typed
<1>3. 0 \in Items /\ Removable(p, s, 0)
  BY ScriptItems DEF Removable
<1>4. \E i \in Items : Removable(p, s, i) /\ Destroy(p, RunID(<<p, s, i>>)) /\ "close" \notin AtWork
  BY <1>1, <1>3 DEF AtWork, Working
<1> QED BY <1>1, <1>2, <1>4, QuietMove DEF Places, Ahead, Behind, PipePlaces, AtWork, Working

LEMMA CloseKeeps ==
  ASSUME Inv, NEW p \in Processes, NEW s \in Steps, Close(p, s) PROVE Inv'
<1> USE DEF process
<1>1. /\ Lives(p) /\ at[<<p, s>>] = "close" /\ Goto(<<p, s>>, "leave")
      /\ UNCHANGED <<scenario, pc, plan, next, abandoned, containers, item>>
  BY DEF Close, In
<1>2. cancelled' \subseteq Processes
  BY DEF Close, Inv, Typed
<1> QED BY <1>1, <1>2, QuietMove DEF Places, Ahead, Behind, PipePlaces, AtWork, Working

LEMMA StartPipeKeeps ==
  ASSUME Inv, NEW p \in Processes, NEW s \in Steps, StartPipe(p, s) PROVE Inv'
<1> USE DEF process
<1>1. /\ Lives(p) /\ at[<<p, s>>] = "script"
      /\ item[<<p, s>>] \in DOMAIN Script[s] /\ Script[s][item[<<p, s>>]].kind = "pipe"
      /\ UNCHANGED <<scenario, pc, plan, next, abandoned, containers, item>>
  BY DEF StartPipe, AtItem, In
<1>2. cancelled' \subseteq Processes
  BY DEF StartPipe, Inv, Typed
<1>3. CASE Goto(<<p, s>>, "pipe remove")
  BY <1>1, <1>2, <1>3, QuietMove DEF Places, Ahead, Behind, PipePlaces, AtWork, Working
<1>4. CASE FailJob(p, s)
  <2>1. Goto(<<p, s>>, "leave")
    BY <1>4 DEF FailJob
  <2> QED BY <1>1, <1>2, <2>1, QuietMove
          DEF Places, Ahead, Behind, PipePlaces, AtWork, Working
<1> QED BY <1>3, <1>4 DEF StartPipe

LEMMA AtPipeIs ==
  ASSUME Inv, NEW p \in Processes, NEW s \in Steps, at[<<p, s>>] \in PipePlaces
  PROVE  /\ item[<<p, s>>] \in DOMAIN Script[s] /\ Script[s][item[<<p, s>>]].kind = "pipe"
         /\ item[<<p, s>>] \in Items /\ item[<<p, s>>] # 0
<1>1. AtPipe(p, s) /\ item[<<p, s>>] \in Nat \ {0}
  BY OfJob
<1> QED BY <1>1, ScriptItems DEF AtPipe, PipePlaces

LEMMA RemovePipeOrphanKeeps ==
  ASSUME Inv, NEW p \in Processes, NEW s \in Steps, RemovePipeOrphan(p, s) PROVE Inv'
<1> USE DEF process
<1>1. /\ Lives(p) /\ at[<<p, s>>] = "pipe remove" /\ Goto(<<p, s>>, "pipe create")
      /\ Destroy(p, RunID(<<p, s, item[<<p, s>>]>>))
      /\ UNCHANGED <<scenario, pc, plan, next, abandoned, item>>
  BY DEF RemovePipeOrphan, In
<1>2. cancelled' \subseteq Processes
  BY DEF RemovePipeOrphan, Inv, Typed
<1>3. /\ item[<<p, s>>] \in DOMAIN Script[s] /\ Script[s][item[<<p, s>>]].kind = "pipe"
      /\ item[<<p, s>>] \in Items /\ item[<<p, s>>] # 0
  BY <1>1, AtPipeIs DEF PipePlaces
<1>4. Removable(p, s, item[<<p, s>>])
  BY <1>3 DEF Removable
<1> QED BY <1>1, <1>2, <1>3, <1>4, QuietMove
    DEF Places, Ahead, Behind, PipePlaces, AtWork, Working

LEMMA RunPipeKeeps ==
  ASSUME Inv, NEW p \in Processes, NEW s \in Steps, RunPipe(p, s) PROVE Inv'
<1> USE DEF process
<1>1. /\ Lives(p) /\ at[<<p, s>>] = "pipe" /\ Goto(<<p, s>>, "pipe end")
      /\ UNCHANGED <<scenario, pc, plan, next, abandoned, containers, item>>
  BY DEF RunPipe, In
<1>2. cancelled' \subseteq Processes
  BY DEF RunPipe, Inv, Typed
<1>3. item[<<p, s>>] \in DOMAIN Script[s] /\ Script[s][item[<<p, s>>]].kind = "pipe"
  BY <1>1, AtPipeIs DEF PipePlaces
<1> QED BY <1>1, <1>2, <1>3, QuietMove DEF Places, Ahead, Behind, PipePlaces, AtWork, Working
-----------------------------------------------------------------------------
(* Creations and removals. *)

\* There may be a container with or without one that is owed from then on.
LEMMA CountWithAbandoned ==
  ASSUME Inv, NEW p \in Processes, NEW s \in Steps, NEW i \in Items, NEW w, Lives(p),
         UNCHANGED pc, Goto(<<p, s>>, w), UNCHANGED item,
         at[<<p, s>>] \in {"create", "pipe create"}, w \in Behind \union {"script", "pipe"},
         at[<<p, s>>] = "pipe create" => w \in Working,
         <<p, s, i>> \notin abandoned, ~Due(p, s, i),
         \/ UNCHANGED <<containers, abandoned>>
         \/ /\ containers' = containers \union {<<p, s, i>>}
            /\ \/ abandoned' = abandoned \union {<<p, s, i>>}
               \/ UNCHANGED abandoned /\ Due(p, s, i)'
  PROVE  Counted'
<1> DEFINE c == <<p, s, i>>
<1>1. /\ <<p, s>> \in Job /\ item[<<p, s>>] \in Nat \ {0} /\ c \in Every
      /\ containers \subseteq Every /\ abandoned \subseteq Every
  BY OfJob
<1>2. at'[<<p, s>>] = w
  BY <1>1 DEF Inv, Typed
<1>3. ASSUME NEW k \in Items, Due(p, s, k) PROVE Due(p, s, k)'
  BY <1>2, <1>3 DEF Due, Working
<1>4. abandoned \subseteq abandoned' /\ abandoned' \subseteq Every
  BY <1>1
<1>5. Owed \ {} \subseteq Owed' /\ Owed' \subseteq Every
  BY <1>3, <1>4, OwedAfter
<1>6. CASE UNCHANGED <<containers, abandoned>>
  BY <1>5, <1>6, CountKept
<1>7. CASE /\ containers' = containers \union {c}
           /\ \/ abandoned' = abandoned \union {c}
              \/ UNCHANGED abandoned /\ Due(p, s, i)'
  <2>1. c \notin Owed
    BY HeldIs DEF Owed
  <2>2. c \in Owed'
    <3>1. Lives(p)'
      BY DEF Lives
    <3>2. CASE abandoned' = abandoned \union {c}
      BY <3>2 DEF Owed
    <3>3. CASE Due(p, s, i)'
      BY <3>1, <3>3, HeldNextIs DEF Owed
    <3> QED BY <1>7, <3>2, <3>3
  <2>3. Owed \union {c} \subseteq Owed'
    BY <1>5, <2>2
  <2> QED BY <1>1, <1>5, <1>7, <2>1, <2>3, CountCreated
<1> QED BY <1>6, <1>7

LEMMA CreateKeeps ==
  ASSUME Inv, NEW p \in Processes, NEW s \in Steps, Create(p, s) PROVE Inv'
<1> USE DEF process
<1> DEFINE c == <<p, s, 0>>
<1>1. /\ Lives(p) /\ at[<<p, s>>] = "create"
      /\ UNCHANGED <<scenario, pc, plan, next, item>>
  BY DEF Create, In
<1>2. /\ <<p, s>> \in Job /\ item[<<p, s>>] \in Nat \ {0} /\ c \in Every /\ 0 \in Items
      /\ containers \subseteq Every /\ abandoned \subseteq Every /\ Fresh(p, s)
  BY OfJob, ScriptItems
<1>3. c \notin abandoned
  BY <1>1, <1>2 DEF Fresh, Ahead, Lives
<1>4. ~Due(p, s, 0)
  BY <1>1, <1>2 DEF Due, Working
<1>5. CASE /\ Goto(<<p, s>>, "script") /\ containers' = containers \union {c}
           /\ UNCHANGED <<cancelled, abandoned>>
  <2>1. at'[<<p, s>>] = "script" /\ cancelled' \subseteq Processes
    BY <1>2, <1>5 DEF Inv, Typed
  <2>2. Due(p, s, 0)'
    BY <2>1 DEF Due, Working
  <2>3. Counted'
    BY <1>1, <1>2, <1>3, <1>4, <1>5, <2>2, CountWithAbandoned DEF Behind
  <2>4. c \in containers' /\ containers' \subseteq Every /\ containers \subseteq containers'
    BY <1>2, <1>5
  <2> QED BY <1>1, <1>2, <1>5, <2>1, <2>3, <2>4, Move
          DEF Places, Ahead, Behind, PipePlaces, AtWork, Working
<1>6. CASE FailToCreate(p, c) /\ EndOfJob(p, s, "failed")
  <2>1. cancelled' \subseteq Processes /\ Goto(<<p, s>>, "failed")
    BY <1>6, CancelKeeps DEF EndOfJob
  <2>2. \/ UNCHANGED <<containers, abandoned>>
        \/ containers' = containers \union {c} /\ abandoned' = abandoned \union {c}
    BY <1>6 DEF FailToCreate
  <2>3. Counted'
    BY <1>1, <1>2, <1>3, <1>4, <2>1, <2>2, CountWithAbandoned DEF Behind
  <2>4. containers' \subseteq Every /\ containers \subseteq containers'
    BY <1>2, <2>2
  <2>5. \/ UNCHANGED abandoned
        \/ \E k \in Items :
             /\ abandoned' = abandoned \union {<<p, s, k>>} /\ (k = 0 => "failed" \notin Ahead)
             /\ k < item'[<<p, s>>] \/ (k = item'[<<p, s>>] /\ "failed" \in Behind)
    <3>1. 0 < item'[<<p, s>>] /\ "failed" \notin Ahead
      BY <1>1, <1>2 DEF Ahead
    <3> QED BY <1>2, <2>2, <3>1
  <2> QED BY <1>1, <2>1, <2>3, <2>4, <2>5, Move
          DEF Places, Ahead, Behind, PipePlaces, AtWork, Working
<1> QED BY <1>5, <1>6 DEF Create

LEMMA CreatePipeKeeps ==
  ASSUME Inv, NEW p \in Processes, NEW s \in Steps, CreatePipe(p, s) PROVE Inv'
<1> USE DEF process
<1> DEFINE k == item[<<p, s>>]
           c == <<p, s, k>>
<1>1. /\ Lives(p) /\ at[<<p, s>>] = "pipe create"
      /\ UNCHANGED <<scenario, pc, plan, next, item>>
  BY DEF CreatePipe, In
<1>2. /\ k \in DOMAIN Script[s] /\ Script[s][k].kind = "pipe"
      /\ k \in Items /\ k # 0
  BY <1>1, AtPipeIs DEF PipePlaces
<1>3. /\ <<p, s>> \in Job /\ k \in Nat \ {0} /\ c \in Every
      /\ containers \subseteq Every /\ abandoned \subseteq Every /\ Fresh(p, s)
  BY <1>2, OfJob
<1>4. c \notin abandoned
  BY <1>1, <1>2, <1>3 DEF Fresh, Behind, Lives
<1>5. ~Due(p, s, k)
  BY <1>1, <1>2 DEF Due
<1>6. cancelled' \subseteq Processes
  BY DEF CreatePipe, Inv, Typed
<1>7. CASE /\ Goto(<<p, s>>, "pipe") /\ containers' = containers \union {c}
           /\ UNCHANGED abandoned
  <2>1. at'[<<p, s>>] = "pipe"
    BY <1>3, <1>7 DEF Inv, Typed
  <2>2. Due(p, s, k)'
    BY <1>1, <2>1 DEF Due
  <2>3. Counted'
    BY <1>1, <1>2, <1>4, <1>5, <1>7, <2>2, CountWithAbandoned DEF Behind, Working
  <2>4. containers' \subseteq Every /\ containers \subseteq containers'
    BY <1>3, <1>7
  <2> QED BY <1>1, <1>2, <1>6, <1>7, <2>3, <2>4, Move
          DEF Places, Ahead, Behind, PipePlaces, AtWork, Working
<1>8. CASE FailToCreate(p, c) /\ FailJob(p, s)
  <2>1. Goto(<<p, s>>, "leave")
    BY <1>8 DEF FailJob
  <2>2. \/ UNCHANGED <<containers, abandoned>>
        \/ containers' = containers \union {c} /\ abandoned' = abandoned \union {c}
    BY <1>8 DEF FailToCreate
  <2>3. Counted'
    BY <1>1, <1>2, <1>4, <1>5, <2>1, <2>2, CountWithAbandoned DEF Behind, Working
  <2>4. containers' \subseteq Every /\ containers \subseteq containers'
    BY <1>3, <2>2
  <2>5. \/ UNCHANGED abandoned
        \/ \E i \in Items :
             /\ abandoned' = abandoned \union {<<p, s, i>>} /\ (i = 0 => "leave" \notin Ahead)
             /\ i < item'[<<p, s>>] \/ (i = item'[<<p, s>>] /\ "leave" \in Behind)
    <3>1. k = item'[<<p, s>>] /\ "leave" \in Behind
      BY <1>1 DEF Behind
    <3> QED BY <1>2, <2>2, <3>1
  <2> QED BY <1>1, <1>6, <2>1, <2>3, <2>4, <2>5, Move
          DEF Places, Ahead, Behind, PipePlaces, AtWork, Working
<1> QED BY <1>7, <1>8 DEF CreatePipe

\* The deferred removal of a container: it is no longer owed, or it is abandoned.
LEMMA CountRemoved ==
  ASSUME Inv, NEW p \in Processes, NEW s \in Steps, NEW i \in Items, NEW w, Lives(p),
         UNCHANGED pc, Goto(<<p, s>>, w), UNCHANGED item \/ NextItem(p, s),
         Destroy(p, RunID(<<p, s, i>>)),
         abandoned' = IF p \in cancelled THEN abandoned \union {<<p, s, i>>} ELSE abandoned,
         \A k \in Items : Due(p, s, k) => Due(p, s, k)' \/ k = i
  PROVE  Counted'
<1> DEFINE c == <<p, s, i>>
<1>1. c \in Every /\ containers \subseteq Every /\ abandoned \subseteq Every
  BY OfJob
<1>2. abandoned \subseteq abandoned' /\ abandoned' \subseteq Every
  BY <1>1
<1>3. CASE p \in cancelled
  <2>1. \A k \in Items : Due(p, s, k) =>
          Due(p, s, k)' \/ <<p, s, k>> \in abandoned' \/ <<p, s, k>> \in {}
    BY <1>3
  <2>2. Owed \ {} \subseteq Owed' /\ Owed' \subseteq Every
    BY <1>2, <2>1, OwedAfter
  <2>3. containers' \subseteq containers
    BY <1>3 DEF Destroy
  <2> QED BY <2>2, <2>3, CountKept
<1>4. CASE p \notin cancelled
  <2>1. \A k \in Items : Due(p, s, k) =>
          Due(p, s, k)' \/ <<p, s, k>> \in abandoned' \/ <<p, s, k>> \in {c}
    OBVIOUS
  <2>2. Owed \ {c} \subseteq Owed' /\ Owed' \subseteq Every
    BY <1>2, <2>1, OwedAfter
  <2> QED BY <1>4, <2>2, CountDestroyed
<1> QED BY <1>3, <1>4

LEMMA LeaveKeeps ==
  ASSUME Inv, NEW p \in Processes, NEW s \in Steps, Leave(p, s) PROVE Inv'
<1> USE DEF process
<1> DEFINE w == IF ok[<<p, s>>] THEN "done" ELSE "failed"
<1>1. /\ Lives(p) /\ at[<<p, s>>] = "leave" /\ Goto(<<p, s>>, w)
      /\ Destroy(p, RunID(<<p, s, 0>>))
      /\ abandoned' = IF p \in cancelled THEN abandoned \union {<<p, s, 0>>} ELSE abandoned
      /\ UNCHANGED <<scenario, pc, plan, next, item>>
  BY DEF Leave, In, EndOfJob
<1>2. cancelled' \subseteq Processes
  BY CancelKeeps DEF Leave, EndOfJob
<1>3. /\ <<p, s>> \in Job /\ item[<<p, s>>] \in Nat \ {0} /\ 0 \in Items
      /\ containers \subseteq Every
  BY OfJob, ScriptItems
<1>4. Counted'
  <2>1. \A k \in Items : Due(p, s, k) => Due(p, s, k)' \/ k = 0
    BY <1>1 DEF Due
  <2> QED BY <1>1, <1>3, <2>1, CountRemoved
<1>5. containers' \subseteq Every
  BY <1>1, <1>3 DEF Destroy
<1>6. w \in {"done", "failed"}
  OBVIOUS
<1> HIDE DEF w
<1>7. \/ UNCHANGED abandoned
      \/ \E k \in Items :
           /\ abandoned' = abandoned \union {<<p, s, k>>} /\ (k = 0 => w \notin Ahead)
           /\ k < item'[<<p, s>>] \/ (k = item'[<<p, s>>] /\ w \in Behind)
  <2>1. 0 < item'[<<p, s>>] /\ w \notin Ahead
    BY <1>1, <1>3, <1>6 DEF Ahead
  <2> QED BY <1>1, <1>3, <2>1
<1>8. \E i \in Items :
        Removable(p, s, i) /\ Destroy(p, RunID(<<p, s, i>>)) /\ (w \in AtWork => i # 0)
  BY <1>1, <1>3, <1>6 DEF Removable, AtWork, Working
<1> QED BY <1>1, <1>2, <1>4, <1>5, <1>6, <1>7, <1>8, Move
    DEF Places, Ahead, Behind, PipePlaces, AtWork, Working

LEMMA EndPipeKeeps ==
  ASSUME Inv, NEW p \in Processes, NEW s \in Steps, EndPipe(p, s) PROVE Inv'
<1> USE DEF process
<1> DEFINE n == item[<<p, s>>]
<1>1. /\ Lives(p) /\ at[<<p, s>>] = "pipe end" /\ Destroy(p, RunID(<<p, s, n>>))
      /\ abandoned' = IF p \in cancelled THEN abandoned \union {<<p, s, n>>} ELSE abandoned
      /\ UNCHANGED <<scenario, pc, plan, next>>
      /\ \/ NextItem(p, s) /\ Goto(<<p, s>>, "script")
         \/ UNCHANGED item /\ Goto(<<p, s>>, "leave")
  BY DEF EndPipe, In
<1>2. cancelled' \subseteq Processes
  BY DEF EndPipe, Inv, Typed
<1>3. /\ <<p, s>> \in Job /\ n \in Nat \ {0} /\ containers \subseteq Every
      /\ n \in DOMAIN Script[s] /\ Script[s][n].kind = "pipe" /\ n \in Items
  BY <1>1, OfJob, AtPipeIs DEF PipePlaces
<1>4. PICK w \in {"script", "leave"} :
        /\ Goto(<<p, s>>, w)
        /\ UNCHANGED item \/ NextItem(p, s)
        /\ n < item'[<<p, s>>] \/ (n = item'[<<p, s>>] /\ w \in Behind)
  <2>1. CASE NextItem(p, s) /\ Goto(<<p, s>>, "script")
    <3>1. item'[<<p, s>>] = n + 1
      BY <1>3, <2>1 DEF NextItem, Inv, Typed
    <3>2. n < item'[<<p, s>>]
      BY <1>3, <3>1
    <3> QED BY <2>1, <3>2
  <2>2. CASE UNCHANGED item /\ Goto(<<p, s>>, "leave")
    <3>1. n = item'[<<p, s>>] /\ "leave" \in Behind
      BY <2>2 DEF Behind
    <3> QED BY <2>2, <3>1
  <2> QED BY <1>1, <2>1, <2>2
<1> HIDE DEF n
<1>5. Counted'
  <2>1. at'[<<p, s>>] = w
    BY <1>3, <1>4 DEF Inv, Typed
  <2>2. \A k \in Items : Due(p, s, k) => Due(p, s, k)' \/ k = n
    BY <2>1 DEF Due, Working, n
  <2> QED BY <1>1, <1>3, <1>4, <2>2, CountRemoved
<1>6. containers' \subseteq Every
  BY <1>1, <1>3 DEF Destroy
<1>7. \/ UNCHANGED abandoned
      \/ \E k \in Items :
           /\ abandoned' = abandoned \union {<<p, s, k>>} /\ (k = 0 => w \notin Ahead)
           /\ k < item'[<<p, s>>] \/ (k = item'[<<p, s>>] /\ w \in Behind)
  BY <1>1, <1>3, <1>4
<1>8. \E i \in Items :
        Removable(p, s, i) /\ Destroy(p, RunID(<<p, s, i>>)) /\ (w \in AtWork => i # 0)
  BY <1>1, <1>3 DEF Removable, n
<1>9. w \in AtWork => at[<<p, s>>] \in AtWork \/ <<p, s, 0>> \in containers'
  BY <1>1 DEF AtWork, Working
<1> QED BY <1>1, <1>2, <1>4, <1>5, <1>6, <1>7, <1>8, <1>9, Move
    DEF Places, Ahead, Behind, PipePlaces
-----------------------------------------------------------------------------
(* The steps of a process. *)

\* What a process does by itself leaves its steps, and what they hold, as they are.
LEMMA ProcessKeeps ==
  ASSUME Inv, NEW p \in Processes, NEW w \in {"started", "steps", "in step", "done"},
         UNCHANGED <<scenario, cancelled, at, item, containers, abandoned>>,
         pc' = [pc EXCEPT ![p] = w], pc[p] # "exited",
         Lives(p) \/ \A s \in Steps : at[<<p, s>>] = "idle",
         Typed', \A q \in Processes : Planned(q)'
  PROVE  Inv'
<1>1. pc \in [Processes -> ProcessPlaces]
  BY DEF Inv, Typed
<1>2. pc'[p] = w /\ Lives(p)' /\ \A q \in Processes \ {p} : pc'[q] = pc[q]
  BY <1>1 DEF Lives
<1>3. ASSUME NEW q \in Processes, NEW t \in Steps
      PROVE  (AtPipe(q, t) /\ Fresh(q, t) /\ Stays(q, t))'
  <2>1. AtPipe(q, t) /\ Fresh(q, t) /\ Stays(q, t)
    BY OfJob
  <2>2. Rivals(q, t)' = Rivals(q, t)
    BY DEF Rivals, RunID
  <2>3. AtPipe(q, t)' /\ Fresh(q, t)'
    BY <1>1, <1>2, <2>1 DEF AtPipe, Fresh
  <2>4. Stays(q, t)'
    <3>1. CASE q # p
      BY <1>2, <2>1, <2>2, <3>1 DEF Stays, Lives
    <3>2. CASE q = p
      BY <2>1, <2>2, <3>2 DEF Stays, Working
    <3> QED BY <3>1, <3>2
  <2> QED BY <2>3, <2>4
<1>4. Owed' \subseteq Every
  BY HeldInEvery DEF Owed, Typed
<1>5. ASSUME NEW c \in Held PROVE c \in Held'
  <2>0. c \in Every
    BY HeldInEvery
  <2>1. PICK q \in Processes, t \in Steps, i \in Items : c = <<q, t, i>>
    BY <2>0, InEvery
  <2>2. Lives(q) /\ Due(q, t, i)
    BY <2>1, HeldIs
  <2>3. Lives(q)' /\ Due(q, t, i)'
    BY <1>2, <2>2 DEF Lives, Due
  <2> QED BY <2>1, <2>3, HeldNextIs
<1>6. Counted'
  BY <1>4, <1>5, CountKept DEF Owed
<1> QED BY <1>3, <1>6 DEF Inv, StepInv

LEMMA ExecuteKeeps ==
  ASSUME Inv, NEW p \in Processes, Execute(p) PROVE Inv'
<1> USE DEF step
<1>1. /\ pc[p] = "idle" /\ pc' = [pc EXCEPT ![p] = "started"]
      /\ UNCHANGED <<scenario, plan, next, cancelled, at, item, containers, abandoned>>
  BY DEF Execute
<1>2. \A s \in Steps : at[<<p, s>>] = "idle"
  BY <1>1 DEF Inv, Planned
<1>3. Typed'
  BY <1>1 DEF Inv, Typed, ProcessPlaces
<1>4. ASSUME NEW q \in Processes PROVE Planned(q)'
  <2>1. CASE q = p
    BY <1>1, <1>2, <2>1 DEF Inv, Planned
  <2>2. CASE q # p
    <3>1. pc'[q] = pc[q] /\ Planned(q)
      BY <1>1, <2>2 DEF Inv, Typed
    <3> QED BY <1>1, <3>1 DEF Planned
  <2> QED BY <2>1, <2>2
<1> QED BY <1>1, <1>2, <1>3, <1>4, ProcessKeeps

LEMMA DetectBranchKeeps ==
  ASSUME Inv, NEW p \in Processes, DetectBranch(p) PROVE Inv'
<1> USE DEF step
<1>1. /\ pc[p] = "started"
      /\ UNCHANGED <<scenario, next, cancelled, at, item, containers, abandoned>>
      /\ pc \in [Processes -> ProcessPlaces] /\ plan \in [Processes -> Seq(PlanItem)]
  BY DEF DetectBranch, Inv, Typed
<1>2. PICK w \in {"steps", "done"}, l \in {plan[p], PlanOf(scenario[p])} :
        pc' = [pc EXCEPT ![p] = w] /\ plan' = [plan EXCEPT ![p] = l]
  <2>1. CASE pc' = [pc EXCEPT ![p] = "steps"] /\ plan' = [plan EXCEPT ![p] = PlanOf(scenario[p])]
    BY <2>1
  <2>2. CASE End(p, "error") /\ UNCHANGED plan
    <3>1. plan' = [plan EXCEPT ![p] = plan[p]]
      BY <1>1, <2>2
    <3> QED BY <2>2, <3>1 DEF End
  <2> QED BY <2>1, <2>2 DEF DetectBranch
<1>3. /\ l \in Seq(PlanItem)
      /\ \A j, k \in DOMAIN l : l[j].step = l[k].step => j = k
  <2>1. CASE l = plan[p]
    BY <1>1, <2>1 DEF Inv, Planned
  <2>2. CASE l = PlanOf(scenario[p])
    <3>1. scenario[p].cli \in BOOLEAN
      BY DEF Inv, Typed
    <3> QED BY <2>2, <3>1, PlanIs
  <2> QED BY <2>1, <2>2
<1>4. \A s \in Steps : at[<<p, s>>] = "idle"
  BY <1>1 DEF Inv, Planned
<1>5. Typed'
  BY <1>1, <1>2, <1>3 DEF Inv, Typed, ProcessPlaces
<1>6. ASSUME NEW q \in Processes PROVE Planned(q)'
  <2>1. CASE q = p
    <3>1. plan'[p] = l
      BY <1>1, <1>2
    <3> QED BY <1>1, <1>3, <1>4, <2>1, <3>1 DEF Planned
  <2>2. CASE q # p
    <3>1. pc'[q] = pc[q] /\ plan'[q] = plan[q] /\ Planned(q)
      BY <1>1, <1>2, <2>2 DEF Inv
    <3> QED BY <1>1, <3>1 DEF Planned
  <2> QED BY <2>1, <2>2
<1> QED BY <1>1, <1>2, <1>4, <1>5, <1>6, ProcessKeeps

LEMMA EndStepKeeps ==
  ASSUME Inv, NEW p \in Processes, EndStep(p) PROVE Inv'
<1> USE DEF step
<1>1. /\ pc[p] = "in step" /\ UNCHANGED plan
      /\ UNCHANGED <<scenario, cancelled, at, item, containers, abandoned>>
      /\ pc \in [Processes -> ProcessPlaces] /\ next \in [Processes -> Nat \ {0}]
  BY DEF EndStep, Inv, Typed
<1>2. PICK w \in {"steps", "done"}, n \in {next[p], next[p] + 1} :
        /\ pc' = [pc EXCEPT ![p] = w] /\ next' = [next EXCEPT ![p] = n]
        /\ w = "steps" => n = next[p] + 1
  <2>1. CASE next' = [next EXCEPT ![p] = @ + 1] /\ pc' = [pc EXCEPT ![p] = "steps"]
    BY <2>1
  <2>2. CASE End(p, "error") /\ UNCHANGED next
    <3>1. next' = [next EXCEPT ![p] = next[p]]
      BY <1>1, <2>2
    <3> QED BY <2>2, <3>1 DEF End
  <2> QED BY <2>1, <2>2 DEF EndStep
<1>3. next[p] \in Nat \ {0} /\ n \in Nat \ {0}
  <2>1. next[p] \in Nat \ {0}
    BY <1>1
  <2> QED BY <2>1
<1>4. Typed'
  BY <1>1, <1>2, <1>3 DEF Inv, Typed, ProcessPlaces
<1>5. ASSUME NEW q \in Processes PROVE Planned(q)'
  <2>1. CASE q = p
    <3>0. pc'[p] = w /\ next'[p] = n /\ plan' = plan /\ at' = at
      BY <1>1, <1>2
    <3> SUFFICES ASSUME NEW s \in Steps, at[<<p, s>>] # "idle"
                 PROVE  \E k \in DOMAIN plan[p] :
                          plan[p][k].step = s /\ (k < n \/ (k = n /\ w # "steps"))
      BY <2>1, <3>0 DEF Inv, Planned
    <3>1. PICK k \in DOMAIN plan[p] :
            plan[p][k].step = s /\ (k < next[p] \/ (k = next[p] /\ pc[p] # "steps"))
      <4>1. Planned(p) /\ pc[p] # "exited"
        BY <1>1 DEF Inv
      <4> QED BY <4>1 DEF Planned
    <3>2. k \in Nat
      BY DEF Inv, Typed
    <3>3. k < n \/ (k = n /\ w # "steps")
      BY <1>2, <1>3, <3>1, <3>2
    <3> QED BY <3>1, <3>3
  <2>2. CASE q # p
    <3>1. /\ pc'[q] = pc[q] /\ next'[q] = next[q] /\ Planned(q)
          /\ plan' = plan /\ at' = at
      BY <1>1, <1>2, <2>2 DEF Inv
    <3> QED BY <3>1 DEF Planned
  <2> QED BY <2>1, <2>2
<1>6. Lives(p)
  BY <1>1 DEF Lives
<1> QED BY <1>1, <1>2, <1>4, <1>5, <1>6, ProcessKeeps

LEMMA ReturnKeeps ==
  ASSUME Inv, NEW p \in Processes, Return(p) PROVE Inv'
<1> USE DEF step
<1>1. /\ pc[p] = "steps" /\ pc' = [pc EXCEPT ![p] = "done"]
      /\ UNCHANGED <<scenario, plan, next, cancelled, at, item, containers, abandoned>>
      /\ pc \in [Processes -> ProcessPlaces]
  BY DEF Return, End, Inv, Typed
<1>2. Typed'
  BY <1>1 DEF Inv, Typed, ProcessPlaces
<1>3. ASSUME NEW q \in Processes PROVE Planned(q)'
  <2>1. Planned(q) /\ (pc'[q] = pc[q] \/ (pc'[q] = "done" /\ pc[q] = "steps"))
    BY <1>1 DEF Inv
  <2> QED BY <1>1, <2>1 DEF Planned
<1>4. Lives(p)
  BY <1>1 DEF Lives
<1> QED BY <1>1, <1>2, <1>3, <1>4, ProcessKeeps

LEMMA StartStepKeeps ==
  ASSUME Inv, NEW p \in Processes, StartStep(p) PROVE Inv'
<1> DEFINE e == plan[p][next[p]]
           j == <<p, e.step>>
<1>1. /\ pc[p] = "steps" /\ next[p] \in DOMAIN plan[p] /\ UNCHANGED plan
      /\ UNCHANGED <<scenario, cancelled, item, containers, abandoned>>
      /\ next \in [Processes -> Nat \ {0}] /\ pc \in [Processes -> ProcessPlaces]
      /\ plan[p] \in Seq(PlanItem)
  <2>1. next[p] \in Nat \ {0} /\ next[p] <= Len(plan[p]) /\ plan[p] \in Seq(PlanItem)
    BY DEF StartStep, Inv, Typed
  <2>2. next[p] \in DOMAIN plan[p]
    BY <2>1
  <2> QED BY <2>1, <2>2 DEF StartStep, Inv, Typed
<1>2. e.step \in Steps /\ j \in Job
  <2>1. e \in PlanItem
    BY <1>1
  <2> QED BY <2>1 DEF PlanItem, Job
<1>3. at[j] = "idle"
  <2> SUFFICES ASSUME at[j] # "idle" PROVE FALSE
    OBVIOUS
  <2>1. PICK k \in DOMAIN plan[p] :
          plan[p][k].step = e.step /\ (k < next[p] \/ (k = next[p] /\ pc[p] # "steps"))
    BY <1>1, <1>2 DEF Inv, Planned
  <2>2. k = next[p]
    BY <1>1, <2>1 DEF Inv, Planned
  <2>3. next[p] \in Nat
    BY <1>1
  <2> QED BY <1>1, <2>1, <2>2, <2>3
<1>4. PICK v, w, n :
        /\ v \in {"queued", "start"} /\ w \in {"steps", "in step"}
        /\ n \in {next[p], next[p] + 1}
        /\ Goto(j, v) /\ pc' = [pc EXCEPT ![p] = w] /\ next' = [next EXCEPT ![p] = n]
        /\ n = next[p] + 1 \/ w # "steps"
  <2>1. CASE e.async
    <3>1. pc' = [pc EXCEPT ![p] = "steps"]
      BY <1>1, <2>1 DEF StartStep
    <3> QED BY <2>1, <3>1 DEF StartStep
  <2>2. CASE ~e.async
    <3>1. next' = [next EXCEPT ![p] = next[p]]
      BY <1>1, <2>2 DEF StartStep
    <3> QED BY <2>2, <3>1 DEF StartStep
  <2> QED BY <2>1, <2>2
<1> HIDE DEF e
<1>5. next[p] \in Nat \ {0} /\ n \in Nat \ {0}
  <2>1. next[p] \in Nat \ {0}
    BY <1>1
  <2>2. n = next[p] \/ n = next[p] + 1
    BY <1>4
  <2> QED BY <2>1, <2>2
<1>6. (n = next[p] /\ w # "steps") \/ n = next[p] + 1
  <2>1. n \in {next[p], next[p] + 1}
    BY <1>4
  <2>2. n = next[p] + 1 \/ w # "steps"
    BY <1>4
  <2> QED BY <2>1, <2>2
<1>7. /\ at \in [Job -> Places] /\ at' \in [Job -> Places] /\ at'[j] = v
      /\ \A i \in Job \ {j} : at'[i] = at[i]
  BY <1>2, <1>4 DEF Inv, Typed, Places
<1>8. pc'[p] = w /\ next'[p] = n /\ \A q \in Processes \ {p} : pc'[q] = pc[q] /\ next'[q] = next[q]
  BY <1>1, <1>4
<1>9. Typed'
  BY <1>1, <1>4, <1>5, <1>7 DEF Inv, Typed, ProcessPlaces
<1>10. ASSUME NEW q \in Processes PROVE Lives(q)' <=> Lives(q)
  <2>1. w \in {"steps", "in step"}
    BY <1>4
  <2> QED BY <1>1, <1>8, <2>1 DEF Lives
<1>11. ASSUME NEW q \in Processes PROVE Planned(q)'
  <2>1. CASE q = p
    <3>1. plan' = plan /\ \A k, l \in DOMAIN plan[p] : plan[p][k].step = plan[p][l].step => k = l
      BY <1>1 DEF Inv, Planned
    <3>2. ASSUME NEW s \in Steps, at'[<<p, s>>] # "idle"
          PROVE  \E k \in DOMAIN plan[p] :
                   plan[p][k].step = s /\ (k < n \/ (k = n /\ w # "steps"))
      <4>1. CASE s = e.step
        <5>1. next[p] < n \/ (next[p] = n /\ w # "steps")
          BY <1>5, <1>6
        <5> QED BY <1>1, <4>1, <5>1 DEF e
      <4>2. CASE s # e.step
        <5>1. <<p, s>> \in Job \ {j}
          BY <4>2 DEF Job
        <5>2. at[<<p, s>>] # "idle"
          BY <1>7, <3>2, <5>1
        <5>3. PICK k \in DOMAIN plan[p] :
                plan[p][k].step = s /\ (k < next[p] \/ (k = next[p] /\ pc[p] # "steps"))
          BY <1>1, <5>2 DEF Inv, Planned
        <5>4. k \in Nat
          BY <1>1
        <5>5. k < next[p]
          BY <1>1, <1>5, <5>3, <5>4
        <5>6. k < n
          BY <1>5, <1>6, <5>4, <5>5
        <5> QED BY <5>3, <5>6
      <4> QED BY <4>1, <4>2
    <3>3. w \in {"steps", "in step"}
      BY <1>4
    <3> QED BY <1>8, <2>1, <3>1, <3>2, <3>3 DEF Planned
  <2>2. CASE q # p
    <3>1. pc'[q] = pc[q] /\ next'[q] = next[q] /\ Planned(q) /\ plan' = plan
      BY <1>1, <1>8, <2>2 DEF Inv
    <3>2. \A s \in Steps : at'[<<q, s>>] = at[<<q, s>>]
      <4> SUFFICES ASSUME NEW s \in Steps PROVE at'[<<q, s>>] = at[<<q, s>>]
        OBVIOUS
      <4>1. <<q, s>> \in Job \ {j}
        BY <2>2 DEF Job
      <4> QED BY <1>7, <4>1
    <3> QED BY <3>1, <3>2 DEF Planned
  <2> QED BY <2>1, <2>2
<1>12. ASSUME NEW q \in Processes, NEW t \in Steps
       PROVE  (AtPipe(q, t) /\ Fresh(q, t) /\ Stays(q, t))'
  <2>1. AtPipe(q, t) /\ Fresh(q, t) /\ Stays(q, t) /\ <<q, t>> \in Job
    BY OfJob
  <2>2. pc[q] # "exited" <=> pc'[q] # "exited"
    BY <1>1, <1>4, <1>8
  <2>3. CASE <<q, t>> = j
    <3>1. at[<<q, t>>] = "idle" /\ at'[<<q, t>>] = v
      BY <1>3, <1>7, <2>3
    <3>2. AtPipe(q, t)' /\ Stays(q, t)'
      BY <1>4, <3>1 DEF AtPipe, Stays, Working
    <3>3. Fresh(q, t)'
      BY <1>1, <1>4, <2>1, <2>2, <3>1 DEF Fresh, Ahead, Behind
    <3> QED BY <3>2, <3>3
  <2>4. CASE <<q, t>> # j
    <3>1. at'[<<q, t>>] = at[<<q, t>>] /\ item'[<<q, t>>] = item[<<q, t>>]
      BY <1>1, <1>7, <2>1, <2>4
    <3>2. AtPipe(q, t)' /\ Fresh(q, t)'
      BY <1>1, <2>1, <2>2, <3>1 DEF AtPipe, Fresh
    <3>3. Rivals(q, t) \subseteq Rivals(q, t)'
      <4>1. item \in [Job -> Nat] /\ item' \in [Job -> Nat]
        BY <1>1 DEF Inv, Typed
      <4>2. ASSUME NEW x \in Processes, NEW y \in Steps
            PROVE  /\ at[<<x, y>>] # "idle" => at'[<<x, y>>] # "idle"
                   /\ item[<<x, y>>] <= item'[<<x, y>>]
        <5>1. <<x, y>> \in Job /\ item[<<x, y>>] \in Nat
          BY <4>1 DEF Job
        <5>2. <<x, y>> # j => at'[<<x, y>>] = at[<<x, y>>]
          BY <1>7, <5>1
        <5>3. at'[<<x, y>>] # "idle" \/ at[<<x, y>>] = "idle"
          BY <1>3, <5>2
        <5> QED BY <1>1, <5>1, <5>3
      <4> QED BY <4>1, <4>2, RivalsRemain
    <3>4. Stays(q, t)'
      BY <1>1, <1>10, <2>1, <3>1, <3>3 DEF Stays
    <3> QED BY <3>2, <3>4
  <2> QED BY <2>3, <2>4
<1>13. Counted'
  <2>1. Owed' \subseteq Every
    BY <1>9, HeldInEvery DEF Owed, Typed
  <2>2. ASSUME NEW c \in Held PROVE c \in Held'
    <3>1. c \in Every
      BY HeldInEvery
    <3>2. PICK q \in Processes, t \in Steps, i \in Items : c = <<q, t, i>>
      BY <3>1, InEvery
    <3>3. Lives(q) /\ Due(q, t, i)
      BY <3>2, HeldIs
    <3>4. <<q, t>> \in Job
      BY DEF Job
    <3>5. <<q, t>> # j
      BY <1>3, <3>3 DEF Due, Working
    <3>6. Due(q, t, i)'
      BY <1>1, <1>7, <3>3, <3>4, <3>5 DEF Due
    <3> QED BY <1>10, <3>2, <3>3, <3>6, HeldNextIs
  <2> QED BY <1>1, <2>1, <2>2, CountKept DEF Owed
<1> QED BY <1>9, <1>11, <1>12, <1>13 DEF Inv, StepInv

\* A process that ends abandons what its steps still had to remove.
LEMMA EndsKeeps ==
  ASSUME Inv, NEW p \in Processes, UNCHANGED <<scenario, plan, next, cancelled, at, item>>,
         pc' = [pc EXCEPT ![p] = "exited"],
         abandoned \subseteq abandoned', abandoned' \subseteq abandoned \union HeldBy(p),
         \/ UNCHANGED containers
         \/ \E s \in Steps : at[<<p, s>>] # "idle" /\ Destroy(p, RunID(<<p, s, 0>>)),
         Counted'
  PROVE  Inv'
<1>1. pc \in [Processes -> ProcessPlaces] /\ containers \subseteq Every /\ abandoned \subseteq Every
  BY DEF Inv, Typed
<1>2. pc'[p] = "exited" /\ \A q \in Processes \ {p} : pc'[q] = pc[q]
  BY <1>1
<1>3. HeldBy(p) \subseteq Every
  BY HeldInEvery
<1>4. Typed'
  <2>1. containers' \subseteq Every
    BY <1>1 DEF Destroy
  <2> QED BY <1>1, <1>3, <2>1 DEF Inv, Typed, ProcessPlaces
<1>5. ASSUME NEW q \in Processes PROVE Planned(q)'
  <2>1. Planned(q) /\ (pc'[q] = pc[q] \/ pc'[q] = "exited")
    BY <1>2 DEF Inv
  <2>2. plan' = plan /\ at' = at /\ next' = next
    OBVIOUS
  <2> QED BY <2>1, <2>2 DEF Planned
<1>6. ASSUME NEW q \in Processes, NEW t \in Steps
      PROVE  (AtPipe(q, t) /\ Fresh(q, t) /\ Stays(q, t))'
  <2>1. AtPipe(q, t) /\ Fresh(q, t) /\ Stays(q, t) /\ item[<<q, t>>] \in Nat
    BY OfJob
  <2>2. AtPipe(q, t)'
    BY <2>1 DEF AtPipe
  <2>3. CASE q = p
    BY <1>2, <2>2, <2>3 DEF Fresh, Stays, Lives
  <2>4. CASE q # p
    <3>1. pc'[q] = pc[q]
      BY <1>2, <2>4
    <3>2. ASSUME NEW i \in Items, <<q, t, i>> \in abandoned' PROVE <<q, t, i>> \in abandoned
      BY <2>4, <3>2, HeldByIs
    <3>3. Fresh(q, t)'
      <4>1. 0 \in Items
        BY ScriptItems
      <4> QED BY <2>1, <3>1, <3>2, <4>1 DEF Fresh
    <3>4. Rivals(q, t)' = Rivals(q, t)
      BY DEF Rivals, RunID
    <3>5. ASSUME Rivals(q, t) = {}, <<q, t, 0>> \in containers PROVE <<q, t, 0>> \in containers'
      <4>1. CASE UNCHANGED containers
        BY <3>5, <4>1
      <4>2. ASSUME NEW s \in Steps, at[<<p, s>>] # "idle", Destroy(p, RunID(<<p, s, 0>>))
            PROVE  <<q, t, 0>> \in containers'
        <5>1. <<p, s, 0>> # <<q, t, 0>> /\ item[<<p, s>>] \in Nat /\ 0 \in Items
          BY <2>4, OfJob, ScriptItems
        <5>2. Removable(p, s, 0)
          BY DEF Removable
        <5> QED BY <3>5, <4>2, <5>1, <5>2, OnlyRivalsRemove
      <4> QED BY <4>1, <4>2
    <3>6. Stays(q, t)'
      BY <2>1, <3>1, <3>4, <3>5 DEF Stays, Lives
    <3> QED BY <2>2, <3>3, <3>6
  <2> QED BY <2>3, <2>4
<1> QED BY <1>4, <1>5, <1>6 DEF Inv, StepInv

\* What is owed when a process ends.
LEMMA OwedAtEnd ==
  ASSUME Inv, NEW p \in Processes, NEW D, UNCHANGED <<at, item>>,
         pc' = [pc EXCEPT ![p] = "exited"],
         abandoned' = abandoned \union (HeldBy(p) \ D)
  PROVE  Owed \ D \subseteq Owed' /\ Owed' \subseteq Every
<1>1. pc \in [Processes -> ProcessPlaces] /\ abandoned \subseteq Every
  BY DEF Inv, Typed
<1>2. Owed' \subseteq Every
  BY <1>1, HeldInEvery DEF Owed
<1>3. ASSUME NEW c \in Held, c \notin D PROVE c \in Owed'
  <2>1. c \in Every
    BY HeldInEvery
  <2>2. PICK q \in Processes, t \in Steps, i \in Items : c = <<q, t, i>>
    BY <2>1, InEvery
  <2>3. Lives(q) /\ Due(q, t, i)
    BY <2>2, HeldIs
  <2>4. CASE q = p
    BY <1>3, <2>2, <2>3, <2>4, HeldByIs DEF Owed
  <2>5. CASE q # p
    <3>1. Lives(q)' /\ Due(q, t, i)'
      BY <1>1, <2>3, <2>5 DEF Lives, Due
    <3> QED BY <2>2, <3>1, HeldNextIs DEF Owed
  <2> QED BY <2>4, <2>5
<1> QED BY <1>2, <1>3 DEF Owed

LEMMA ExitKeeps ==
  ASSUME Inv, NEW p \in Processes, Exit(p) \/ Die(p) PROVE Inv'
<1>1. /\ pc' = [pc EXCEPT ![p] = "exited"] /\ abandoned' = abandoned \union HeldBy(p)
      /\ UNCHANGED <<scenario, plan, next, cancelled, at, item, containers>>
  BY DEF Exit, Die, step
<1>2. abandoned' = abandoned \union (HeldBy(p) \ {})
  BY <1>1
<1>3. Owed \ {} \subseteq Owed' /\ Owed' \subseteq Every
  BY <1>1, <1>2, OwedAtEnd
<1>4. Counted'
  BY <1>1, <1>3, CountKept
<1> QED BY <1>1, <1>4, EndsKeeps

LEMMA NoAnswerInPipeKeeps ==
  ASSUME Inv, NEW p \in Processes, NEW s \in Steps, NoAnswerInPipe(p, s) PROVE Inv'
<1> DEFINE c == <<p, s, 0>>
           D == IF p \in cancelled THEN {} ELSE {c}
<1>1. /\ pc' = [pc EXCEPT ![p] = "exited"] /\ abandoned' = abandoned \union (HeldBy(p) \ D)
      /\ UNCHANGED <<scenario, plan, next, cancelled, at, item>>
      /\ at[<<p, s>>] = "script" /\ Destroy(p, RunID(c))
  BY DEF NoAnswerInPipe, AtItem, In, step
<1>2. Owed \ D \subseteq Owed' /\ Owed' \subseteq Every
  BY <1>1, OwedAtEnd
<1>3. Counted'
  <2>1. CASE p \in cancelled
    BY <1>1, <1>2, <2>1, CountKept DEF Destroy
  <2>2. CASE p \notin cancelled
    BY <1>1, <1>2, <2>2, CountDestroyed
  <2> QED BY <2>1, <2>2
<1>4. abandoned \subseteq abandoned' /\ abandoned' \subseteq abandoned \union HeldBy(p)
  BY <1>1
<1> QED BY <1>1, <1>3, <1>4, EndsKeeps
-----------------------------------------------------------------------------
(* The theorems. *)

LEMMA InitInv == Init => Inv
<1> SUFFICES ASSUME Init PROVE Inv
  OBVIOUS
<1>1. at = [j \in Job |-> "idle"] /\ abandoned = {} /\ containers = {}
  BY DEF Init
<1>2. Typed
  <2>1. <<>> \in Seq(PlanItem)
    OBVIOUS
  <2> QED BY <2>1 DEF Init, Typed, ProcessPlaces, Places
<1>3. \A p \in Processes, s \in Steps : at[<<p, s>>] = "idle"
  BY <1>1 DEF Job
<1>4. ASSUME NEW p \in Processes PROVE Planned(p)
  BY <1>3 DEF Init, Planned
<1>5. StepInv
  BY <1>1, <1>3 DEF StepInv, AtPipe, Fresh, Stays, Working
<1>6. Counted
  <2> SUFFICES ASSUME NEW id PROVE Cardinality(Of(containers, id)) <= Cardinality(Of(Owed, id))
    BY DEF Counted
  <2>1. Of(containers, id) = {}
    BY <1>1 DEF Of
  <2>2. Owed \subseteq Every
    BY <1>2, HeldInEvery DEF Owed, Typed
  <2>3. Cardinality(Of(Owed, id)) \in Nat
    BY <2>2, SubsetsOfEvery
  <2> QED BY <2>1, <2>3, FS_EmptySet
<1> QED BY <1>2, <1>4, <1>5, <1>6 DEF Inv

LEMMA StutterInv == Inv /\ UNCHANGED vars => Inv'
<1> SUFFICES ASSUME Inv, UNCHANGED vars PROVE Inv'
  OBVIOUS
<1>1. UNCHANGED <<scenario, pc, plan, next, cancelled, at, item, containers, abandoned>>
  BY DEF vars, process, step
<1>2. Typed' /\ \A p \in Processes : Planned(p)'
  BY <1>1 DEF Inv, Typed, Planned
<1>3. StepInv'
  <2> SUFFICES ASSUME NEW p \in Processes, NEW s \in Steps
               PROVE  (AtPipe(p, s) /\ Fresh(p, s) /\ Stays(p, s))'
    BY DEF StepInv
  <2>1. AtPipe(p, s) /\ Fresh(p, s) /\ Stays(p, s)
    BY OfJob
  <2>2. Rivals(p, s)' = Rivals(p, s)
    BY <1>1 DEF Rivals, RunID
  <2> QED BY <1>1, <2>1, <2>2 DEF AtPipe, Fresh, Stays, Lives
<1>4. Counted'
  <2>1. Held' = Held
    BY <1>1 DEF Held, HeldBy, Lives
  <2>2. Owed' = Owed /\ Owed \subseteq Every
    BY <1>1, <2>1, HeldInEvery DEF Owed, Inv, Typed
  <2> QED BY <1>1, <2>2, CountKept
<1> QED BY <1>2, <1>3, <1>4 DEF Inv

LEMMA Invariance == Spec => []Inv
<1>1. Inv /\ [Next]_vars => Inv'
  <2> SUFFICES ASSUME Inv, [Next]_vars PROVE Inv'
    OBVIOUS
  <2>1. CASE UNCHANGED vars
    BY <2>1, StutterInv
  <2>2. ASSUME NEW p \in Processes,
               \/ Execute(p) \/ DetectBranch(p) \/ StartStep(p) \/ EndStep(p) \/ Return(p)
               \/ Exit(p) \/ Die(p)
        PROVE  Inv'
    BY <2>2, ExecuteKeeps, DetectBranchKeeps, StartStepKeeps, EndStepKeeps, ReturnKeeps, ExitKeeps
  <2>3. ASSUME NEW p \in Processes, NEW s \in Steps,
               \/ Acquire(p, s) \/ StartOfStep(p, s) \/ RemoveOrphan(p, s) \/ Create(p, s)
               \/ Skip(p, s) \/ RunScript(p, s) \/ DestroyAtEnd(p, s) \/ Close(p, s) \/ Leave(p, s)
        PROVE  Inv'
    BY <2>3, AcquireKeeps, StartOfStepKeeps, RemoveOrphanKeeps, CreateKeeps, SkipKeeps,
       RunScriptKeeps, DestroyAtEndKeeps, CloseKeeps, LeaveKeeps
  <2>4. ASSUME NEW p \in Processes, NEW s \in Steps,
               \/ StartPipe(p, s) \/ NoAnswerInPipe(p, s) \/ RemovePipeOrphan(p, s)
               \/ CreatePipe(p, s) \/ RunPipe(p, s) \/ EndPipe(p, s)
        PROVE  Inv'
    BY <2>4, StartPipeKeeps, NoAnswerInPipeKeeps, RemovePipeOrphanKeeps, CreatePipeKeeps,
       RunPipeKeeps, EndPipeKeeps
  <2> QED BY <2>1, <2>2, <2>3, <2>4 DEF Next
<1> QED BY InitInv, <1>1, PTL DEF Spec

\* A step keeps its container (executeStep: from its creation to the end of the script), for
\* any configuration, whatever fails, dies or is removed by others, unless something that has
\* been started has a name that comes to the same run ID.
THEOREM StepsKeepContainers == Spec => []ContainerStays
<1>1. Inv => ContainerStays
  BY OfJob DEF ContainerStays, Stays
<1> QED BY Invariance, <1>1, PTL

\* Any number of processes, with any names and failures, leave no container that nobody will
\* remove but those of creations that failed half-way, of processes that died and of contexts
\* that were cancelled (executeStep and executePipe: the removals before and after).
THEOREM NoneForgotten == Spec => []NoContainerForgotten
<1>1. Inv => NoContainerForgotten
  <2> SUFFICES ASSUME Inv, NEW id \in Ids
               PROVE  Cardinality(Labelled(id))
                        <= Cardinality({c \in Held \union abandoned : RunID(c) = id})
    BY DEF NoContainerForgotten
  <2>1. Labelled(id) = Of(containers, id)
    BY DEF Labelled, Of
  <2>2. {c \in Held \union abandoned : RunID(c) = id} = Of(Owed, id)
    BY DEF Of, Owed
  <2> QED BY <2>1, <2>2 DEF Inv, Counted
<1> QED BY Invariance, <1>1, PTL
-----------------------------------------------------------------------------
(* What has run, and in which order. *)

Values ==
  (UNION {{Script[s][i].exports : i \in DOMAIN Script[s]} : s \in Steps})
    \union {ImageValue[s] : s \in Steps} \union {scenario[p].given : p \in Processes}

TypedToo ==
  /\ result \in [Processes -> {"none", "nil", "error"}]
  /\ ok \in [Job -> BOOLEAN] /\ env \in [Job -> Seq(Values)]
  /\ ran \in [Processes -> Seq(Steps \X Items)]
  /\ failures \in Nat

\* No failure is ever forgotten.
Grows == failures' \in Nat /\ (failures' = 0 => failures = 0)

\* Item i of the script is over and went well.
Past(p, s, i) ==
  \/ i < item[<<p, s>>]
  \/ i = item[<<p, s>>] /\ at[<<p, s>>] = "pipe end" /\ ok[<<p, s>>]

\* A step that is done has come to the end of its script, and no step goes on after a failure.
Progress(p, s) ==
  /\ at[<<p, s>>] \in Ahead => item[<<p, s>>] = 1
  /\ ~ok[<<p, s>>] => at[<<p, s>>] \in {"pipe end", "leave", "failed"}
  /\ at[<<p, s>>] \in {"close", "done"} \/ (at[<<p, s>>] = "leave" /\ ok[<<p, s>>])
       => item[<<p, s>>] > Len(Script[s])
  /\ at[<<p, s>>] \in PipePlaces => ~ShouldSkipScript(p, s, item[<<p, s>>])

RanIs(p, s) ==
  \A i \in Items : <<s, i>> \in ToSet(ran[p]) <=> <<s, i>> \in Wanted(p) /\ Past(p, s, i)

\* The list has nothing made up, never loses the value from PipelinesEnv, and has all exports
\* unless one of them could not be read.
EnvIs(p, s) ==
  ImageOf(s) \in LinuxImages =>
    /\ ToSet(env[<<p, s>>]) \subseteq Known(p, s)
    /\ scenario[p].given # Unset => scenario[p].given \in ToSet(env[<<p, s>>])
    /\ failures = 0 => Exported(p, s) \subseteq ToSet(env[<<p, s>>])

PlanFollowed(p) ==
  /\ plan[p] \in {<<>>, PlanOf(scenario[p])}
  /\ pc[p] \in {"idle", "started"} => next[p] = 1 /\ ran[p] = <<>>
  /\ pc[p] \in {"idle", "started", "steps", "in step"} => result[p] = "none"
  /\ pc[p] \in {"steps", "in step"} \/ result[p] = "nil" => plan[p] = PlanOf(scenario[p])

InOrder(p) == \A m, n \in DOMAIN ran[p] : m < n => Earlier(p, ran[p][m], ran[p][n])

\* In a sequential run the steps before the present one are done, and those after it idle.
InSequence(p) ==
  Lives(p) /\ Sequential(p) =>
    /\ pc[p] = "in step" => next[p] <= Len(plan[p])
    /\ \A k \in DOMAIN plan[p] :
         /\ k < next[p] => at[<<p, plan[p][k].step>>] = "done"
         /\ k > next[p] \/ (k = next[p] /\ pc[p] = "steps") => at[<<p, plan[p][k].step>>] = "idle"
    /\ result[p] = "nil" => next[p] > Len(plan[p])
    /\ InOrder(p)

OfStep(p, s) == Progress(p, s) /\ RanIs(p, s) /\ EnvIs(p, s)

RunInv ==
  /\ TypedToo
  /\ \A p \in Processes : PlanFollowed(p) /\ InSequence(p)
  /\ \A p \in Processes, s \in Steps : OfStep(p, s)

LEMMA PlanOfProcess ==
  ASSUME Inv, NEW p \in Processes, plan[p] = PlanOf(scenario[p])
  PROVE  /\ plan[p] \in Seq(PlanItem)
         /\ \A s : (\E k \in DOMAIN plan[p] : plan[p][k].step = s) <=> Chosen(scenario[p], s)
         /\ \A a, b \in DOMAIN plan[p] :
              a < b <=> Precedes(scenario[p], plan[p][a].step, plan[p][b].step)
<1>1. scenario[p].cli \in BOOLEAN
  BY DEF Inv, Typed
<1> QED BY <1>1, PlanIs

\* A step that has been started is one of the plan, which is the one of the scenario.
LEMMA StartedIsPlanned ==
  ASSUME Inv, RunInv, NEW p \in Processes, NEW s \in Steps,
         pc[p] # "exited", at[<<p, s>>] # "idle"
  PROVE  /\ plan[p] = PlanOf(scenario[p]) /\ Chosen(scenario[p], s)
         /\ \E k \in DOMAIN plan[p] :
              plan[p][k].step = s /\ (k < next[p] \/ (k = next[p] /\ pc[p] # "steps"))
<1>1. PICK k \in DOMAIN plan[p] :
        plan[p][k].step = s /\ (k < next[p] \/ (k = next[p] /\ pc[p] # "steps"))
  BY DEF Inv, Planned
<1>2. plan[p] = PlanOf(scenario[p])
  <2>1. plan[p] # <<>>
    <3>1. DOMAIN <<>> = {}
      OBVIOUS
    <3> QED BY <1>1, <3>1
  <2> QED BY <2>1 DEF RunInv, PlanFollowed
<1>3. Chosen(scenario[p], s)
  BY <1>1, <1>2, PlanOfProcess
<1> QED BY <1>1, <1>2, <1>3

\* What ran of an item is wanted and past, thus its step has been started.
LEMMA RanItem ==
  ASSUME Inv, RunInv, NEW p \in Processes, NEW x \in ToSet(ran[p])
  PROVE  /\ x \in Wanted(p) /\ x = <<x[1], x[2]>> /\ x[1] \in Steps /\ x[2] \in Items
         /\ Past(p, x[1], x[2]) /\ at[<<p, x[1]>>] \notin Ahead
<1>1. ran[p] \in Seq(Steps \X Items)
  BY DEF RunInv, TypedToo
<1>2. x \in Steps \X Items
  BY <1>1 DEF ToSet
<1>3. PICK s \in Steps, i \in Items : x = <<s, i>>
  BY <1>2
<1>4. <<s, i>> \in Wanted(p) /\ Past(p, s, i)
  BY <1>3 DEF RunInv, OfStep, RanIs
<1>5. i \in DOMAIN Script[s]
  BY <1>4 DEF Wanted
<1>6. i # 0 /\ i \in Nat
  BY <1>5, ScriptItems
<1>7. item[<<p, s>>] # 1 \/ at[<<p, s>>] \notin Ahead
  <2>1. item[<<p, s>>] \in Nat
    BY OfJob
  <2>2. CASE i < item[<<p, s>>]
    BY <1>6, <2>1, <2>2
  <2>3. CASE at[<<p, s>>] = "pipe end"
    BY <2>3 DEF Ahead
  <2> QED BY <1>4, <2>2, <2>3 DEF Past
<1>8. at[<<p, s>>] \notin Ahead
  BY <1>7 DEF RunInv, OfStep, Progress
<1> QED BY <1>3, <1>4, <1>8

\* Exported, by the items.
LEMMA ExportedIs ==
  ASSUME Inv, RunInv, NEW p \in Processes, NEW s \in Steps
  PROVE  /\ \A v : v \in Exported(p, s) <=>
              v # Unset /\ \E i \in Items : <<s, i>> \in ToSet(ran[p]) /\ v = Script[s][i].exports
<1>1. ASSUME NEW v, v \in Exported(p, s)
      PROVE  v # Unset /\ \E i \in Items : <<s, i>> \in ToSet(ran[p]) /\ v = Script[s][i].exports
  <2>1. PICK x \in ToSet(ran[p]) : x[1] = s /\ v = Script[s][x[2]].exports
    BY <1>1 DEF Exported
  <2>2. x = <<x[1], x[2]>> /\ x[2] \in Items
    BY RanItem
  <2> QED BY <1>1, <2>1, <2>2 DEF Exported
<1>2. ASSUME NEW v, v # Unset, NEW i \in Items, <<s, i>> \in ToSet(ran[p]), v = Script[s][i].exports
      PROVE  v \in Exported(p, s)
  <2> DEFINE x == <<s, i>>
  <2>1. x \in ToSet(ran[p]) /\ x[1] = s /\ x[2] = i
    BY <1>2
  <2> HIDE DEF x
  <2> QED BY <1>2, <2>1 DEF Exported
<1> QED BY <1>1, <1>2

\* What a step does to itself: nothing of the process and of other steps changes but what has
\* run, to which its present item may be added.
Works(p, s) ==
  /\ UNCHANGED <<scenario, pc, result, plan, next>>
  /\ Lives(p) /\ at[<<p, s>>] \notin {"idle", "done", "failed"} /\ at'[<<p, s>>] # "idle"
  /\ \A j \in Job \ {<<p, s>>} :
       at'[j] = at[j] /\ item'[j] = item[j] /\ ok'[j] = ok[j] /\ env'[j] = env[j]
  /\ \A q \in Processes \ {p} : ran'[q] = ran[q]
  /\ ok' \in [Job -> BOOLEAN] /\ env' \in [Job -> Seq(Values)]
  /\ ran' \in [Processes -> Seq(Steps \X Items)]

\* Nothing runs: an item that is over had nothing to run.
Silent(p, s) ==
  /\ ran'[p] = ran[p]
  /\ \A i \in Items : <<s, i>> \in Wanted(p) => (Past(p, s, i)' <=> Past(p, s, i))
  /\ env'[<<p, s>>] = env[<<p, s>>]

Adds(p, s, i) ==
  /\ at[<<p, s>>] \in {"script", "pipe"} /\ i = item[<<p, s>>] /\ i \in Items
  /\ <<s, i>> \in Wanted(p) /\ ran'[p] = Append(ran[p], <<s, i>>)
  /\ \A k \in Items : Past(p, s, k)' <=> Past(p, s, k) \/ k = i
  /\ ImageOf(s) \in LinuxImages =>
       /\ ToSet(env[<<p, s>>]) \subseteq ToSet(env'[<<p, s>>])
       /\ ToSet(env'[<<p, s>>]) \subseteq
            ToSet(env[<<p, s>>]) \union ({Script[s][i].exports, Inherited(p, s)} \ {Unset})
       /\ failures' = 0 => {Script[s][i].exports} \ {Unset} \subseteq ToSet(env'[<<p, s>>])

\* Values and what is inherited depend on the scenario alone.
LEMMA ValuesSame ==
  ASSUME UNCHANGED scenario
  PROVE  Values' = Values /\ \A p, s : Inherited(p, s)' = Inherited(p, s)
BY DEF Values, Inherited

LEMMA RanAdded ==
  ASSUME RunInv, NEW p \in Processes, NEW s \in Steps, NEW i \in Items
  PROVE  ToSet(Append(ran[p], <<s, i>>)) = ToSet(ran[p]) \union {<<s, i>>}
<1> DEFINE T == Steps \X Items
           e == <<s, i>>
<1>1. ran[p] \in Seq(T) /\ e \in T
  BY DEF RunInv, TypedToo
<1> HIDE DEF T, e
<1>2. ToSet(Append(ran[p], e)) = ToSet(ran[p]) \union {e}
  BY <1>1, ToSetOf
<1> QED BY <1>2 DEF e

LEMMA ItemsOfOthers ==
  ASSUME Inv, RunInv, NEW p \in Processes, NEW s \in Steps, Works(p, s),
         \/ ran'[p] = ran[p]
         \/ \E i \in Items : ran'[p] = Append(ran[p], <<s, i>>),
         NEW q \in Processes, NEW t \in Steps, NEW i \in Items, <<q, t>> # <<p, s>>
  PROVE  <<t, i>> \in ToSet(ran'[q]) <=> <<t, i>> \in ToSet(ran[q])
<1>1. ran[p] \in Seq(Steps \X Items)
  BY DEF RunInv, TypedToo
<1>2. CASE q # p \/ ran'[p] = ran[p]
  <2>1. ran'[q] = ran[q]
    BY <1>2 DEF Works
  <2> QED BY <2>1
<1>3. ASSUME q = p, NEW k \in Items, ran'[p] = Append(ran[p], <<s, k>>)
      PROVE  <<t, i>> \in ToSet(ran'[q]) <=> <<t, i>> \in ToSet(ran[q])
  <2>1. <<s, k>> \in Steps \X Items
    OBVIOUS
  <2>2. ToSet(ran'[p]) = ToSet(ran[p]) \union {<<s, k>>}
    <3>1. ToSet(Append(ran[p], <<s, k>>)) = ToSet(ran[p]) \union {<<s, k>>}
      BY RanAdded
    <3> QED BY <1>3, <3>1
  <2>3. <<t, i>> # <<s, k>>
    BY <1>3
  <2> QED BY <1>3, <2>2, <2>3
<1> QED BY <1>2, <1>3

LEMMA WantedSame ==
  ASSUME UNCHANGED scenario, NEW p PROVE Wanted(p)' = Wanted(p)
<1>1. \A s, i : ShouldSkipScript(p, s, i)' <=> ShouldSkipScript(p, s, i)
  BY DEF ShouldSkipScript, Cli
<1> QED BY <1>1 DEF Wanted

\* The values that have been exported, after a step of the process or of another one.
LEMMA ExportedSame ==
  ASSUME Inv, RunInv, NEW q \in Processes, NEW t \in Steps,
         ran' \in [Processes -> Seq(Steps \X Items)],
         \A i \in Items : <<t, i>> \in ToSet(ran'[q]) <=> <<t, i>> \in ToSet(ran[q])
  PROVE  Exported(q, t)' = Exported(q, t)
<1>1. ASSUME NEW R \in {ran[q], ran'[q]}, NEW y \in ToSet(R)
      PROVE  y = <<y[1], y[2]>> /\ y[2] \in Items
  <2>1. R \in Seq(Steps \X Items)
    BY DEF RunInv, TypedToo
  <2>2. y \in Steps \X Items
    BY <2>1 DEF ToSet
  <2> QED BY <2>2
<1>2. {y \in ToSet(ran'[q]) : y[1] = t} = {y \in ToSet(ran[q]) : y[1] = t}
  <2>1. ASSUME NEW y \in ToSet(ran'[q]), y[1] = t PROVE y \in ToSet(ran[q])
    BY <1>1, <2>1
  <2>2. ASSUME NEW y \in ToSet(ran[q]), y[1] = t PROVE y \in ToSet(ran'[q])
    BY <1>1, <2>2
  <2> QED BY <2>1, <2>2
<1> QED BY <1>2 DEF Exported

LEMMA OtherSteps ==
  ASSUME Grows, Inv, RunInv, NEW p \in Processes, NEW s \in Steps, Works(p, s),
         \/ ran'[p] = ran[p]
         \/ \E i \in Items : ran'[p] = Append(ran[p], <<s, i>>),
         NEW q \in Processes, NEW t \in Steps, <<q, t>> # <<p, s>>
  PROVE  OfStep(q, t)'
<1>1. OfStep(q, t) /\ <<q, t>> \in Job \ {<<p, s>>}
  BY OfJob DEF RunInv
<1>2. /\ at'[<<q, t>>] = at[<<q, t>>] /\ item'[<<q, t>>] = item[<<q, t>>]
      /\ ok'[<<q, t>>] = ok[<<q, t>>] /\ env'[<<q, t>>] = env[<<q, t>>]
  BY <1>1 DEF Works
<1>3. \A i \in Items : <<t, i>> \in ToSet(ran'[q]) <=> <<t, i>> \in ToSet(ran[q])
  BY ItemsOfOthers
<1>4. scenario' = scenario
  BY DEF Works
<1>5. Progress(q, t)'
  BY <1>1, <1>2, <1>4 DEF OfStep, Progress, ShouldSkipScript, Cli
<1>6. RanIs(q, t)'
  <2>1. Wanted(q)' = Wanted(q)
    BY <1>4, WantedSame
  <2>2. \A i : Past(q, t, i)' <=> Past(q, t, i)
    BY <1>2 DEF Past
  <2> QED BY <1>1, <1>3, <2>1, <2>2 DEF OfStep, RanIs
<1>7. EnvIs(q, t)'
  <2>1. Exported(q, t)' = Exported(q, t)
    BY <1>3, ExportedSame DEF Works
  <2>2. Known(q, t)' = Known(q, t)
    BY <1>4, <2>1, ValuesSame DEF Known
  <2> QED BY <1>1, <1>2, <1>4, <2>1, <2>2 DEF OfStep, EnvIs, Grows
<1> QED BY <1>5, <1>6, <1>7 DEF OfStep

LEMMA OwnItem ==
  ASSUME Grows, Inv, RunInv, NEW p \in Processes, NEW s \in Steps, Works(p, s),
         Silent(p, s) \/ \E i \in Items : Adds(p, s, i)
  PROVE  RanIs(p, s)' /\ EnvIs(p, s)'
<1>1. RanIs(p, s) /\ EnvIs(p, s)
  BY DEF RunInv, OfStep
<1>2. Wanted(p)' = Wanted(p) /\ ran' \in [Processes -> Seq(Steps \X Items)]
  BY WantedSame DEF Works
<1>5. scenario' = scenario /\ Inherited(p, s)' = Inherited(p, s)
  BY ValuesSame DEF Works
<1>3. CASE Silent(p, s)
  <2>1. ran'[p] = ran[p] /\ env'[<<p, s>>] = env[<<p, s>>]
    BY <1>3 DEF Silent
  <2>2. RanIs(p, s)'
    BY <1>1, <1>2, <1>3, <2>1 DEF RanIs, Silent
  <2>3. Exported(p, s)' = Exported(p, s)
    BY <1>2, <2>1, ExportedSame
  <2>4. Known(p, s)' = Known(p, s)
    BY <1>5, <2>3 DEF Known
  <2> QED BY <1>1, <1>5, <2>1, <2>2, <2>3, <2>4 DEF EnvIs, Grows
<1>4. ASSUME NEW i \in Items, Adds(p, s, i) PROVE RanIs(p, s)' /\ EnvIs(p, s)'
  <2>1. ToSet(ran'[p]) = ToSet(ran[p]) \union {<<s, i>>}
    <3>1. ToSet(Append(ran[p], <<s, i>>)) = ToSet(ran[p]) \union {<<s, i>>}
      BY RanAdded
    <3> QED BY <1>4, <3>1 DEF Adds
  <2>2. \A k \in Items : <<s, k>> \in ToSet(ran'[p]) <=> <<s, k>> \in ToSet(ran[p]) \/ k = i
    BY <2>1
  <2>3. RanIs(p, s)'
    BY <1>1, <1>2, <1>4, <2>2 DEF RanIs, Adds
  <2>4. Exported(p, s)' = Exported(p, s) \union ({Script[s][i].exports} \ {Unset})
    <3>1. \A y \in ToSet(ran[p]) : y = <<y[1], y[2]>> /\ y[2] \in Items
      BY RanItem
    <3> DEFINE own == {y \in ToSet(ran[p]) : y[1] = s}
    <3>2. {y \in ToSet(ran'[p]) : y[1] = s} = own \union {<<s, i>>}
      BY <2>1
    <3>3. <<s, i>>[2] = i
      OBVIOUS
    <3>4. Exported(p, s)' = {Script[s][x[2]].exports : x \in own \union {<<s, i>>}} \ {Unset}
      BY <3>2 DEF Exported
    <3>5. Exported(p, s) = {Script[s][x[2]].exports : x \in own} \ {Unset}
      BY DEF Exported
    <3> HIDE DEF own
    <3>6. {Script[s][x[2]].exports : x \in own \union {<<s, i>>}}
            = {Script[s][x[2]].exports : x \in own} \union {Script[s][i].exports}
      BY <3>3
    <3> QED BY <3>4, <3>5, <3>6
  <2>5. EnvIs(p, s)'
    <3> SUFFICES ASSUME ImageOf(s) \in LinuxImages
                 PROVE  /\ ToSet(env'[<<p, s>>]) \subseteq Known(p, s)'
                        /\ scenario'[p].given # Unset => scenario'[p].given \in ToSet(env'[<<p, s>>])
                        /\ failures' = 0 => Exported(p, s)' \subseteq ToSet(env'[<<p, s>>])
      BY DEF EnvIs
    <3>1. /\ ToSet(env[<<p, s>>]) \subseteq Known(p, s)
          /\ scenario[p].given # Unset => scenario[p].given \in ToSet(env[<<p, s>>])
          /\ failures = 0 => Exported(p, s) \subseteq ToSet(env[<<p, s>>])
      BY <1>1 DEF EnvIs
    <3>2. /\ ToSet(env[<<p, s>>]) \subseteq ToSet(env'[<<p, s>>])
          /\ ToSet(env'[<<p, s>>]) \subseteq
               ToSet(env[<<p, s>>]) \union ({Script[s][i].exports, Inherited(p, s)} \ {Unset})
          /\ failures' = 0 => {Script[s][i].exports} \ {Unset} \subseteq ToSet(env'[<<p, s>>])
      BY <1>4 DEF Adds
    <3>3. ToSet(env'[<<p, s>>]) \subseteq Known(p, s)'
      BY <1>5, <2>4, <3>1, <3>2 DEF Known
    <3>4. failures' = 0 => Exported(p, s)' \subseteq ToSet(env'[<<p, s>>])
      BY <2>4, <3>1, <3>2 DEF Grows
    <3> QED BY <1>5, <3>1, <3>2, <3>3, <3>4
  <2> QED BY <2>3, <2>5
<1> QED BY <1>3, <1>4

\* What comes next comes after all that has run.
LEMMA AddsInOrder ==
  ASSUME Inv, RunInv, NEW p \in Processes, NEW s \in Steps, Works(p, s), Sequential(p),
         NEW i \in Items, Adds(p, s, i)
  PROVE  InOrder(p)'
<1> DEFINE x == <<s, i>>
<1>1. at[<<p, s>>] \notin {"idle", "done"} /\ pc[p] # "exited" /\ Lives(p)
  BY DEF Works, Lives
<1>2. PICK k \in DOMAIN plan[p] :
        plan[p][k].step = s /\ (k < next[p] \/ (k = next[p] /\ pc[p] # "steps"))
  BY <1>1, StartedIsPlanned
<1>3. plan[p] = PlanOf(scenario[p])
  BY <1>1, StartedIsPlanned
<1>4. plan[p] \in Seq(PlanItem) /\ next[p] \in Nat
  BY DEF Inv, Typed
<1>5. k = next[p]
  BY <1>1, <1>2 DEF RunInv, InSequence
<1>6. ASSUME NEW y \in ToSet(ran[p]) PROVE Earlier(p, y, x)
  <2>1. y[1] \in Steps /\ y[2] \in Nat /\ Past(p, y[1], y[2]) /\ at[<<p, y[1]>>] \notin Ahead
    BY RanItem, ItemsAreNat
  <2>2. x[1] = s /\ x[2] = i
    OBVIOUS
  <2>3. CASE y[1] = s
    <3>1. y[2] < i
      BY <2>1, <2>3 DEF Past, Adds
    <3> QED BY <2>2, <2>3, <3>1 DEF Earlier
  <2>4. CASE y[1] # s
    <3>1. at[<<p, y[1]>>] # "idle"
      BY <2>1 DEF Ahead
    <3>2. PICK l \in DOMAIN plan[p] :
            plan[p][l].step = y[1] /\ (l < next[p] \/ (l = next[p] /\ pc[p] # "steps"))
      BY <1>1, <2>1, <3>1, StartedIsPlanned
    <3>3. l < k
      BY <1>2, <1>4, <1>5, <2>4, <3>2
    <3>4. Precedes(scenario[p], plan[p][l].step, plan[p][k].step)
      BY <1>3, <3>3, PlanOfProcess
    <3> QED BY <1>2, <2>2, <3>2, <3>4 DEF Earlier
  <2> QED BY <2>3, <2>4
<1>7. ran[p] \in Seq(Steps \X Items)
  BY DEF RunInv, TypedToo
<1>8. ran'[p] = Append(ran[p], x) /\ scenario' = scenario
  BY DEF Adds, Works
<1>9. InOrder(p)
  BY <1>1 DEF RunInv, InSequence
<1> HIDE DEF x
<1>10. /\ DOMAIN ran[p] = 1..Len(ran[p]) /\ Len(ran[p]) \in Nat
       /\ DOMAIN ran'[p] = 1..(Len(ran[p]) + 1)
       /\ ran'[p][Len(ran[p]) + 1] = x
       /\ \A m \in DOMAIN ran[p] : ran'[p][m] = ran[p][m]
  BY <1>7, <1>8
<1>11. \A m \in DOMAIN ran[p] : ran[p][m] \in ToSet(ran[p])
  BY DEF ToSet
<1>12. ASSUME NEW m \in DOMAIN ran'[p], NEW n \in DOMAIN ran'[p], m < n
       PROVE  Earlier(p, ran'[p][m], ran'[p][n])
  <2>1. m \in DOMAIN ran[p] /\ (n \in DOMAIN ran[p] \/ n = Len(ran[p]) + 1)
    BY <1>10, <1>12
  <2>2. CASE n \in DOMAIN ran[p]
    BY <1>9, <1>10, <1>12, <2>1, <2>2 DEF InOrder
  <2>3. CASE n = Len(ran[p]) + 1
    BY <1>6, <1>10, <1>11, <2>1, <2>3
  <2> QED BY <2>1, <2>2, <2>3
<1>13. \A y, z : Earlier(p, y, z)' <=> Earlier(p, y, z)
  BY <1>8 DEF Earlier
<1> QED BY <1>12, <1>13 DEF InOrder

\* All that a step does keeps the invariant.
LEMMA WorksKeeps ==
  ASSUME Grows, Inv, RunInv, NEW p \in Processes, NEW s \in Steps, Works(p, s),
         Silent(p, s) \/ \E i \in Items : Adds(p, s, i), Progress(p, s)'
  PROVE  RunInv'
<1>1. OfStep(p, s)'
  BY OwnItem DEF OfStep
<1>2. ASSUME NEW q \in Processes, NEW t \in Steps PROVE OfStep(q, t)'
  <2>1. CASE <<q, t>> = <<p, s>>
    BY <1>1, <2>1
  <2>2. CASE <<q, t>> # <<p, s>>
    BY <2>2, OtherSteps DEF Silent, Adds
  <2> QED BY <2>1, <2>2
<1>3. TypedToo'
  <2>1. Values' = Values
    BY ValuesSame DEF Works
  <2> QED BY <2>1 DEF Works, RunInv, TypedToo, Grows
<1>4. UNCHANGED <<scenario, pc, result, plan, next>>
  BY DEF Works
<1>5. ASSUME NEW q \in Processes PROVE PlanFollowed(q)'
  <2>1. PlanFollowed(q) /\ (q # p \/ pc[q] \in {"idle", "started"} => ran'[q] = ran[q])
    <3>1. CASE q = p
      <4>1. Planned(p) /\ at[<<p, s>>] # "idle"
        BY DEF Works, Inv
      <4>2. pc[p] \notin {"idle", "started"}
        BY <4>1 DEF Planned
      <4> QED BY <3>1, <4>2 DEF RunInv
    <3>2. CASE q # p
      BY <3>2 DEF RunInv, Works
    <3> QED BY <3>1, <3>2
  <2> QED BY <1>4, <2>1 DEF PlanFollowed
<1>6. ASSUME NEW q \in Processes PROVE InSequence(q)'
  <2> SUFFICES ASSUME Lives(q), Sequential(q) PROVE InSequence(q)'
    BY <1>4 DEF InSequence, Lives, Sequential, Async
  <2>1. /\ pc[q] = "in step" => next[q] <= Len(plan[q])
        /\ \A k \in DOMAIN plan[q] :
             /\ k < next[q] => at[<<q, plan[q][k].step>>] = "done"
             /\ k > next[q] \/ (k = next[q] /\ pc[q] = "steps")
                  => at[<<q, plan[q][k].step>>] = "idle"
        /\ result[q] = "nil" => next[q] > Len(plan[q])
        /\ InOrder(q)
    BY DEF RunInv, InSequence
  <2>2. ASSUME NEW k \in DOMAIN plan[q], at[<<q, plan[q][k].step>>] \in {"idle", "done"}
        PROVE  at'[<<q, plan[q][k].step>>] = at[<<q, plan[q][k].step>>]
    <3>1. plan[q][k] \in PlanItem
      <4>1. plan[q] \in Seq(PlanItem)
        BY DEF Inv, Typed
      <4> QED BY <4>1
    <3>2. <<q, plan[q][k].step>> \in Job
      BY <3>1 DEF PlanItem, Job
    <3>3. at[<<p, s>>] \notin {"idle", "done"}
      BY DEF Works
    <3>4. <<q, plan[q][k].step>> # <<p, s>>
      BY <2>2, <3>3
    <3> QED BY <3>2, <3>4 DEF Works
  <2>3. InOrder(q)'
    <3>1. CASE ran'[q] = ran[q]
      <4>1. \A y, z : Earlier(q, y, z)' <=> Earlier(q, y, z)
        BY <1>4 DEF Earlier
      <4> QED BY <2>1, <3>1, <4>1 DEF InOrder
    <3>2. CASE q = p /\ \E i \in Items : Adds(p, s, i)
      BY <3>2, AddsInOrder
    <3> QED BY <3>1, <3>2 DEF Works, Silent
  <2> QED BY <1>4, <2>1, <2>2, <2>3 DEF InSequence
<1> QED BY <1>2, <1>3, <1>5, <1>6 DEF RunInv

LEMMA QuietWork ==
  ASSUME Grows, Inv, RunInv, NEW p \in Processes, NEW s \in Steps, NEW w \in Places \ {"idle"},
         UNCHANGED <<scenario, pc, result, plan, next, env, ran>>, Lives(p),
         at[<<p, s>>] \notin {"idle", "done", "failed"}, Goto(<<p, s>>, w),
         UNCHANGED item \/ NextItem(p, s),
         UNCHANGED ok \/ ok' = [ok EXCEPT ![<<p, s>>] = FALSE],
         \A i \in Items : <<s, i>> \in Wanted(p) => (Past(p, s, i)' <=> Past(p, s, i)),
         Progress(p, s)'
  PROVE  RunInv'
<1>1. <<p, s>> \in Job /\ at \in [Job -> Places] /\ item \in [Job -> Nat \ {0}]
  BY OfJob DEF Inv, Typed
<1>2. TypedToo
  BY DEF RunInv
<1>3. ok' \in [Job -> BOOLEAN] /\ \A j \in Job \ {<<p, s>>} : ok'[j] = ok[j]
  BY <1>2 DEF TypedToo
<1>4. \A j \in Job \ {<<p, s>>} : at'[j] = at[j] /\ item'[j] = item[j]
  BY <1>1 DEF NextItem
<1>5. at'[<<p, s>>] # "idle"
  BY <1>1
<1>6. Works(p, s)
  BY <1>2, <1>3, <1>4, <1>5 DEF Works, TypedToo
<1>7. Silent(p, s)
  BY DEF Silent
<1> QED BY <1>6, <1>7, WorksKeeps

\* Between two places of which none is the end of a pipe nothing more is past.
LEMMA SimpleWork ==
  ASSUME Grows, Inv, RunInv, NEW p \in Processes, NEW s \in Steps,
         NEW w \in Places \ {"idle", "pipe end"},
         UNCHANGED <<scenario, pc, result, plan, next, env, ran, item>>, Lives(p),
         at[<<p, s>>] \notin {"idle", "done", "failed", "pipe end"}, Goto(<<p, s>>, w),
         UNCHANGED ok \/ ok' = [ok EXCEPT ![<<p, s>>] = FALSE],
         Progress(p, s)'
  PROVE  RunInv'
<1>1. <<p, s>> \in Job /\ at \in [Job -> Places]
  BY OfJob DEF Inv, Typed
<1>2. at'[<<p, s>>] = w
  BY <1>1
<1>3. \A i : Past(p, s, i)' <=> Past(p, s, i)
  BY <1>2 DEF Past
<1> QED BY <1>3, QuietWork

LEMMA OfStepIs ==
  ASSUME Inv, RunInv, NEW p \in Processes, NEW s \in Steps
  PROVE  /\ <<p, s>> \in Job /\ at \in [Job -> Places] /\ item \in [Job -> Nat \ {0}]
         /\ ok \in [Job -> BOOLEAN] /\ ok[<<p, s>>] \in BOOLEAN
         /\ at[<<p, s>>] \in Places /\ item[<<p, s>>] \in Nat \ {0} /\ Len(Script[s]) \in Nat
         /\ Progress(p, s)
BY OfJob, ScriptItems DEF Inv, Typed, RunInv, TypedToo, OfStep

LEMMA AcquireOrders ==
  ASSUME Grows, Inv, RunInv, NEW p \in Processes, NEW s \in Steps, Acquire(p, s) PROVE RunInv'
<1>1. PICK w \in {"start", "failed"} : Goto(<<p, s>>, w)
  BY DEF Acquire, EndOfJob
<1>2. UNCHANGED <<scenario, pc, result, plan, next, env, ran, item, ok>> /\ Lives(p)
      /\ at[<<p, s>>] = "queued"
  BY DEF Acquire, In, process
<1>3. at'[<<p, s>>] = w
  BY <1>1, OfStepIs
<1>4. Progress(p, s)'
  BY <1>2, <1>3, OfStepIs DEF Progress, Ahead, PipePlaces
<1> QED BY <1>1, <1>2, <1>4, SimpleWork DEF Places

LEMMA StartOfStepOrders ==
  ASSUME Grows, Inv, RunInv, NEW p \in Processes, NEW s \in Steps, StartOfStep(p, s) PROVE RunInv'
<1>1. PICK w \in {"remove", "failed"} : Goto(<<p, s>>, w)
  BY DEF StartOfStep, EndOfJob
<1>2. UNCHANGED <<scenario, pc, result, plan, next, env, ran, item, ok>> /\ Lives(p)
      /\ at[<<p, s>>] = "start"
  BY DEF StartOfStep, In, process
<1>3. at'[<<p, s>>] = w
  BY <1>1, OfStepIs
<1>4. Progress(p, s)'
  BY <1>2, <1>3, OfStepIs DEF Progress, Ahead, PipePlaces
<1> QED BY <1>1, <1>2, <1>4, SimpleWork DEF Places

LEMMA RemoveOrphanOrders ==
  ASSUME Grows, Inv, RunInv, NEW p \in Processes, NEW s \in Steps, RemoveOrphan(p, s) PROVE RunInv'
<1>1. UNCHANGED <<scenario, pc, result, plan, next, env, ran, item, ok>> /\ Lives(p)
      /\ at[<<p, s>>] = "remove" /\ Goto(<<p, s>>, "create")
  BY DEF RemoveOrphan, In, process
<1>2. at'[<<p, s>>] = "create"
  BY <1>1, OfStepIs
<1>3. Progress(p, s)'
  BY <1>1, <1>2, OfStepIs DEF Progress, Ahead, PipePlaces
<1> QED BY <1>1, <1>3, SimpleWork DEF Places

LEMMA CreateOrders ==
  ASSUME Grows, Inv, RunInv, NEW p \in Processes, NEW s \in Steps, Create(p, s) PROVE RunInv'
<1>1. PICK w \in {"script", "failed"} : Goto(<<p, s>>, w)
  BY DEF Create, EndOfJob
<1>2. UNCHANGED <<scenario, pc, result, plan, next, env, ran, item, ok>> /\ Lives(p)
      /\ at[<<p, s>>] = "create"
  BY DEF Create, In, process
<1>3. at'[<<p, s>>] = w
  BY <1>1, OfStepIs
<1>4. Progress(p, s)'
  BY <1>2, <1>3, OfStepIs DEF Progress, Ahead, PipePlaces
<1> QED BY <1>1, <1>2, <1>4, SimpleWork DEF Places

LEMMA DestroyAtEndOrders ==
  ASSUME Grows, Inv, RunInv, NEW p \in Processes, NEW s \in Steps, DestroyAtEnd(p, s) PROVE RunInv'
<1>1. UNCHANGED <<scenario, pc, result, plan, next, env, ran, item, ok>> /\ Lives(p)
      /\ at[<<p, s>>] = "script" /\ Goto(<<p, s>>, "close") /\ item[<<p, s>>] > Len(Script[s])
  BY DEF DestroyAtEnd, In, process
<1>2. at'[<<p, s>>] = "close"
  BY <1>1, OfStepIs
<1>3. Progress(p, s)'
  BY <1>1, <1>2, OfStepIs DEF Progress, Ahead, PipePlaces
<1> QED BY <1>1, <1>3, SimpleWork DEF Places

LEMMA CloseOrders ==
  ASSUME Grows, Inv, RunInv, NEW p \in Processes, NEW s \in Steps, Close(p, s) PROVE RunInv'
<1>1. UNCHANGED <<scenario, pc, result, plan, next, env, ran, item, ok>> /\ Lives(p)
      /\ at[<<p, s>>] = "close" /\ Goto(<<p, s>>, "leave")
  BY DEF Close, In, process
<1>2. at'[<<p, s>>] = "leave"
  BY <1>1, OfStepIs
<1>3. Progress(p, s)'
  BY <1>1, <1>2, OfStepIs DEF Progress, Ahead, PipePlaces
<1> QED BY <1>1, <1>3, SimpleWork DEF Places

LEMMA LeaveOrders ==
  ASSUME Grows, Inv, RunInv, NEW p \in Processes, NEW s \in Steps, Leave(p, s) PROVE RunInv'
<1> DEFINE w == IF ok[<<p, s>>] THEN "done" ELSE "failed"
<1>1. UNCHANGED <<scenario, pc, result, plan, next, env, ran, item, ok>> /\ Lives(p)
      /\ at[<<p, s>>] = "leave" /\ Goto(<<p, s>>, w)
  BY DEF Leave, In, process, EndOfJob
<1>2. at'[<<p, s>>] = w
  BY <1>1, OfStepIs
<1>3. Progress(p, s)'
  BY <1>1, <1>2, OfStepIs DEF Progress, Ahead, PipePlaces
<1>4. w \in Places \ {"idle", "pipe end"}
  BY DEF Places
<1> QED BY <1>1, <1>3, <1>4, SimpleWork

LEMMA StartPipeOrders ==
  ASSUME Grows, Inv, RunInv, NEW p \in Processes, NEW s \in Steps, StartPipe(p, s) PROVE RunInv'
<1>1. UNCHANGED <<scenario, pc, result, plan, next, env, ran, item>> /\ Lives(p)
      /\ at[<<p, s>>] = "script" /\ ~ShouldSkipScript(p, s, item[<<p, s>>])
  BY DEF StartPipe, AtItem, In, process
<1>2. ~ShouldSkipScript(p, s, item[<<p, s>>])'
  BY <1>1 DEF ShouldSkipScript, Cli
<1>3. CASE Goto(<<p, s>>, "pipe remove") /\ UNCHANGED ok
  <2>1. at'[<<p, s>>] = "pipe remove"
    BY <1>3, OfStepIs
  <2>2. Progress(p, s)'
    BY <1>1, <1>2, <1>3, <2>1, OfStepIs DEF Progress, Ahead, PipePlaces
  <2> QED BY <1>1, <1>3, <2>2, SimpleWork DEF Places
<1>4. CASE FailJob(p, s)
  <2>1. at'[<<p, s>>] = "leave" /\ ok'[<<p, s>>] = FALSE
    BY <1>4, OfStepIs DEF FailJob
  <2>2. Progress(p, s)'
    BY <1>1, <2>1, OfStepIs DEF Progress, Ahead, PipePlaces
  <2> QED BY <1>1, <1>4, <2>2, SimpleWork DEF Places, FailJob
<1> QED BY <1>3, <1>4 DEF StartPipe

LEMMA RemovePipeOrphanOrders ==
  ASSUME Grows, Inv, RunInv, NEW p \in Processes, NEW s \in Steps, RemovePipeOrphan(p, s) PROVE RunInv'
<1>1. UNCHANGED <<scenario, pc, result, plan, next, env, ran, item, ok>> /\ Lives(p)
      /\ at[<<p, s>>] = "pipe remove" /\ Goto(<<p, s>>, "pipe create")
  BY DEF RemovePipeOrphan, In, process
<1>2. at'[<<p, s>>] = "pipe create"
  BY <1>1, OfStepIs
<1>3. ShouldSkipScript(p, s, item[<<p, s>>])' <=> ShouldSkipScript(p, s, item[<<p, s>>])
  BY <1>1 DEF ShouldSkipScript, Cli
<1>4. Progress(p, s)'
  BY <1>1, <1>2, <1>3, OfStepIs DEF Progress, Ahead, PipePlaces
<1> QED BY <1>1, <1>4, SimpleWork DEF Places

LEMMA CreatePipeOrders ==
  ASSUME Grows, Inv, RunInv, NEW p \in Processes, NEW s \in Steps, CreatePipe(p, s) PROVE RunInv'
<1>1. UNCHANGED <<scenario, pc, result, plan, next, env, ran, item>> /\ Lives(p)
      /\ at[<<p, s>>] = "pipe create"
  BY DEF CreatePipe, In, process
<1>2. ShouldSkipScript(p, s, item[<<p, s>>])' <=> ShouldSkipScript(p, s, item[<<p, s>>])
  BY <1>1 DEF ShouldSkipScript, Cli
<1>3. CASE Goto(<<p, s>>, "pipe") /\ UNCHANGED ok
  <2>1. at'[<<p, s>>] = "pipe"
    BY <1>3, OfStepIs
  <2>2. Progress(p, s)'
    BY <1>1, <1>2, <1>3, <2>1, OfStepIs DEF Progress, Ahead, PipePlaces
  <2> QED BY <1>1, <1>3, <2>2, SimpleWork DEF Places
<1>4. CASE FailJob(p, s)
  <2>1. at'[<<p, s>>] = "leave" /\ ok'[<<p, s>>] = FALSE
    BY <1>4, OfStepIs DEF FailJob
  <2>2. Progress(p, s)'
    BY <1>1, <2>1, OfStepIs DEF Progress, Ahead, PipePlaces
  <2> QED BY <1>1, <1>4, <2>2, SimpleWork DEF Places, FailJob
<1> QED BY <1>3, <1>4 DEF CreatePipe

\* What a step may run is wanted.
LEMMA ItemWanted ==
  ASSUME Inv, RunInv, NEW p \in Processes, NEW s \in Steps, Lives(p), at[<<p, s>>] # "idle",
         item[<<p, s>>] \in DOMAIN Script[s], ~ShouldSkipScript(p, s, item[<<p, s>>]),
         LET it == Script[s][item[<<p, s>>]] IN ~(it.kind = "pipe" /\ it.image \in LinuxImages)
  PROVE  item[<<p, s>>] \in Items /\ <<s, item[<<p, s>>]>> \in Wanted(p)
<1>1. Chosen(scenario[p], s)
  BY StartedIsPlanned DEF Lives
<1>2. item[<<p, s>>] \in Items
  BY ScriptItems
<1> DEFINE x == <<s, item[<<p, s>>]>>
<1>3. x \in Steps \X Items /\ x[1] = s /\ x[2] = item[<<p, s>>]
  BY <1>2
<1> HIDE DEF x
<1>4. x \in Wanted(p)
  BY <1>1, <1>3 DEF Wanted
<1> QED BY <1>2, <1>4 DEF x

LEMMA SkipOrders ==
  ASSUME Grows, Inv, RunInv, NEW p \in Processes, NEW s \in Steps, Skip(p, s) PROVE RunInv'
<1>1. UNCHANGED <<scenario, pc, result, plan, next, env, ran, ok, at>> /\ Lives(p)
      /\ at[<<p, s>>] = "script" /\ NextItem(p, s) /\ ShouldSkipScript(p, s, item[<<p, s>>])
  BY DEF Skip, AtItem, In, process
<1>2. Goto(<<p, s>>, "script")
  BY <1>1, OfStepIs
<1>3. item'[<<p, s>>] = item[<<p, s>>] + 1
  BY <1>1, OfStepIs DEF NextItem
<1>4. ASSUME NEW i \in Items, <<s, i>> \in Wanted(p) PROVE Past(p, s, i)' <=> Past(p, s, i)
  <2>1. i \in Nat /\ i # item[<<p, s>>] /\ item[<<p, s>>] \in Nat
    BY <1>1, <1>4, ItemsAreNat, OfStepIs DEF Wanted
  <2> QED BY <1>1, <1>3, <2>1 DEF Past
<1>5. Progress(p, s)'
  BY <1>1, <1>3, OfStepIs DEF Progress, Ahead, PipePlaces
<1> QED BY <1>1, <1>2, <1>4, <1>5, QuietWork DEF Places

\* ExecCommand: the values of the list, and the new one.
LEMMA EnvironmentAfter ==
  ASSUME NEW list \in Seq(Values), NEW s \in Steps, NEW i \in DOMAIN Script[s]
  PROVE  LET after == KeepEnvironment(list, s, Script[s][i].exports) IN
         /\ after \in Seq(Values)
         /\ ImageOf(s) \in LinuxImages =>
              /\ ToSet(list) \union ({Script[s][i].exports} \ {Unset}) \subseteq ToSet(after)
              /\ ToSet(after) \subseteq
                   ToSet(list) \union ({Script[s][i].exports, Visible(list, s)} \ {Unset})
              /\ list # <<>> => Visible(list, s) \in ToSet(list)
<1> DEFINE exported == Script[s][i].exports
           value == IF exported # Unset THEN exported ELSE Visible(list, s)
           head == IF value = Unset THEN <<>> ELSE <<value>>
           whole == head \o list
<1>1. exported \in Values
  BY DEF Values
<1> HIDE DEF exported
<1>2. DOMAIN list = 1..Len(list) /\ Len(list) \in Nat /\ \A k \in DOMAIN list : list[k] \in Values
  OBVIOUS
<1>3. Visible(list, s) \in Values /\ (list # <<>> => Visible(list, s) \in ToSet(list))
  <2>1. CASE list = <<>>
    BY <2>1 DEF Visible, Values
  <2>2. CASE list # <<>>
    <3>1. Len(list) \in DOMAIN list
      BY <2>2
    <3> QED BY <1>2, <2>2, <3>1 DEF Visible, ToSet
  <2> QED BY <2>1, <2>2
<1>4. value \in Values
  BY <1>1, <1>3
<1>5. head \in Seq(Values) /\ whole \in Seq(Values)
  BY <1>4
<1>6. ToSet(whole) = (IF value = Unset THEN {} ELSE {value}) \union ToSet(list)
  <2>1. CASE value = Unset
    <3>1. whole = list
      BY <2>1
    <3> QED BY <2>1, <3>1
  <2>2. CASE value # Unset
    <3>1. /\ DOMAIN whole = 1..(Len(list) + 1) /\ whole[1] = value
          /\ \A k \in DOMAIN list : whole[k + 1] = list[k]
      BY <1>2, <1>4, <2>2
    <3> HIDE DEF whole
    <3>2. ASSUME NEW v \in ToSet(whole) PROVE v \in {value} \union ToSet(list)
      <4>1. PICK k \in DOMAIN whole : v = whole[k]
        BY DEF ToSet
      <4>2. CASE k = 1
        BY <3>1, <4>1, <4>2
      <4>3. CASE k # 1
        <5>1. k - 1 \in DOMAIN list /\ (k - 1) + 1 = k
          BY <1>2, <3>1, <4>3
        <5>2. v = list[k - 1]
          BY <3>1, <4>1, <5>1
        <5> QED BY <5>1, <5>2 DEF ToSet
      <4> QED BY <4>2, <4>3
    <3>3. value \in ToSet(whole)
      BY <1>2, <3>1 DEF ToSet
    <3>4. ASSUME NEW v \in ToSet(list) PROVE v \in ToSet(whole)
      <4>1. PICK k \in DOMAIN list : v = list[k]
        BY DEF ToSet
      <4>2. k + 1 \in DOMAIN whole
        BY <1>2, <3>1
      <4> QED BY <3>1, <4>1, <4>2 DEF ToSet
    <3> QED BY <2>2, <3>2, <3>3, <3>4
  <2> QED BY <2>1, <2>2
<1>7. SliceDistinct(whole) \in Seq(Values) /\ ToSet(SliceDistinct(whole)) = ToSet(whole)
  <2> HIDE DEF whole
  <2> QED BY <1>5, DistinctHasTheSame
<1>8. KeepEnvironment(list, s, exported) =
        IF ImageOf(s) \notin LinuxImages THEN list ELSE SliceDistinct(whole)
  BY DEF KeepEnvironment
<1> HIDE DEF whole
<1>9. /\ ToSet(list) \union ({exported} \ {Unset}) \subseteq ToSet(whole)
      /\ ToSet(whole) \subseteq ToSet(list) \union ({exported, Visible(list, s)} \ {Unset})
  BY <1>6
<1> HIDE DEF value, head
<1> QED BY <1>3, <1>7, <1>8, <1>9 DEF exported

LEMMA RunScriptOrders ==
  ASSUME Grows, Inv, RunInv, NEW p \in Processes, NEW s \in Steps, RunScript(p, s) PROVE RunInv'
<1> DEFINE i == item[<<p, s>>]
<1>1. UNCHANGED <<scenario, pc, result, plan, next>> /\ Lives(p)
      /\ at[<<p, s>>] = "script" /\ ~ShouldSkipScript(p, s, i)
      /\ i \in DOMAIN Script[s] /\ Script[s][i].kind = "script"
  BY DEF RunScript, AtItem, In, process
<1>2. CASE FailJob(p, s) /\ UNCHANGED <<item, env, ran>>
  <2>1. at'[<<p, s>>] = "leave" /\ ok'[<<p, s>>] = FALSE
    BY <1>2, OfStepIs DEF FailJob
  <2>2. Progress(p, s)'
    BY <1>1, <1>2, <2>1, OfStepIs DEF Progress, Ahead, PipePlaces
  <2> QED BY <1>1, <1>2, <2>2, SimpleWork DEF Places, FailJob
<1>3. ASSUME NextItem(p, s), UNCHANGED <<at, ok>>,
             \/ env' = [env EXCEPT ![<<p, s>>] = KeepEnvironment(@, s, Script[s][i].exports)]
             \/ ImageOf(s) \in LinuxImages /\ Failure /\ UNCHANGED env,
             ran' = [ran EXCEPT ![p] = Append(@, <<s, i>>)]
      PROVE  RunInv'
  <2>1. i \in Items /\ <<s, i>> \in Wanted(p)
    BY <1>1, ItemWanted
  <2>2. item'[<<p, s>>] = i + 1 /\ i \in Nat
    BY <1>3, OfStepIs DEF NextItem
  <2>3. \A k \in Items : Past(p, s, k)' <=> Past(p, s, k) \/ k = i
    <3> SUFFICES ASSUME NEW k \in Items PROVE Past(p, s, k)' <=> Past(p, s, k) \/ k = i
      OBVIOUS
    <3>1. k \in Nat
      BY ItemsAreNat
    <3>2. Past(p, s, k)' <=> k < i + 1
      BY <1>1, <1>3, <2>2 DEF Past
    <3>3. Past(p, s, k) <=> k < i
      BY <1>1 DEF Past
    <3> QED BY <2>2, <3>1, <3>2, <3>3
  <2>4. env \in [Job -> Seq(Values)] /\ ran \in [Processes -> Seq(Steps \X Items)] /\ <<p, s>> \in Job
        /\ ok \in [Job -> BOOLEAN] /\ item \in [Job -> Nat \ {0}]
    BY OfStepIs DEF RunInv, TypedToo
  <2> DEFINE list == env[<<p, s>>]
             kept == KeepEnvironment(list, s, Script[s][i].exports)
             after == env'[<<p, s>>]
  <2>5. list \in Seq(Values)
    BY <2>4
  <2>6. EnvIs(p, s)
    BY DEF RunInv, OfStep
  <2>7. /\ env' \in [Job -> Seq(Values)] /\ \A j \in Job \ {<<p, s>>} : env'[j] = env[j]
        /\ ImageOf(s) \in LinuxImages =>
             /\ ToSet(list) \subseteq ToSet(after)
             /\ ToSet(after) \subseteq
                  ToSet(list) \union ({Script[s][i].exports, Inherited(p, s)} \ {Unset})
             /\ failures' = 0 => {Script[s][i].exports} \ {Unset} \subseteq ToSet(after)
    <3>1. CASE ImageOf(s) \in LinuxImages /\ Failure /\ UNCHANGED env
      <4>1. failures' # 0
        BY <3>1 DEF Failure, RunInv, TypedToo
      <4> QED BY <2>4, <3>1, <4>1
    <3>2. CASE env' = [env EXCEPT ![<<p, s>>] = KeepEnvironment(@, s, Script[s][i].exports)]
      <4>1. /\ kept \in Seq(Values)
            /\ ImageOf(s) \in LinuxImages =>
                 /\ ToSet(list) \union ({Script[s][i].exports} \ {Unset}) \subseteq ToSet(kept)
                 /\ ToSet(kept) \subseteq
                      ToSet(list) \union ({Script[s][i].exports, Visible(list, s)} \ {Unset})
                 /\ list # <<>> => Visible(list, s) \in ToSet(list)
        BY <1>1, <2>5, EnvironmentAfter
      <4>2. ASSUME ImageOf(s) \in LinuxImages, list = <<>> PROVE Visible(list, s) = Inherited(p, s)
        <5>1. ToSet(<<>>) = {}
          <6>1. DOMAIN <<>> = {}
            OBVIOUS
          <6> QED BY <6>1 DEF ToSet
        <5>2. scenario[p].given = Unset
          BY <2>6, <4>2, <5>1 DEF EnvIs
        <5> QED BY <4>2, <5>2 DEF Visible, Inherited
      <4>3. env' = [env EXCEPT ![<<p, s>>] = kept]
        BY <2>4, <3>2
      <4> HIDE DEF kept, list
      <4>4. env' \in [Job -> Seq(Values)] /\ \A j \in Job \ {<<p, s>>} : env'[j] = env[j]
        BY <2>4, <4>1, <4>3
      <4>5. after = kept
        BY <2>4, <4>3
      <4> HIDE DEF after
      <4> QED BY <4>1, <4>2, <4>4, <4>5
    <3> QED BY <1>3, <3>1, <3>2
  <2> HIDE DEF after, list, kept
  <2>8. /\ ImageOf(s) \in LinuxImages =>
             /\ ToSet(env[<<p, s>>]) \subseteq ToSet(env'[<<p, s>>])
             /\ ToSet(env'[<<p, s>>]) \subseteq
                  ToSet(env[<<p, s>>]) \union ({Script[s][i].exports, Inherited(p, s)} \ {Unset})
             /\ failures' = 0 => {Script[s][i].exports} \ {Unset} \subseteq ToSet(env'[<<p, s>>])
    BY <2>7 DEF after, list
  <2>9. ran'[p] = Append(ran[p], <<s, i>>) /\ ran' \in [Processes -> Seq(Steps \X Items)]
    <3>1. <<s, i>> \in Steps \X Items /\ ran[p] \in Seq(Steps \X Items)
      BY <2>1, <2>4
    <3>2. Append(ran[p], <<s, i>>) \in Seq(Steps \X Items)
      BY <3>1
    <3> QED BY <1>3, <2>4, <3>2
  <2>10. Works(p, s)
    BY <1>1, <1>3, <2>4, <2>7, <2>9 DEF Works, NextItem
  <2>11. Adds(p, s, i)
    BY <1>1, <2>1, <2>3, <2>8, <2>9 DEF Adds
  <2>12. Progress(p, s)'
    BY <1>1, <1>3, <2>2, OfStepIs DEF Progress, Ahead, PipePlaces
  <2> QED BY <2>1, <2>10, <2>11, <2>12, WorksKeeps
<1> QED BY <1>2, <1>3 DEF RunScript

LEMMA RunPipeOrders ==
  ASSUME Grows, Inv, RunInv, NEW p \in Processes, NEW s \in Steps, RunPipe(p, s) PROVE RunInv'
<1> DEFINE i == item[<<p, s>>]
<1>1. UNCHANGED <<scenario, pc, result, plan, next, item, env>> /\ Lives(p)
      /\ at[<<p, s>>] = "pipe" /\ Goto(<<p, s>>, "pipe end")
  BY DEF RunPipe, In, process
<1>2. i \in DOMAIN Script[s] /\ Script[s][i].kind = "pipe" /\ i \in Items
  BY <1>1, AtPipeIs DEF PipePlaces
<1>3. ~ShouldSkipScript(p, s, i) /\ ok[<<p, s>>] = TRUE
  BY <1>1, OfStepIs DEF Progress, PipePlaces
<1>4. at'[<<p, s>>] = "pipe end"
  BY <1>1, OfStepIs
<1>5. ShouldSkipScript(p, s, i)' <=> ShouldSkipScript(p, s, i)
  BY <1>1 DEF ShouldSkipScript, Cli
<1>6. Progress(p, s)'
  BY <1>1, <1>3, <1>4, <1>5 DEF Progress, Ahead, PipePlaces
<1>7. CASE Script[s][i].image \in LinuxImages /\ UNCHANGED <<ok, ran>>
  <2>1. ASSUME NEW k \in Items, <<s, k>> \in Wanted(p) PROVE Past(p, s, k)' <=> Past(p, s, k)
    <3>1. k # i
      BY <1>2, <1>7, <2>1 DEF Wanted
    <3> QED BY <1>1, <3>1 DEF Past
  <2> QED BY <1>1, <1>6, <1>7, <2>1, QuietWork DEF Places
<1>8. CASE ok' = [ok EXCEPT ![<<p, s>>] = FALSE] /\ UNCHANGED ran
  <2>1. ok'[<<p, s>>] = FALSE
    BY <1>8, OfStepIs
  <2>2. ASSUME NEW k \in Items, <<s, k>> \in Wanted(p) PROVE Past(p, s, k)' <=> Past(p, s, k)
    BY <1>1, <2>1 DEF Past
  <2> QED BY <1>1, <1>6, <1>8, <2>2, QuietWork DEF Places
<1>9. CASE /\ Script[s][i].image \notin LinuxImages /\ UNCHANGED ok
           /\ ran' = [ran EXCEPT ![p] = Append(@, <<s, i>>)]
  <2>1. <<s, i>> \in Wanted(p)
    BY <1>1, <1>2, <1>3, <1>9, ItemWanted
  <2>2. env \in [Job -> Seq(Values)] /\ ran \in [Processes -> Seq(Steps \X Items)] /\ <<p, s>> \in Job
        /\ ok \in [Job -> BOOLEAN] /\ item \in [Job -> Nat \ {0}] /\ at \in [Job -> Places]
    BY OfStepIs DEF RunInv, TypedToo
  <2>3. ran'[p] = Append(ran[p], <<s, i>>) /\ ran' \in [Processes -> Seq(Steps \X Items)]
    <3>1. <<s, i>> \in Steps \X Items /\ ran[p] \in Seq(Steps \X Items)
      BY <1>2, <2>2
    <3>2. Append(ran[p], <<s, i>>) \in Seq(Steps \X Items)
      BY <3>1
    <3> QED BY <1>9, <2>2, <3>2
  <2>4. \A k \in Items : Past(p, s, k)' <=> Past(p, s, k) \/ k = i
    BY <1>1, <1>3, <1>4, <1>9 DEF Past
  <2>5. Works(p, s)
    BY <1>1, <1>4, <1>9, <2>2, <2>3 DEF Works
  <2>6. Script[s][i].exports = Unset
    BY <1>2, PipesAssumption
  <2>7. Adds(p, s, i)
    BY <1>1, <1>2, <2>1, <2>3, <2>4, <2>6 DEF Adds
  <2> QED BY <1>2, <1>6, <2>5, <2>7, WorksKeeps
<1> QED BY <1>7, <1>8, <1>9 DEF RunPipe

LEMMA EndPipeOrders ==
  ASSUME Grows, Inv, RunInv, NEW p \in Processes, NEW s \in Steps, EndPipe(p, s) PROVE RunInv'
<1>1. UNCHANGED <<scenario, pc, result, plan, next, ok, env, ran>> /\ Lives(p)
      /\ at[<<p, s>>] = "pipe end"
  BY DEF EndPipe, In, process
<1>2. CASE ok[<<p, s>>] /\ NextItem(p, s) /\ Goto(<<p, s>>, "script")
  <2>1. at'[<<p, s>>] = "script" /\ item'[<<p, s>>] = item[<<p, s>>] + 1
    BY <1>2, OfStepIs DEF NextItem
  <2>2. ASSUME NEW k \in Items PROVE Past(p, s, k)' <=> Past(p, s, k)
    <3>1. k \in Nat /\ item[<<p, s>>] \in Nat
      BY ItemsAreNat, OfStepIs
    <3>2. Past(p, s, k)' <=> k < item[<<p, s>>] + 1
      BY <2>1 DEF Past
    <3>3. Past(p, s, k) <=> k < item[<<p, s>>] \/ k = item[<<p, s>>]
      BY <1>1, <1>2 DEF Past
    <3> QED BY <3>1, <3>2, <3>3
  <2>3. Progress(p, s)'
    BY <1>1, <1>2, <2>1, OfStepIs DEF Progress, Ahead, PipePlaces
  <2> QED BY <1>1, <1>2, <2>2, <2>3, QuietWork DEF Places
<1>3. CASE ~ok[<<p, s>>] /\ Goto(<<p, s>>, "leave") /\ UNCHANGED item
  <2>1. at'[<<p, s>>] = "leave"
    BY <1>3, OfStepIs
  <2>2. ASSUME NEW k \in Items PROVE Past(p, s, k)' <=> Past(p, s, k)
    BY <1>1, <1>3, <2>1 DEF Past
  <2>3. Progress(p, s)'
    BY <1>1, <1>3, <2>1, OfStepIs DEF Progress, Ahead, PipePlaces
  <2> QED BY <1>1, <1>3, <2>2, <2>3, QuietWork DEF Places
<1> QED BY <1>2, <1>3 DEF EndPipe

\* What a process does leaves its steps and what has run alone.
LEMMA StepsAlone ==
  ASSUME Grows, RunInv, UNCHANGED <<scenario, at, item, ok, env, ran>>
  PROVE  /\ TypedToo' <=> result' \in [Processes -> {"none", "nil", "error"}]
         /\ \A p \in Processes, s \in Steps : OfStep(p, s)'
         /\ \A p : InOrder(p)' <=> InOrder(p)
<1>1. \A p : Wanted(p)' = Wanted(p)
  BY WantedSame
<1>2. \A p \in Processes, s \in Steps : Progress(p, s)' /\ RanIs(p, s)' /\ EnvIs(p, s)'
  <2> SUFFICES ASSUME NEW p \in Processes, NEW s \in Steps
               PROVE  Progress(p, s)' /\ RanIs(p, s)' /\ EnvIs(p, s)'
    OBVIOUS
  <2>1. Progress(p, s) /\ RanIs(p, s) /\ EnvIs(p, s)
    BY DEF RunInv, OfStep
  <2>2. Progress(p, s)'
    BY <2>1 DEF Progress, ShouldSkipScript, Cli
  <2>3. RanIs(p, s)'
    BY <1>1, <2>1 DEF RanIs, Past
  <2>4. EnvIs(p, s)'
    BY <2>1 DEF EnvIs, Exported, Known, Inherited, Grows
  <2> QED BY <2>2, <2>3, <2>4
<1>3. \A p : InOrder(p)' <=> InOrder(p)
  BY DEF InOrder, Earlier
<1>4. Values' = Values
  BY ValuesSame
<1> QED BY <1>2, <1>3, <1>4 DEF OfStep, RunInv, TypedToo, Grows

LEMMA ProcessIs ==
  ASSUME Inv, RunInv, NEW p \in Processes
  PROVE  /\ pc \in [Processes -> ProcessPlaces] /\ pc[p] \in ProcessPlaces
         /\ result \in [Processes -> {"none", "nil", "error"}]
         /\ result[p] \in {"none", "nil", "error"}
         /\ plan \in [Processes -> Seq(PlanItem)] /\ plan[p] \in Seq(PlanItem)
         /\ DOMAIN plan[p] = 1..Len(plan[p]) /\ Len(plan[p]) \in Nat
         /\ next \in [Processes -> Nat \ {0}] /\ next[p] \in Nat \ {0}
         /\ Planned(p) /\ PlanFollowed(p) /\ InSequence(p)
BY DEF Inv, Typed, RunInv, TypedToo

LEMMA OtherProcess ==
  ASSUME Grows, RunInv, NEW q \in Processes, UNCHANGED <<scenario, at, item, ok, env, ran>>,
         pc'[q] = pc[q], result'[q] = result[q], plan'[q] = plan[q], next'[q] = next[q]
  PROVE  PlanFollowed(q)' /\ InSequence(q)'
<1>1. PlanFollowed(q) /\ InSequence(q) /\ (InOrder(q)' <=> InOrder(q))
  BY StepsAlone DEF RunInv
<1>2. (Lives(q)' <=> Lives(q)) /\ (Sequential(q)' <=> Sequential(q))
  BY DEF Lives, Sequential, Async
<1>3. PlanFollowed(q)'
  BY <1>1 DEF PlanFollowed
<1>4. InSequence(q)'
  BY <1>1, <1>2 DEF InSequence
<1> QED BY <1>3, <1>4

LEMMA ProcessOrders ==
  ASSUME Grows, Inv, RunInv, NEW p \in Processes, UNCHANGED <<scenario, at, item, ok, env, ran>>,
         result' \in [Processes -> {"none", "nil", "error"}],
         \A q \in Processes \ {p} :
           pc'[q] = pc[q] /\ result'[q] = result[q] /\ plan'[q] = plan[q] /\ next'[q] = next[q],
         PlanFollowed(p)', InSequence(p)'
  PROVE  RunInv'
<1>1. TypedToo' /\ \A q \in Processes, s \in Steps : OfStep(q, s)'
  BY StepsAlone
<1>2. ASSUME NEW q \in Processes, q # p PROVE PlanFollowed(q)' /\ InSequence(q)'
  BY <1>2, OtherProcess
<1> QED BY <1>1, <1>2 DEF RunInv

LEMMA StepsOfPlan ==
  ASSUME NEW p \in Processes, NEW list \in Seq(PlanItem), NEW k \in DOMAIN list
  PROVE  list[k].step \in Steps /\ list[k] \in PlanItem
<1>1. list[k] \in PlanItem
  OBVIOUS
<1> QED BY <1>1 DEF PlanItem

LEMMA ExecuteOrders ==
  ASSUME Grows, Inv, RunInv, NEW p \in Processes, Execute(p) PROVE RunInv'
<1>1. /\ UNCHANGED <<scenario, at, item, ok, env, ran, result, plan, next>>
      /\ pc[p] = "idle" /\ pc' = [pc EXCEPT ![p] = "started"]
  BY DEF Execute, step
<1>2. pc'[p] = "started"
  BY <1>1, ProcessIs
<1>3. PlanFollowed(p)'
  BY <1>1, <1>2, ProcessIs DEF PlanFollowed
<1>4. InSequence(p)'
  <2>1. next[p] = 1 /\ ran[p] = <<>> /\ result[p] = "none"
    BY <1>1, ProcessIs DEF PlanFollowed
  <2>2. \A s \in Steps : at[<<p, s>>] = "idle"
    BY <1>1, ProcessIs DEF Planned
  <2>3. \A k \in DOMAIN plan[p] : ~(k < 1) /\ plan[p][k].step \in Steps
    BY ProcessIs, StepsOfPlan
  <2>4. InOrder(p)'
    <3>1. DOMAIN ran'[p] = {}
      BY <1>1, <2>1
    <3> QED BY <3>1 DEF InOrder
  <2> QED BY <1>1, <1>2, <2>1, <2>2, <2>3, <2>4 DEF InSequence
<1>5. \A q \in Processes \ {p} :
        pc'[q] = pc[q] /\ result'[q] = result[q] /\ plan'[q] = plan[q] /\ next'[q] = next[q]
  BY <1>1, ProcessIs
<1> QED BY <1>1, <1>3, <1>4, <1>5, ProcessIs, ProcessOrders

LEMMA DetectBranchOrders ==
  ASSUME Grows, Inv, RunInv, NEW p \in Processes, DetectBranch(p) PROVE RunInv'
<1>1. /\ UNCHANGED <<scenario, at, item, ok, env, ran, next>> /\ pc[p] = "started"
  BY DEF DetectBranch, step
<1>2. next[p] = 1 /\ ran[p] = <<>> /\ result[p] = "none"
  BY <1>1, ProcessIs DEF PlanFollowed
<1>3. \A s \in Steps : at[<<p, s>>] = "idle"
  BY <1>1, ProcessIs DEF Planned
<1>4. InOrder(p)'
  <2>1. DOMAIN ran'[p] = {}
    BY <1>1, <1>2
  <2> QED BY <2>1 DEF InOrder
<1>5. /\ \A q \in Processes \ {p} :
           pc'[q] = pc[q] /\ result'[q] = result[q] /\ plan'[q] = plan[q] /\ next'[q] = next[q]
      /\ result' \in [Processes -> {"none", "nil", "error"}]
  BY <1>1, ProcessIs DEF DetectBranch, End
<1>6. CASE /\ pc' = [pc EXCEPT ![p] = "steps"] /\ plan' = [plan EXCEPT ![p] = PlanOf(scenario[p])]
           /\ UNCHANGED result
  <2>1. pc'[p] = "steps" /\ plan'[p] = PlanOf(scenario[p])
    BY <1>6, ProcessIs
  <2>2. PlanFollowed(p)'
    BY <1>1, <1>2, <1>6, <2>1 DEF PlanFollowed
  <2>3. plan'[p] \in Seq(PlanItem)
    <3>1. scenario[p].cli \in BOOLEAN
      BY DEF Inv, Typed
    <3> QED BY <2>1, <3>1, PlanIs
  <2>4. \A k \in DOMAIN plan'[p] : ~(k < 1) /\ plan'[p][k].step \in Steps
    BY <2>3, StepsOfPlan
  <2>5. InSequence(p)'
    BY <1>1, <1>2, <1>3, <1>4, <1>6, <2>1, <2>4 DEF InSequence
  <2> QED BY <1>1, <1>5, <2>2, <2>5, ProcessOrders
<1>7. CASE End(p, "error") /\ UNCHANGED plan
  <2>1. pc'[p] = "done" /\ result'[p] = "error"
    BY <1>7, ProcessIs DEF End
  <2>2. PlanFollowed(p)'
    BY <1>1, <1>7, <2>1, ProcessIs DEF PlanFollowed
  <2>3. \A k \in DOMAIN plan[p] : ~(k < 1) /\ plan[p][k].step \in Steps
    BY ProcessIs, StepsOfPlan
  <2>4. InSequence(p)'
    BY <1>1, <1>2, <1>3, <1>4, <1>7, <2>1, <2>3 DEF InSequence
  <2> QED BY <1>1, <1>5, <2>2, <2>4, ProcessOrders
<1> QED BY <1>6, <1>7 DEF DetectBranch

LEMMA EndStepOrders ==
  ASSUME Grows, Inv, RunInv, NEW p \in Processes, EndStep(p) PROVE RunInv'
<1> DEFINE s == plan[p][next[p]].step
<1>1. /\ UNCHANGED <<scenario, at, item, ok, env, ran, plan>> /\ pc[p] = "in step"
  BY DEF EndStep, step
<1>2. InOrder(p)' <=> InOrder(p)
  BY <1>1, StepsAlone
<1>3. plan[p] = PlanOf(scenario[p]) /\ result[p] = "none"
  BY <1>1, ProcessIs DEF PlanFollowed
<1>4. Sequential(p)' <=> Sequential(p)
  BY <1>1 DEF Sequential, Async
<1>5. /\ \A q \in Processes \ {p} :
           pc'[q] = pc[q] /\ result'[q] = result[q] /\ plan'[q] = plan[q] /\ next'[q] = next[q]
      /\ result' \in [Processes -> {"none", "nil", "error"}]
  BY <1>1, ProcessIs DEF EndStep, End
<1>6. CASE /\ at[<<p, s>>] = "done" /\ next' = [next EXCEPT ![p] = @ + 1]
           /\ pc' = [pc EXCEPT ![p] = "steps"] /\ UNCHANGED result
  <2>1. pc'[p] = "steps" /\ next'[p] = next[p] + 1
    BY <1>6, ProcessIs
  <2>2. PlanFollowed(p)'
    BY <1>1, <1>3, <1>6, <2>1 DEF PlanFollowed
  <2>3. ASSUME Sequential(p) PROVE InSequence(p)'
    <3>1. Lives(p)
      BY <1>1 DEF Lives
    <3>2. /\ \A k \in DOMAIN plan[p] :
               /\ k < next[p] => at[<<p, plan[p][k].step>>] = "done"
               /\ k > next[p] => at[<<p, plan[p][k].step>>] = "idle"
          /\ InOrder(p)
      BY <2>3, <3>1, ProcessIs DEF InSequence
    <3>3. ASSUME NEW k \in DOMAIN plan[p]
          PROVE  /\ k < next[p] + 1 => at[<<p, plan[p][k].step>>] = "done"
                 /\ k >= next[p] + 1 => at[<<p, plan[p][k].step>>] = "idle"
      <4>1. k \in Nat /\ next[p] \in Nat
        BY ProcessIs
      <4>2. k < next[p] + 1 => k < next[p] \/ k = next[p]
        BY <4>1
      <4>3. k >= next[p] + 1 => k > next[p]
        BY <4>1
      <4> QED BY <1>6, <3>2, <4>2, <4>3
    <3>4. \A k \in DOMAIN plan[p] : k > next[p] + 1 \/ k = next[p] + 1 => k >= next[p] + 1
      BY ProcessIs
    <3> QED BY <1>1, <1>2, <1>3, <1>6, <2>1, <3>2, <3>3, <3>4 DEF InSequence
  <2>4. InSequence(p)'
    BY <1>4, <2>3 DEF InSequence
  <2> QED BY <1>1, <1>5, <2>2, <2>4, ProcessOrders
<1>7. CASE End(p, "error") /\ UNCHANGED next
  <2>1. pc'[p] = "done" /\ result'[p] = "error"
    BY <1>7, ProcessIs DEF End
  <2>2. PlanFollowed(p)'
    BY <1>1, <1>7, <2>1, ProcessIs DEF PlanFollowed
  <2>3. InSequence(p)'
    BY <1>1, <1>2, <1>4, <1>7, <2>1, ProcessIs DEF InSequence, Lives
  <2> QED BY <1>1, <1>5, <2>2, <2>3, ProcessOrders
<1> QED BY <1>6, <1>7 DEF EndStep

LEMMA ReturnOrders ==
  ASSUME Grows, Inv, RunInv, NEW p \in Processes, Return(p) PROVE RunInv'
<1>1. /\ UNCHANGED <<scenario, at, item, ok, env, ran, plan, next>> /\ pc[p] = "steps"
      /\ next[p] > Len(plan[p]) /\ End(p, "nil")
  BY DEF Return, step
<1>2. InOrder(p)' <=> InOrder(p)
  BY <1>1, StepsAlone
<1>3. Sequential(p)' <=> Sequential(p)
  BY <1>1 DEF Sequential, Async
<1>4. /\ pc'[p] = "done" /\ result'[p] = "nil"
      /\ \A q \in Processes \ {p} :
           pc'[q] = pc[q] /\ result'[q] = result[q] /\ plan'[q] = plan[q] /\ next'[q] = next[q]
      /\ result' \in [Processes -> {"none", "nil", "error"}]
  BY <1>1, ProcessIs DEF End
<1>5. PlanFollowed(p)'
  BY <1>1, <1>4, ProcessIs DEF PlanFollowed
<1>6. InSequence(p)'
  <2>1. InSequence(p) /\ Lives(p)
    BY <1>1, ProcessIs DEF Lives
  <2> QED BY <1>1, <1>2, <1>3, <1>4, <2>1 DEF InSequence
<1> QED BY <1>1, <1>4, <1>5, <1>6, ProcessOrders

LEMMA EndsOrders ==
  ASSUME Grows, Inv, RunInv, NEW p \in Processes,
         Exit(p) \/ Die(p) \/ \E s \in Steps : NoAnswerInPipe(p, s)
  PROVE  RunInv'
<1>1. /\ UNCHANGED <<scenario, at, item, ok, env, ran, result, plan, next>>
      /\ pc' = [pc EXCEPT ![p] = "exited"]
  BY DEF Exit, Die, NoAnswerInPipe, step
<1>2. pc'[p] = "exited"
  BY <1>1, ProcessIs
<1>3. InSequence(p)'
  BY <1>2 DEF InSequence, Lives
<1>4. PlanFollowed(p)'
  BY <1>1, <1>2, ProcessIs DEF PlanFollowed
<1>5. \A q \in Processes \ {p} :
        pc'[q] = pc[q] /\ result'[q] = result[q] /\ plan'[q] = plan[q] /\ next'[q] = next[q]
  BY <1>1, ProcessIs
<1> QED BY <1>1, <1>3, <1>4, <1>5, ProcessIs, ProcessOrders

LEMMA StartStepOrders ==
  ASSUME Grows, Inv, RunInv, NEW p \in Processes, StartStep(p) PROVE RunInv'
<1> DEFINE e == plan[p][next[p]]
           j == <<p, e.step>>
<1>1. /\ UNCHANGED <<scenario, result, plan, item, ok, env, ran>>
      /\ pc[p] = "steps" /\ next[p] <= Len(plan[p])
  BY DEF StartStep
<1>2. next[p] \in DOMAIN plan[p] /\ e \in PlanItem /\ e.step \in Steps /\ j \in Job
  <2>1. next[p] \in DOMAIN plan[p]
    BY <1>1, ProcessIs
  <2>2. plan[p] \in Seq(PlanItem)
    BY ProcessIs
  <2>3. e.step \in Steps /\ e \in PlanItem
    BY <2>1, <2>2, StepsOfPlan
  <2> QED BY <2>1, <2>3 DEF Job
<1>3. at[j] = "idle"
  <2> SUFFICES ASSUME at[j] # "idle" PROVE FALSE
    OBVIOUS
  <2>1. PICK k \in DOMAIN plan[p] :
          plan[p][k].step = e.step /\ (k < next[p] \/ (k = next[p] /\ pc[p] # "steps"))
    BY <1>1, <1>2, ProcessIs DEF Planned
  <2>2. k = next[p]
    BY <1>2, <2>1, ProcessIs DEF Planned
  <2> QED BY <1>1, <2>1, <2>2, ProcessIs
<1>4. PICK v \in {"queued", "start"} : Goto(j, v)
  BY DEF StartStep
<1>5. /\ at'[j] = v /\ \A i \in Job \ {j} : at'[i] = at[i]
  BY <1>2, <1>4 DEF Inv, Typed
<1>6. pc'[p] \in {"steps", "in step"} /\ \A q \in Processes \ {p} : pc'[q] = pc[q] /\ next'[q] = next[q]
  <2>1. pc' = pc \/ pc' = [pc EXCEPT ![p] = "in step"]
    BY DEF StartStep
  <2>2. next' = next \/ next' = [next EXCEPT ![p] = @ + 1]
    BY DEF StartStep
  <2> QED BY <1>1, <2>1, <2>2, ProcessIs
<1>7. Sequential(p) => pc'[p] = "in step" /\ next' = next
  <2> SUFFICES ASSUME Sequential(p) PROVE pc'[p] = "in step" /\ next' = next
    OBVIOUS
  <2>1. ~e.async
    <3> SUFFICES ASSUME e.async PROVE FALSE
      OBVIOUS
    <3>1. \A x \in PlanItem : x.async => x = [step |-> x.step, async |-> TRUE]
      BY DEF PlanItem
    <3>2. e = [step |-> e.step, async |-> TRUE]
      BY <1>2, <3>1
    <3>3. e \in ToSet(plan[p])
      BY <1>2 DEF ToSet
    <3> HIDE DEF e
    <3>4. Async(p, e.step)
      BY <3>2, <3>3 DEF Async
    <3> QED BY <1>2, <3>4 DEF Sequential
  <2>2. pc' = [pc EXCEPT ![p] = "in step"] /\ next' = next
    BY <2>1 DEF StartStep
  <2> QED BY <2>2, ProcessIs
<1> HIDE DEF e
<1>8. ASSUME NEW q \in Processes, NEW t \in Steps PROVE OfStep(q, t)'
  <2>1. Progress(q, t) /\ RanIs(q, t) /\ EnvIs(q, t) /\ <<q, t>> \in Job
    BY OfStepIs DEF RunInv, OfStep
  <2>2. \A i : Past(q, t, i)' <=> Past(q, t, i)
    <3>1. CASE <<q, t>> = j
      BY <1>1, <1>3, <1>5, <3>1 DEF Past
    <3>2. CASE <<q, t>> # j
      BY <1>1, <1>5, <2>1, <3>2 DEF Past
    <3> QED BY <3>1, <3>2
  <2>3. Wanted(q)' = Wanted(q)
    BY <1>1, WantedSame
  <2>4. RanIs(q, t)'
    BY <1>1, <2>1, <2>2, <2>3 DEF RanIs
  <2>5. EnvIs(q, t)'
    BY <1>1, <2>1 DEF EnvIs, Exported, Known, Inherited, Grows
  <2>6. Progress(q, t)'
    <3>1. CASE <<q, t>> = j
      BY <1>1, <1>3, <1>5, <2>1, <3>1 DEF Progress, Ahead, PipePlaces
    <3>2. CASE <<q, t>> # j
      <4>1. at'[<<q, t>>] = at[<<q, t>>]
        BY <1>5, <2>1, <3>2
      <4> QED BY <1>1, <2>1, <4>1 DEF Progress, ShouldSkipScript, Cli
    <3> QED BY <3>1, <3>2
  <2> QED BY <2>4, <2>5, <2>6 DEF OfStep
<1>9. ASSUME NEW q \in Processes PROVE PlanFollowed(q)'
  <2>1. PlanFollowed(q)
    BY ProcessIs
  <2>2. CASE q = p
    BY <1>1, <1>6, <2>1, <2>2 DEF PlanFollowed
  <2>3. CASE q # p
    <3>1. pc'[q] = pc[q] /\ next'[q] = next[q]
      BY <1>6, <2>3
    <3> QED BY <1>1, <2>1, <3>1 DEF PlanFollowed
  <2> QED BY <2>2, <2>3
<1>10. ASSUME NEW q \in Processes, NEW k \in DOMAIN plan[q], plan[q][k].step # e.step \/ q # p
       PROVE  at'[<<q, plan[q][k].step>>] = at[<<q, plan[q][k].step>>]
  <2>1. plan[q][k].step \in Steps
    <3>1. plan[q] \in Seq(PlanItem)
      BY ProcessIs
    <3> QED BY <3>1, StepsOfPlan
  <2>2. <<q, plan[q][k].step>> \in Job \ {j}
    BY <1>10, <2>1 DEF Job
  <2> QED BY <1>5, <2>2
<1>11. ASSUME NEW q \in Processes, Lives(q)', Sequential(q)' PROVE InSequence(q)'
  <2>1. Sequential(q) /\ (InOrder(q)' <=> InOrder(q))
    BY <1>1, <1>11 DEF Sequential, Async, InOrder, Earlier
  <2>2. Lives(q)
    <3>1. CASE q = p
      BY <1>1, <3>1 DEF Lives
    <3>2. CASE q # p
      <4>1. pc'[q] = pc[q]
        BY <1>6, <3>2
      <4> QED BY <1>11, <4>1 DEF Lives
    <3> QED BY <3>1, <3>2
  <2>3. /\ pc[q] = "in step" => next[q] <= Len(plan[q])
        /\ \A k \in DOMAIN plan[q] :
             /\ k < next[q] => at[<<q, plan[q][k].step>>] = "done"
             /\ k > next[q] \/ (k = next[q] /\ pc[q] = "steps")
                  => at[<<q, plan[q][k].step>>] = "idle"
        /\ result[q] = "nil" => next[q] > Len(plan[q])
        /\ InOrder(q)
    BY <2>1, <2>2, ProcessIs DEF InSequence
  <2>4. CASE q = p
    <3>1. pc'[p] = "in step" /\ next' = next
      BY <1>7, <2>1, <2>4
    <3>2. ASSUME NEW k \in DOMAIN plan[p], k # next[p]
          PROVE  at'[<<p, plan[p][k].step>>] = at[<<p, plan[p][k].step>>]
      <4>1. plan[p][k].step # e.step
        BY <1>2, <3>2, ProcessIs DEF Planned, e
      <4> QED BY <1>10, <4>1
    <3>3. \A k \in DOMAIN plan[p] : k \in Nat /\ next[p] \in Nat
      BY ProcessIs
    <3>4. plan'[p] = plan[p] /\ result'[p] = result[p] /\ next'[p] = next[p]
      BY <1>1, <3>1
    <3>5. /\ next'[p] <= Len(plan'[p]) /\ InOrder(p)'
          /\ result'[p] = "nil" => next'[p] > Len(plan'[p])
      BY <1>1, <2>1, <2>3, <2>4, <3>4
    <3>6. ASSUME NEW k \in DOMAIN plan[p]
          PROVE  /\ k < next[p] => at'[<<p, plan[p][k].step>>] = "done"
                 /\ k > next[p] => at'[<<p, plan[p][k].step>>] = "idle"
      BY <2>3, <2>4, <3>2, <3>3
    <3> QED BY <2>4, <3>1, <3>4, <3>5, <3>6 DEF InSequence
  <2>5. CASE q # p
    <3>1. pc'[q] = pc[q] /\ next'[q] = next[q] /\ plan'[q] = plan[q] /\ result'[q] = result[q]
      BY <1>1, <1>6, <2>5
    <3>2. \A k \in DOMAIN plan[q] : at'[<<q, plan[q][k].step>>] = at[<<q, plan[q][k].step>>]
      BY <1>10, <2>5
    <3>3. /\ pc'[q] = "in step" => next'[q] <= Len(plan'[q])
          /\ result'[q] = "nil" => next'[q] > Len(plan'[q])
          /\ InOrder(q)'
      BY <2>1, <2>3, <3>1
    <3>4. \A k \in DOMAIN plan'[q] :
             /\ k < next'[q] => at'[<<q, plan'[q][k].step>>] = "done"
             /\ k > next'[q] \/ (k = next'[q] /\ pc'[q] = "steps")
                  => at'[<<q, plan'[q][k].step>>] = "idle"
      BY <2>3, <3>1, <3>2
    <3> QED BY <3>3, <3>4 DEF InSequence
  <2> QED BY <2>4, <2>5
<1>12. TypedToo'
  <2>1. Values' = Values
    BY <1>1, ValuesSame
  <2> QED BY <1>1, <2>1 DEF RunInv, TypedToo, Grows
<1>13. \A q \in Processes : InSequence(q)'
  BY <1>11 DEF InSequence
<1> QED BY <1>8, <1>9, <1>12, <1>13 DEF RunInv

LEMMA InitRun == Init => RunInv
<1> SUFFICES ASSUME Init PROVE RunInv
  OBVIOUS
<1>1. ASSUME NEW p \in Processes, NEW s \in Steps
      PROVE  /\ at[<<p, s>>] = "idle" /\ item[<<p, s>>] = 1 /\ ok[<<p, s>>] = TRUE
             /\ ran[p] = <<>>
             /\ env[<<p, s>>] = IF scenario[p].given = Unset THEN <<>> ELSE <<scenario[p].given>>
  BY DEF Init, Job
<1>2. ToSet(<<>>) = {}
  <2>1. DOMAIN <<>> = {}
    OBVIOUS
  <2> QED BY <2>1 DEF ToSet
<1>3. ASSUME NEW p \in Processes, NEW s \in Steps PROVE OfStep(p, s)
  <2>1. Progress(p, s)
    BY <1>1 DEF Progress, PipePlaces
  <2>2. RanIs(p, s)
    <3> SUFFICES ASSUME NEW i \in Items, <<s, i>> \in Wanted(p) PROVE ~Past(p, s, i)
      BY <1>1, <1>2 DEF RanIs
    <3>1. i \in DOMAIN Script[s]
      BY DEF Wanted
    <3>2. i \in Nat /\ i # 0
      BY <3>1, ScriptItems
    <3>3. item[<<p, s>>] = 1 /\ at[<<p, s>>] = "idle"
      BY <1>1
    <3>4. ~(i < 1)
      BY <3>2
    <3> QED BY <3>3, <3>4 DEF Past
  <2>3. EnvIs(p, s)
    <3>1. Exported(p, s) = {}
      BY <1>1, <1>2 DEF Exported
    <3>2. CASE scenario[p].given = Unset
      BY <1>1, <1>2, <3>1, <3>2 DEF EnvIs
    <3>3. CASE scenario[p].given # Unset
      <4> DEFINE v == scenario[p].given
      <4>1. ToSet(<<v>>) = {v}
        BY DEF ToSet
      <4>2. v \in Known(p, s)
        BY <3>3 DEF Known, Inherited
      <4> QED BY <1>1, <3>1, <3>3, <4>1, <4>2 DEF EnvIs
    <3> QED BY <3>2, <3>3
  <2> QED BY <2>1, <2>2, <2>3 DEF OfStep
<1>4. ASSUME NEW p \in Processes PROVE PlanFollowed(p) /\ InSequence(p)
  <2>1. pc[p] = "idle" /\ result[p] = "none" /\ plan[p] = <<>> /\ next[p] = 1 /\ ran[p] = <<>>
    BY DEF Init
  <2> QED BY <2>1 DEF PlanFollowed, InSequence, Lives
<1>5. TypedToo
  <2>1. env \in [Job -> Seq(Values)]
    <3>1. ASSUME NEW j \in Job
          PROVE  (IF scenario[j[1]].given = Unset THEN <<>> ELSE <<scenario[j[1]].given>>)
                   \in Seq(Values)
      <4>1. scenario[j[1]].given \in Values
        BY DEF Values, Job
      <4> QED BY <4>1
    <3> QED BY <3>1 DEF Init
  <2> QED BY <2>1 DEF Init, TypedToo
<1> QED BY <1>3, <1>4, <1>5 DEF RunInv

LEMMA FailuresGrow == RunInv /\ [Next]_vars => Grows
<1> SUFFICES ASSUME RunInv, [Next]_vars PROVE Grows
  OBVIOUS
<1>1. failures \in Nat
  BY DEF RunInv, TypedToo
<1> SUFFICES ASSUME failures' # failures PROVE failures' = failures + 1
  BY <1>1 DEF Grows
<1>2. UNCHANGED vars => failures' = failures
  BY DEF vars
<1>3. ASSUME NEW p \in Processes,
             \/ Execute(p) \/ DetectBranch(p) \/ StartStep(p) \/ EndStep(p) \/ Return(p)
             \/ Exit(p) \/ Die(p)
      PROVE  failures' = failures + 1
  BY <1>3 DEF Execute, DetectBranch, StartStep, EndStep, Return, Exit, Die, Failure
<1>4. ASSUME NEW p \in Processes, NEW s \in Steps,
             \/ Acquire(p, s) \/ StartOfStep(p, s) \/ RemoveOrphan(p, s) \/ Create(p, s)
             \/ Skip(p, s) \/ RunScript(p, s) \/ DestroyAtEnd(p, s) \/ Close(p, s) \/ Leave(p, s)
      PROVE  failures' = failures + 1
  BY <1>4 DEF Acquire, StartOfStep, RemoveOrphan, Create, FailToCreate, Skip, RunScript,
     DestroyAtEnd, Close, Leave, Failure
<1>5. ASSUME NEW p \in Processes, NEW s \in Steps,
             \/ StartPipe(p, s) \/ NoAnswerInPipe(p, s) \/ RemovePipeOrphan(p, s)
             \/ CreatePipe(p, s) \/ RunPipe(p, s) \/ EndPipe(p, s)
      PROVE  failures' = failures + 1
  BY <1>5 DEF StartPipe, NoAnswerInPipe, RemovePipeOrphan, CreatePipe, FailToCreate, RunPipe,
     EndPipe, Failure
<1> QED BY <1>2, <1>3, <1>4, <1>5 DEF Next

LEMMA StutterRun == RunInv /\ UNCHANGED vars => RunInv'
<1> SUFFICES ASSUME RunInv, UNCHANGED vars PROVE RunInv'
  OBVIOUS
<1>3. Grows /\ Values' = Values
  BY FailuresGrow, ValuesSame DEF vars
<1>1. UNCHANGED <<scenario, pc, result, plan, next, at, item, ok, env, ran>>
  BY DEF vars, process, step
<1>2. \A p \in Processes : PlanFollowed(p)' /\ InSequence(p)'
  BY <1>1, <1>3, OtherProcess
<1> QED BY <1>1, <1>2, <1>3, StepsAlone DEF RunInv, TypedToo

LEMMA RunInvariance == Spec => []RunInv
<1>1. Inv /\ RunInv /\ [Next]_vars => RunInv'
  <2> SUFFICES ASSUME Inv, RunInv, [Next]_vars PROVE RunInv'
    OBVIOUS
  <2> Grows
    BY FailuresGrow
  <2>1. CASE UNCHANGED vars
    BY <2>1, StutterRun
  <2>2. ASSUME NEW p \in Processes,
               Execute(p) \/ DetectBranch(p) \/ StartStep(p) \/ EndStep(p) \/ Return(p)
        PROVE  RunInv'
    BY <2>2, ExecuteOrders, DetectBranchOrders, StartStepOrders, EndStepOrders, ReturnOrders
  <2>3. ASSUME NEW p \in Processes, Exit(p) \/ Die(p) PROVE RunInv'
    BY <2>3, EndsOrders
  <2>4. ASSUME NEW p \in Processes, NEW s \in Steps,
               \/ Acquire(p, s) \/ StartOfStep(p, s) \/ RemoveOrphan(p, s) \/ Create(p, s)
               \/ Skip(p, s) \/ RunScript(p, s) \/ DestroyAtEnd(p, s) \/ Close(p, s) \/ Leave(p, s)
        PROVE  RunInv'
    BY <2>4, AcquireOrders, StartOfStepOrders, RemoveOrphanOrders, CreateOrders, SkipOrders,
       RunScriptOrders, DestroyAtEndOrders, CloseOrders, LeaveOrders
  <2>5. ASSUME NEW p \in Processes, NEW s \in Steps,
               \/ StartPipe(p, s) \/ NoAnswerInPipe(p, s) \/ RemovePipeOrphan(p, s)
               \/ CreatePipe(p, s) \/ RunPipe(p, s) \/ EndPipe(p, s)
        PROVE  RunInv'
    BY <2>5, StartPipeOrders, EndsOrders, RemovePipeOrphanOrders, CreatePipeOrders,
       RunPipeOrders, EndPipeOrders
  <2> QED BY <2>1, <2>2, <2>3, <2>4, <2>5 DEF Next
<1> QED BY InitRun, Invariance, <1>1, PTL DEF Spec

\* A step that is done is past all that is wanted of it.
LEMMA DoneHasRun ==
  ASSUME Inv, RunInv, NEW p \in Processes, NEW y \in Wanted(p), at[<<p, y[1]>>] = "done"
  PROVE  y \in ToSet(ran[p])
<1>1. PICK s \in Steps, i \in Items : y = <<s, i>>
  BY DEF Wanted
<1>2. y[1] = s /\ y[2] = i
  BY <1>1
<1>3. i \in DOMAIN Script[s]
  BY <1>2 DEF Wanted
<1>4. item[<<p, s>>] > Len(Script[s])
  BY <1>2, OfStepIs DEF Progress
<1>5. i \in 1..Len(Script[s]) /\ item[<<p, s>>] \in Nat /\ Len(Script[s]) \in Nat
  BY <1>3, ScriptItems, OfStepIs
<1>6. Past(p, s, i)
  <2>1. i < item[<<p, s>>]
    BY <1>4, <1>5
  <2> QED BY <2>1 DEF Past
<1> QED BY <1>1, <1>6 DEF RunInv, OfStep, RanIs

\* A sequential run (Run of the command, which runs one step after the other) runs what its
\* branch asks for in the order of the configuration, each item once and none after one that
\* failed; if it returns no error then all of them ran well, for any configuration.
THEOREM SuccessIsEarned == Spec => []SuccessMeansRan
<1>1. Inv /\ RunInv => SuccessMeansRan
  <2> SUFFICES ASSUME Inv, RunInv, NEW p \in Processes, Sequential(p), Lives(p)
               PROVE  /\ \A m, n \in DOMAIN ran[p] : m < n => Earlier(p, ran[p][m], ran[p][n])
                      /\ \A x \in ToSet(ran[p]), y \in Wanted(p) :
                           Earlier(p, y, x) => y \in ToSet(ran[p])
                      /\ ToSet(ran[p]) \subseteq Wanted(p)
                      /\ result[p] = "nil" => ToSet(ran[p]) = Wanted(p)
    BY DEF SuccessMeansRan
  <2>1. /\ \A k \in DOMAIN plan[p] : k < next[p] => at[<<p, plan[p][k].step>>] = "done"
        /\ result[p] = "nil" => next[p] > Len(plan[p])
        /\ \A m, n \in DOMAIN ran[p] : m < n => Earlier(p, ran[p][m], ran[p][n])
    BY ProcessIs DEF InSequence, InOrder
  <2>2. ToSet(ran[p]) \subseteq Wanted(p)
    BY RanItem
  <2>3. ASSUME NEW x \in ToSet(ran[p]), NEW y \in Wanted(p), Earlier(p, y, x)
        PROVE  y \in ToSet(ran[p])
    <3>1. /\ x[1] \in Steps /\ x[2] \in Items /\ Past(p, x[1], x[2])
          /\ at[<<p, x[1]>>] # "idle" /\ pc[p] # "exited"
      BY RanItem DEF Ahead, Lives
    <3>2. y[1] \in Steps /\ y[2] \in Items /\ y = <<y[1], y[2]>> /\ Chosen(scenario[p], y[1])
      BY DEF Wanted
    <3>3. CASE x[1] = y[1] /\ y[2] < x[2]
      <4>1. y[2] \in Nat /\ x[2] \in Nat /\ item[<<p, y[1]>>] \in Nat
        BY <3>1, <3>2, ItemsAreNat, OfStepIs
      <4>2. y[2] < item[<<p, y[1]>>]
        <5>1. <<p, x[1]>> = <<p, y[1]>>
          BY <3>3
        <5>2. x[2] < item[<<p, x[1]>>] \/ x[2] = item[<<p, x[1]>>]
          BY <3>1 DEF Past
        <5> QED BY <3>3, <4>1, <5>1, <5>2
      <4>3. Past(p, y[1], y[2])
        BY <4>2 DEF Past
      <4> QED BY <3>2, <4>3 DEF RunInv, OfStep, RanIs
    <3>4. CASE Precedes(scenario[p], y[1], x[1])
      <4>1. PICK k \in DOMAIN plan[p] :
              plan[p][k].step = x[1] /\ (k < next[p] \/ (k = next[p] /\ pc[p] # "steps"))
        BY <3>1, StartedIsPlanned
      <4>2. plan[p] = PlanOf(scenario[p])
        BY <3>1, StartedIsPlanned
      <4>3. PICK l \in DOMAIN plan[p] : plan[p][l].step = y[1]
        BY <3>2, <4>2, PlanOfProcess
      <4>4. l < k
        BY <3>4, <4>1, <4>2, <4>3, PlanOfProcess
      <4>5. l < next[p]
        BY <4>1, <4>4, ProcessIs
      <4> QED BY <2>1, <4>3, <4>5, DoneHasRun
    <3> QED BY <2>3, <3>3, <3>4 DEF Earlier
  <2>4. ASSUME result[p] = "nil", NEW y \in Wanted(p) PROVE y \in ToSet(ran[p])
    <3>1. plan[p] = PlanOf(scenario[p])
      BY <2>4, ProcessIs DEF PlanFollowed
    <3>2. y[1] \in Steps /\ Chosen(scenario[p], y[1])
      BY DEF Wanted
    <3>3. PICK l \in DOMAIN plan[p] : plan[p][l].step = y[1]
      BY <3>1, <3>2, PlanOfProcess
    <3>4. l < next[p]
      BY <2>1, <2>4, ProcessIs
    <3> QED BY <2>1, <3>3, <3>4, DoneHasRun
  <2> QED BY <2>1, <2>2, <2>3, <2>4
<1> QED BY Invariance, RunInvariance, <1>1, PTL

\* Whatever the scripts and pipes of a step on Linux do (ExecCommand, KeepEnvironmentWithEach-
\* Command): its next command sees no value but the inherited one and those that were exported
\* before it, and as long as no call of the daemon fails all the exports are carried, and what
\* has a value never becomes unset.  Which of several values is seen, it does not say.
THEOREM EnvironmentIsCarried == Spec => []EnvironmentIsKept
<1>1. Inv /\ RunInv => EnvironmentIsKept
  <2> SUFFICES ASSUME Inv, RunInv, NEW p \in Processes, NEW s \in Steps, ImageOf(s) \in LinuxImages
               PROVE  /\ Visible(env[<<p, s>>], s) \in Known(p, s) \union {Unset}
                      /\ failures = 0 =>
                           /\ Exported(p, s) \subseteq ToSet(env[<<p, s>>])
                           /\ Visible(env[<<p, s>>], s) = Unset => Known(p, s) = {}
    BY DEF EnvironmentIsKept
  <2>1. /\ ToSet(env[<<p, s>>]) \subseteq Known(p, s)
        /\ scenario[p].given # Unset => scenario[p].given \in ToSet(env[<<p, s>>])
        /\ failures = 0 => Exported(p, s) \subseteq ToSet(env[<<p, s>>])
    BY DEF RunInv, OfStep, EnvIs
  <2>2. env[<<p, s>>] \in Seq(Values)
    BY OfStepIs DEF RunInv, TypedToo
  <2>3. CASE env[<<p, s>>] = <<>>
    <3>1. DOMAIN <<>> = {}
      OBVIOUS
    <3>2. ToSet(env[<<p, s>>]) = {}
      BY <2>3, <3>1 DEF ToSet
    <3>3. Visible(env[<<p, s>>], s) = Inherited(p, s)
      BY <2>1, <2>3, <3>2 DEF Visible, Inherited
    <3>4. failures = 0 => Exported(p, s) = {}
      BY <2>1, <3>2
    <3> QED BY <2>1, <3>3, <3>4 DEF Known
  <2>4. CASE env[<<p, s>>] # <<>>
    <3>1. Len(env[<<p, s>>]) \in DOMAIN env[<<p, s>>]
      BY <2>2, <2>4
    <3>2. Visible(env[<<p, s>>], s) \in ToSet(env[<<p, s>>])
      BY <2>4, <3>1 DEF Visible, ToSet
    <3>3. Visible(env[<<p, s>>], s) \in Known(p, s) /\ Visible(env[<<p, s>>], s) # Unset
      BY <2>1, <3>2 DEF Known
    <3> QED BY <2>1, <3>3
  <2> QED BY <2>3, <2>4
<1> QED BY Invariance, RunInvariance, <1>1, PTL
=============================================================================
