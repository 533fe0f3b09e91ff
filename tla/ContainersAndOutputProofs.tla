---------------------- MODULE ContainersAndOutputProofs ----------------------
(***************************************************************************)
(* Proofs about two machines that share nothing, neither a variable nor a  *)
(* name.                                                                   *)
(*                                                                         *)
(* CommandOutput, for every number of commands and of chunks: what reaches *)
(* the log and a placeholder is the text that the commands wrote.          *)
(*                                                                         *)
(* ContainerRun, for any runs, processes and settings: who may remove      *)
(* whose containers, and what is left of them.                             *)
(***************************************************************************)
EXTENDS CommandOutput, ContainerRun, FiniteSetTheorems, SequenceTheorems,
        WellFoundedInduction, TLAPS

-----------------------------------------------------------------------------
(* CommandOutput.                                                          *)

\* Chunks, and what of them has arrived at a pipe: delivered, or held by its scanner.
Chunks == [n : Nat \ {0}, command : Nat, stream : Streams, end : Ends]
Arrived(p) == sink[p] \o held[p]

\* Type correctness.
OutputTyped ==
  /\ mode \in Modes /\ outcome \in {"ok", "error"} /\ command \in Nat
  /\ main \in {"prepare", "prepared", "idle", "running", "closing", "wait", "return", "returned"}
  /\ process \in {"none", "running", "exited", "failed"}
  /\ produced \in Seq(Chunks) /\ before \in Nat
  /\ unread \in [Writers -> SUBSET Chunks]
  /\ writer \in [Writers -> {"none", "log", "capture", "gone", "broken"}]
  /\ pipe \in [Pipes -> {"open", "closed"}] /\ reader \in [Pipes -> {"reading", "ended", "failed"}]
  /\ held \in [Pipes -> Seq(Chunks)] /\ sink \in [Pipes -> Seq(Chunks)]
  /\ lost \in BOOLEAN /\ output \in Seq(Chunks) /\ returned \in {"none", "ok", "error"}

\* The number of a chunk is its place, and commands write one after the other.
Numbered ==
  /\ \A i \in 1..Len(produced) : produced[i].n = i /\ produced[i].command <= command
  /\ \A i, j \in 1..Len(produced) : i < j => produced[i].command <= produced[j].command

\* Whatever is under way was written, and to the pipe it is at.
FromCommand ==
  /\ \A w \in Writers : \A c \in unread[w] :
       c \in Range(produced) /\ WriterOf(c.stream) = w /\ c.command = command
  /\ \A p \in Pipes : \A c \in Range(Arrived(p)) :
       c \in Range(produced) /\ (p \in Streams => c.stream = p)

\* What a writer has still to write to the log.
ToLog(w) == IF writer[w] = "capture" THEN unread[w] \ Written(w)
            ELSE IF writer[w] = "broken" THEN {} ELSE unread[w]
ToWrite(w, p) == IF p = "capture" THEN unread[w] ELSE ToLog(w)

\* It comes after what has arrived, in its stream.
InTurn ==
  \A p \in Pipes :
    /\ Ordered(Arrived(p))
    /\ \A w \in Writers : \A c \in ToWrite(w, p) : \A d \in Range(Arrived(p)) :
         c.stream = d.stream => d.n < c.n

\* Unless it has failed a writer has all before it that was written after a chunk.
Queued ==
  \A w \in Writers : writer[w] # "broken" =>
    \A c \in unread[w] : \A d \in Range(produced) :
      c.stream = d.stream /\ c.n < d.n => d \in unread[w]

\* Unless a connection ended early a chunk of text has arrived, or is to be written, or
\* its writer has failed, or it is part of a line whose command is over.
Stranded(c) == writer[WriterOf(c.stream)] = "broken"
               \/ (~Passed(c) /\ (c.command # command \/ process # "running"))
Reaches(p, s) == p \in {s, "capture"}
NothingMissing ==
  ~lost => \A p \in Pipes : \A c \in Texts(Range(produced)) : Reaches(p, c.stream) =>
             c \in Range(Arrived(p)) \/ (\E w \in Writers : c \in ToWrite(w, p)) \/ Stranded(c)

\* Unless a connection ended early what has arrived is of whole lines, with all text
\* before it.
NoGaps ==
  ~lost => \A p \in Pipes : \A d \in Range(Arrived(p)) :
             /\ Passed(d)
             /\ \A c \in Texts(Range(produced)) :
                  c.stream = d.stream /\ c.n < d.n /\ Passed(c) => c \in Range(Arrived(p))

\* What a scanner holds back has a newline at its end at most, and the buffer has none.
NoNewline(q) == \A i \in DOMAIN q : q[i].end # "newline"
Lines ==
  /\ \A p \in Pipes : \A i \in 1..Len(held[p]) : i < Len(held[p]) => held[p][i].end # "newline"
  /\ NoNewline(sink["capture"])

\* A writer that the mode does not use does nothing, one that is not yet or no longer
\* there has nothing to write, and one at the capture pipe has handed over a whole line.
Writes ==
  \A w \in Writers :
    /\ w \notin WritersOf(mode) => writer[w] = "none"
    /\ writer[w] \in {"none", "gone"} => unread[w] = {}
    /\ writer[w] = "capture" => EndsOfWrites(w) # {} /\ EndOfWrite(w).end # "long"
    /\ process = "running" /\ w \in WritersOf(mode) => writer[w] # "none"
    /\ writer[w] = "gone" /\ ~lost => process \in {"exited", "failed"}

\* Readers end with nothing that they hold back.
Reads == \A p \in Pipes : reader[p] = "ended" => held[p] = <<>>

\* The function: what has happened when it is where it is.
Ahead == {"prepare", "prepared"}
Late == {"closing", "wait", "return", "returned"}
Quiet == \A w \in Writers : writer[w] \in {"none", "gone"}
Fun ==
  /\ main \in Ahead => mode # "host" /\ command = 0
  /\ main = "prepare" \/ (main = "prepared" /\ mode # "default") => process = "none"
  /\ process = "none" => produced = <<>> /\ \A w \in Writers : writer[w] = "none"
  /\ mode = "default" => command = 0
  /\ main = "wait" => outcome = "ok"
  /\ mode # "default" /\ main = "idle" => Quiet /\ (process # "running" \/ lost)
  /\ mode # "default" /\ main \in Late \cup {"idle"} /\ outcome = "ok" => Quiet
  /\ mode = "host" => ~lost
  /\ mode = "host" /\ main = "idle" => \A p \in Pipes : held[p] = <<>>
  /\ main \in {"return", "returned"} /\ outcome = "ok" => \A p \in Pipes : reader[p] = "ended"
  /\ main \in {"prepare", "prepared", "idle", "running"} => outcome = "ok"
  /\ IF main = "returned" THEN returned = outcome ELSE returned = "none"

\* What is returned is the beginning of the buffer; and on the host all the text that the
\* earlier scripts wrote is among the first `before' chunks of it.
Captured ==
  /\ main = "returned" =>
       /\ Len(output) <= Len(sink["capture"])
       /\ \A i \in 1..Len(output) : output[i] = sink["capture"][i]
       /\ Len(output) < Len(sink["capture"]) =>
            reader["capture"] = "reading" /\ Len(output) >= Visible
  /\ main # "returned" => output = <<>>
  /\ mode = "host" =>
       \A c \in Texts(Range(produced)) : c.command < command =>
         \E j \in 1..before : j \in DOMAIN sink["capture"] /\ sink["capture"][j] = c

\* The inductive invariant.
OutputInv == /\ OutputTyped /\ Numbered /\ FromCommand /\ InTurn /\ Queued
             /\ NothingMissing /\ NoGaps /\ Lines /\ Writes /\ Reads /\ Fun /\ Captured
-----------------------------------------------------------------------------
(* Sets of chunks and their order.                                         *)

\* A set of numbers has a least one.
LEMMA Least ==
  ASSUME NEW S \in SUBSET Nat, S # {}
  PROVE  \E n \in S : \A m \in S : n <= m
<1>1. PICK n \in S : \A m \in S : <<m, n>> \notin OpToRel(<, Nat)
  BY WFMin, NatLessThanWellFounded
<1>2. \A m \in S : ~ (m < n)
  BY <1>1 DEF OpToRel
<1>. QED
  BY <1>2

\* Every property of numbers that zero has, and that goes on to the next, is a
\* property of all.
LEMMA AllNumbers ==
  ASSUME NEW S, 0 \in S, \A n \in Nat : n \in S => n + 1 \in S
  PROVE  Nat \subseteq S
<1> SUFFICES ASSUME Nat \ S # {} PROVE FALSE
  OBVIOUS
<1>1. PICK n \in Nat \ S : \A m \in Nat \ S : n <= m
  <2>1. Nat \ S \in SUBSET Nat
    OBVIOUS
  <2>. QED
    BY <2>1, Least
<1>2. n # 0 /\ n - 1 \in Nat
  OBVIOUS
<1>3. n - 1 \in S
  BY <1>1, <1>2
<1>4. (n - 1) + 1 \in S
  BY <1>2, <1>3
<1> QED
  BY <1>2, <1>4

\* Chunks with numbers of their own.
Numbers(S) == (\A c \in S : c.n \in Nat) /\ \A c, d \in S : c.n = d.n => c = d
Increasing(q) == \A i, j \in DOMAIN q : i < j => q[i].n < q[j].n

\* They can be put in order, the least first.
LEMMA OrderExists ==
  ASSUME NEW S, IsFiniteSet(S), Numbers(S)
  PROVE  \E q \in [1..Cardinality(S) -> S] : Increasing(q)
<1>. DEFINE N == {k \in Nat : \A T \in SUBSET S :
                    Cardinality(T) = k => \E q \in [1..k -> T] : Increasing(q)}
<1>1. 0 \in N
  <2>. SUFFICES ASSUME NEW T \in SUBSET S, Cardinality(T) = 0
                PROVE  \E q \in [1..0 -> T] : Increasing(q)
    OBVIOUS
  <2>. DEFINE q == [i \in 1..0 |-> 0]
  <2>1. q \in [1..0 -> T] /\ DOMAIN q = {}
    OBVIOUS
  <2>2. Increasing(q)
    BY <2>1 DEF Increasing
  <2>. QED
    BY <2>1, <2>2
<1>2. ASSUME NEW k \in Nat, k \in N PROVE k + 1 \in N
  <2>. SUFFICES ASSUME NEW T \in SUBSET S, Cardinality(T) = k + 1
                PROVE  \E q \in [1..(k + 1) -> T] : Increasing(q)
    OBVIOUS
  <2>1. IsFiniteSet(T) /\ T # {}
    BY FS_Subset, FS_EmptySet
  <2>2. PICK m \in T : \A c \in T : m.n <= c.n
    <3>. DEFINE M == {c.n : c \in T}
    <3>1. M \in SUBSET Nat /\ M # {}
      BY <2>1 DEF Numbers
    <3>2. PICK x \in M : \A y \in M : x <= y
      <4>. HIDE DEF M
      <4>. QED
        BY <3>1, Least
    <3>. QED
      BY <3>2
  <2>. DEFINE R == T \ {m}
  <2>3. Cardinality(R) = k /\ R \in SUBSET S
    <3>1. Cardinality(R) = Cardinality(T) - 1
      BY <2>1, FS_RemoveElement, Zenon
    <3>. QED
      BY <3>1
  <2>4. PICK r \in [1..k -> R] : Increasing(r)
    BY <1>2, <2>3
  <2>. DEFINE q == [i \in 1..(k + 1) |-> IF i = 1 THEN m ELSE r[i - 1]]
  <2>5. \A i \in 1..(k + 1) : i # 1 => i - 1 \in 1..k /\ r[i - 1] \in R /\ m.n < r[i - 1].n
    <3>. SUFFICES ASSUME NEW i \in 1..(k + 1), i # 1
                  PROVE  i - 1 \in 1..k /\ r[i - 1] \in R /\ m.n < r[i - 1].n
      OBVIOUS
    <3>1. i - 1 \in 1..k
      OBVIOUS
    <3>2. r[i - 1] \in R
      BY <3>1
    <3>3. r[i - 1] \in T /\ r[i - 1] # m
      BY <3>2
    <3>4. m.n <= r[i - 1].n /\ m.n # r[i - 1].n /\ m.n \in Nat /\ r[i - 1].n \in Nat
      BY <2>2, <3>3 DEF Numbers
    <3>. QED
      BY <3>1, <3>2, <3>4
  <2>6. q \in [1..(k + 1) -> T]
    BY <2>5
  <2>7. Increasing(q)
    <3>. SUFFICES ASSUME NEW i \in 1..(k + 1), NEW j \in 1..(k + 1), i < j
                  PROVE  q[i].n < q[j].n
      BY DEF Increasing
    <3>1. CASE i = 1
      BY <2>5, <3>1
    <3>2. CASE i # 1
      <4>1. i - 1 \in 1..k /\ j - 1 \in 1..k /\ i - 1 < j - 1 /\ j # 1
        BY <3>2
      <4>2. r[i - 1].n < r[j - 1].n
        BY <2>4, <4>1 DEF Increasing
      <4>. QED
        BY <3>2, <4>1, <4>2
    <3>. QED
      BY <3>1, <3>2
  <2>. HIDE DEF q
  <2>. QED
    BY <2>6, <2>7
<1>3. Nat \subseteq N
  <2>. HIDE DEF N
  <2>. QED
    BY <1>1, <1>2, AllNumbers
<1>4. Cardinality(S) \in Nat
  BY FS_CardinalityType
<1>. QED
  BY <1>3, <1>4

\* InOrder has each chunk of a set once, in order.
LEMMA InOrderIs ==
  ASSUME NEW S, IsFiniteSet(S), Numbers(S)
  PROVE  InOrder(S) \in Seq(S) /\ Range(InOrder(S)) = S /\ Increasing(InOrder(S))
<1>. DEFINE q == InOrder(S)
            k == Cardinality(S)
<1>1. q \in [1..k -> S] /\ Increasing(q)
  <2>1. \E x \in [1..k -> S] : \A i, j \in DOMAIN x : i < j => x[i].n < x[j].n
    BY OrderExists DEF Increasing
  <2>. QED
    BY <2>1 DEF InOrder, Increasing
<1>2. k \in Nat
  BY FS_CardinalityType
<1>. HIDE DEF q
<1>3. q \in Injection(1..k, S)
  <2>1. ASSUME NEW i \in 1..k, NEW j \in 1..k, q[i] = q[j] PROVE i = j
    <3>1. i < j => q[i].n < q[j].n
      BY <1>1 DEF Increasing
    <3>2. j < i => q[j].n < q[i].n
      BY <1>1 DEF Increasing
    <3>3. q[i].n \in Nat /\ i \in Int /\ j \in Int
      BY <1>1, <1>2 DEF Numbers
    <3>. QED
      BY <2>1, <3>1, <3>2, <3>3
  <2>. QED
    BY <1>1, <2>1 DEF Injection, IsInjective
<1>4. IsFiniteSet(1..k) /\ Cardinality(1..k) = k
  BY <1>2, FS_Interval
<1>5. q \in Surjection(1..k, S)
  BY <1>3, <1>4, FS_Injection
<1>6. q \in Seq(S)
  BY <1>1, <1>2
<1>7. Range(q) = S
  BY <1>1, <1>5 DEF Range, Surjection
<1>. QED
  BY <1>1, <1>6, <1>7 DEF q
-----------------------------------------------------------------------------
(* Chunks that are under way.                                              *)

\* What was produced is numbered.
LEMMA ProducedIs ==
  ASSUME OutputTyped, Numbered
  PROVE  /\ Len(produced) \in Nat /\ IsFiniteSet(Range(produced))
         /\ \A c \in Range(produced) : /\ c \in Chunks /\ c.n \in 1..Len(produced)
                                       /\ produced[c.n] = c /\ c.command <= command
         /\ \A c, d \in Range(produced) : c.n = d.n => c = d
         /\ \A i \in 1..Len(produced) : produced[i] \in Range(produced)
<1>1. produced \in Seq(Chunks) /\ Len(produced) \in Nat /\ DOMAIN produced = 1..Len(produced)
  BY DEF OutputTyped
<1>2. produced \in Surjection(1..Len(produced), Range(produced))
  BY <1>1 DEF Surjection, Range
<1>3. IsFiniteSet(1..Len(produced))
  BY <1>1, FS_Interval
<1>4. IsFiniteSet(Range(produced))
  BY <1>2, <1>3, FS_Surjection
<1>5. ASSUME NEW c \in Range(produced)
      PROVE  c \in Chunks /\ c.n \in 1..Len(produced) /\ produced[c.n] = c /\ c.command <= command
  <2>1. PICK i \in 1..Len(produced) : produced[i] = c
    BY <1>1, <1>5 DEF Range
  <2>. QED
    BY <1>1, <2>1 DEF Numbered
<1>6. ASSUME NEW c \in Range(produced), NEW d \in Range(produced), c.n = d.n PROVE c = d
  <2>1. produced[c.n] = c /\ produced[d.n] = d
    BY <1>5
  <2>. QED
    BY <1>6, <2>1
<1>7. \A i \in 1..Len(produced) : produced[i] \in Range(produced)
  BY <1>1 DEF Range
<1>. QED
  BY <1>1, <1>4, <1>5, <1>6, <1>7

\* The end of a write is the first that can be one.
LEMMA EndIs ==
  ASSUME OutputTyped, Numbered, FromCommand, NEW w \in Writers, EndsOfWrites(w) # {}
  PROVE  /\ EndOfWrite(w) \in EndsOfWrites(w)
         /\ \A d \in EndsOfWrites(w) : EndOfWrite(w).n <= d.n
<1>. DEFINE M == {c.n : c \in EndsOfWrites(w)}
<1>1. \A c \in EndsOfWrites(w) : c \in Range(produced) /\ c.n \in Nat
  BY ProducedIs DEF FromCommand, EndsOfWrites
<1>2. M \in SUBSET Nat /\ M # {}
  BY <1>1
<1>3. PICK x \in M : \A y \in M : x <= y
  <2>. HIDE DEF M
  <2>. QED
    BY <1>2, Least
<1>4. \E c \in EndsOfWrites(w) : \A d \in EndsOfWrites(w) : c.n <= d.n
  BY <1>3
<1>. QED
  BY <1>4 DEF EndOfWrite

\* What is written next is the chunks of one stream up to it.
LEMMA WrittenIs ==
  ASSUME OutputTyped, Numbered, FromCommand, NEW w \in Writers, EndsOfWrites(w) # {}
  PROVE  /\ Written(w) \subseteq unread[w] /\ EndOfWrite(w) \in Written(w)
         /\ EndOfWrite(w).stream \in Streams
         /\ \A c \in Written(w) : c.stream = EndOfWrite(w).stream /\ Passed(c)
         /\ \A c \in Written(w) : \A d \in unread[w] \ Written(w) :
              c.stream = d.stream => c.n < d.n
         /\ InOrder(Written(w)) \in Seq(Chunks) /\ Range(InOrder(Written(w))) = Written(w)
         /\ Ordered(InOrder(Written(w)))
<1>. DEFINE e == EndOfWrite(w)
            W == Written(w)
<1>1. e \in unread[w] /\ (mode = "exec" => e.end # "text")
  BY EndIs DEF EndsOfWrites
<1>2. \A c \in unread[w] : /\ c \in Chunks /\ c \in Range(produced) /\ c.n \in 1..Len(produced)
                           /\ produced[c.n] = c /\ c.command = command
  BY ProducedIs DEF FromCommand
<1>3. W = {c \in unread[w] : c.stream = e.stream /\ c.n <= e.n}
  BY DEF Written, Of
<1>. HIDE DEF e, W
<1>4. W \subseteq unread[w] /\ e \in W /\ e.stream \in Streams
  BY <1>1, <1>2, <1>3 DEF Chunks
<1>5. ASSUME NEW c \in W PROVE c.stream = e.stream /\ Passed(c)
  <2>1. c.stream = e.stream /\ c.n <= e.n /\ c.command = e.command
    BY <1>1, <1>2, <1>3
  <2>2. e.n \in c.n..Len(produced) /\ produced[e.n] = e
    BY <1>1, <1>2, <1>4, <2>1, ProducedIs
  <2>. QED
    BY <1>1, <2>1, <2>2 DEF Passed
<1>6. ASSUME NEW c \in W, NEW d \in unread[w] \ W, c.stream = d.stream PROVE c.n < d.n
  <2>1. c.n <= e.n /\ ~(d.n <= e.n)
    BY <1>3, <1>6
  <2>2. c.n \in Nat /\ d.n \in Nat /\ e.n \in Nat
    BY <1>1, <1>2, <1>4, ProducedIs
  <2>. QED
    BY <2>1, <2>2
<1>7. IsFiniteSet(W)
  BY <1>2, <1>4, ProducedIs, FS_Subset
<1>8. Numbers(W)
  BY <1>2, <1>4, ProducedIs DEF Numbers
<1>9. InOrder(W) \in Seq(W) /\ Range(InOrder(W)) = W /\ Increasing(InOrder(W))
  BY <1>7, <1>8, InOrderIs
<1>10. InOrder(W) \in Seq(Chunks)
  BY <1>2, <1>4, <1>9, SeqMonotonic
<1>11. Ordered(InOrder(W))
  BY <1>9 DEF Ordered, Increasing
<1>. QED
  BY <1>4, <1>5, <1>6, <1>9, <1>10, <1>11 DEF e, W

\* What has arrived is what was delivered and what waits for the end of a line.
LEMMA ArrivedIs ==
  ASSUME OutputTyped, NEW p \in Pipes
  PROVE  /\ sink[p] \in Seq(Chunks) /\ held[p] \in Seq(Chunks) /\ Arrived(p) \in Seq(Chunks)
         /\ Range(Arrived(p)) = Range(sink[p]) \cup Range(held[p])
         /\ Range(Arrived(p)) \subseteq Chunks
         /\ held[p] = <<>> => Arrived(p) = sink[p]
<1>1. sink[p] \in Seq(Chunks) /\ held[p] \in Seq(Chunks)
  BY DEF OutputTyped
<1>2. Arrived(p) \in Seq(Chunks)
  BY <1>1, ConcatProperties DEF Arrived
<1>3. Range(Arrived(p)) = Range(sink[p]) \cup Range(held[p])
  BY <1>1, RangeConcatenation DEF Arrived
<1>4. Range(Arrived(p)) \subseteq Chunks
  BY <1>2, RangeOfSeq
<1>5. held[p] = <<>> => Arrived(p) = sink[p]
  BY <1>1, ConcatEmptySeq DEF Arrived
<1>. QED
  BY <1>1, <1>2, <1>3, <1>4, <1>5

\* What comes later may be appended.
LEMMA OrderedAppended ==
  ASSUME NEW a \in Seq(Chunks), NEW b \in Seq(Chunks), Ordered(a), Ordered(b),
         \A c \in Range(a), d \in Range(b) : c.stream = d.stream => c.n < d.n
  PROVE  Ordered(a \o b)
<1>1. /\ Len(a) \in Nat /\ Len(b) \in Nat /\ DOMAIN (a \o b) = 1..(Len(a) + Len(b))
      /\ \A i \in 1..(Len(a) + Len(b)) : (a \o b)[i] = IF i <= Len(a) THEN a[i] ELSE b[i - Len(a)]
      /\ DOMAIN a = 1..Len(a) /\ DOMAIN b = 1..Len(b)
  BY ConcatProperties
<1>. SUFFICES ASSUME NEW i \in 1..(Len(a) + Len(b)), NEW j \in 1..(Len(a) + Len(b)), i < j,
                     (a \o b)[i].stream = (a \o b)[j].stream
              PROVE  (a \o b)[i].n < (a \o b)[j].n
  BY <1>1 DEF Ordered
<1>2. CASE j <= Len(a)
  <2>1. i \in DOMAIN a /\ j \in DOMAIN a /\ (a \o b)[i] = a[i] /\ (a \o b)[j] = a[j]
    BY <1>1, <1>2
  <2>. QED
    BY <2>1 DEF Ordered
<1>3. CASE Len(a) < i
  <2>1. /\ i - Len(a) \in DOMAIN b /\ j - Len(a) \in DOMAIN b /\ i - Len(a) < j - Len(a)
        /\ (a \o b)[i] = b[i - Len(a)] /\ (a \o b)[j] = b[j - Len(a)]
    BY <1>1, <1>3
  <2>. QED
    BY <2>1 DEF Ordered
<1>4. CASE i <= Len(a) /\ Len(a) < j
  <2>1. /\ i \in DOMAIN a /\ j - Len(a) \in DOMAIN b
        /\ (a \o b)[i] = a[i] /\ (a \o b)[j] = b[j - Len(a)]
    BY <1>1, <1>4
  <2>2. a[i] \in Range(a) /\ b[j - Len(a)] \in Range(b)
    BY <2>1 DEF Range
  <2>. QED
    BY <2>1, <2>2
<1>. QED
  BY <1>1, <1>2, <1>3, <1>4
-----------------------------------------------------------------------------
(* What has arrived, in what order, and what is missing.                   *)

Data == Numbered /\ FromCommand /\ InTurn /\ Queued /\ NothingMissing /\ NoGaps

\* What can reach the pipes, and by whom, depends on what was produced only.
LEMMA SameChunks ==
  ASSUME UNCHANGED <<mode, produced>>
  PROVE  /\ \A c : Passed(c)' = Passed(c)
         /\ \A s : WriterOf(s)' = WriterOf(s)
  BY DEF Passed, WriterOf

LEMMA SameWrite ==
  ASSUME NEW w \in Writers, UNCHANGED mode, unread'[w] = unread[w]
  PROVE  /\ EndsOfWrites(w)' = EndsOfWrites(w) /\ EndOfWrite(w)' = EndOfWrite(w)
         /\ Written(w)' = Written(w)
<1>1. EndsOfWrites(w)' = EndsOfWrites(w)
  BY DEF EndsOfWrites
<1>2. EndOfWrite(w)' = EndOfWrite(w)
  BY <1>1, Zenon DEF EndOfWrite
<1>3. Written(w)' = Written(w)
  BY <1>2 DEF Written, Of
<1>. QED
  BY <1>1, <1>2, <1>3

LEMMA SameToWrite ==
  ASSUME NEW w \in Writers, UNCHANGED mode, unread'[w] = unread[w], writer'[w] = writer[w]
  PROVE  \A p : ToWrite(w, p)' = ToWrite(w, p)
  BY SameWrite DEF ToWrite, ToLog

\* All that is to be written is unread.
LEMMA ToWriteIs ==
  ASSUME OutputTyped, FromCommand, NEW w \in Writers, NEW p \in Pipes
  PROVE  /\ ToWrite(w, p) \subseteq unread[w]
         /\ \A c \in ToWrite(w, p) : c \in Range(produced) /\ WriterOf(c.stream) = w
                                     /\ c.command = command
<1>1. ToWrite(w, p) \subseteq unread[w]
  BY DEF ToWrite, ToLog
<1>. QED
  BY <1>1 DEF FromCommand

\* Steps that start no command, and at most drop newlines from what has arrived or is to
\* be written.
LEMMA DataThins ==
  ASSUME OutputTyped, Data, UNCHANGED <<mode, command, produced, lost>>,
         process' = process \/ process' # "running",
         \A p \in Pipes :
           /\ Range(Arrived(p))' \subseteq Range(Arrived(p)) /\ Ordered(Arrived(p))'
           /\ \A c \in Range(Arrived(p)) : c.end # "newline" => c \in Range(Arrived(p))',
         \A w \in Writers :
           /\ unread'[w] \subseteq unread[w]
           /\ writer[w] = "broken" <=> writer'[w] = "broken"
           /\ \A c \in unread'[w] : \A d \in unread[w] :
                c.stream = d.stream /\ c.n < d.n => d \in unread'[w]
           /\ \A p \in Pipes : ToWrite(w, p)' \subseteq ToWrite(w, p)
           /\ \A p \in Pipes : \A c \in ToWrite(w, p) :
                c.end # "newline" => c \in ToWrite(w, p)'
  PROVE  Data'
<1>. USE DEF Data
<1>1. /\ \A c : Passed(c)' = Passed(c)
      /\ \A s : WriterOf(s)' = WriterOf(s)
  BY SameChunks
<1>2. Numbered'
  BY DEF Numbered
<1>3. FromCommand'
  BY <1>1 DEF FromCommand
<1>4. InTurn'
  BY DEF InTurn
<1>5. Queued'
  <2>. SUFFICES ASSUME NEW w \in Writers, writer'[w] # "broken", NEW c \in unread'[w],
                       NEW d \in Range(produced), c.stream = d.stream, c.n < d.n
                PROVE  d \in unread'[w]
    BY DEF Queued
  <2>1. c \in unread[w] /\ writer[w] # "broken"
    OBVIOUS
  <2>2. d \in unread[w]
    BY <2>1 DEF Queued
  <2>. QED
    BY <2>2
<1>6. ASSUME NEW c \in Range(produced), Stranded(c) PROVE Stranded(c)'
  <2>1. WriterOf(c.stream) \in Writers
    BY ProducedIs DEF Chunks, WriterOf, Writers
  <2>. QED
    BY <1>1, <1>6, <2>1 DEF Stranded
<1>7. NothingMissing'
  <2>. SUFFICES ASSUME ~lost', NEW p \in Pipes, NEW c \in Texts(Range(produced))', Reaches(p, c.stream)
                PROVE  \/ c \in Range(Arrived(p))'
                       \/ \E w \in Writers : c \in ToWrite(w, p)'
                       \/ Stranded(c)'
    BY Zenon DEF NothingMissing, Reaches
  <2>1. c \in Texts(Range(produced)) /\ c \in Range(produced) /\ c.end # "newline"
    BY DEF Texts
  <2>2. \/ c \in Range(Arrived(p))
        \/ \E w \in Writers : c \in ToWrite(w, p)
        \/ Stranded(c)
    BY <2>1 DEF NothingMissing
  <2>. QED
    BY <1>6, <2>1, <2>2
<1>8. NoGaps'
  <2>. SUFFICES ASSUME ~lost', NEW q \in Pipes, NEW d \in Range(Arrived(q))'
                PROVE  /\ Passed(d)'
                       /\ \A c \in Texts(Range(produced))' :
                            c.stream = d.stream /\ c.n < d.n /\ Passed(c)' => c \in Range(Arrived(q))'
    BY Zenon DEF NoGaps
  <2>1. /\ d \in Range(Arrived(q)) /\ Passed(d)
        /\ \A c \in Texts(Range(produced)) :
              c.stream = d.stream /\ c.n < d.n /\ Passed(c) => c \in Range(Arrived(q))
    BY DEF NoGaps
  <2>. QED
    BY <1>1, <2>1 DEF Texts
<1>. QED
  BY <1>2, <1>3, <1>4, <1>5, <1>7, <1>8

\* Steps that neither move a chunk nor start a command.
LEMMA DataStays ==
  ASSUME OutputTyped, Data, UNCHANGED <<mode, command, produced, unread, writer, lost>>,
         process' = process \/ process' # "running",
         \A p \in Pipes : Arrived(p)' = Arrived(p)
  PROVE  Data'
<1>1. \A w \in Writers : \A p : ToWrite(w, p)' = ToWrite(w, p)
  BY SameToWrite
<1>2. \A p \in Pipes : Range(Arrived(p))' = Range(Arrived(p)) /\ Ordered(Arrived(p))'
  BY DEF Data, InTurn, Ordered
<1>. QED
  BY <1>1, <1>2, DataThins

\* The writer w stops, and what it has not written is dropped.
LEMMA DataStops ==
  ASSUME OutputTyped, Data, NEW w \in Writers, NEW x \in {"gone", "broken"},
         UNCHANGED <<mode, command, produced, process>>,
         \A p \in Pipes : Arrived(p)' = Arrived(p),
         writer' = [writer EXCEPT ![w] = x],
         unread' = [unread EXCEPT ![w] = {}],
         writer[w] # "broken",
         \/ lost'
         \/ lost' = lost /\ x = "broken"
         \/ lost' = lost /\ process # "running"
            /\ \A c \in unread[w] : lost \/ ~Passed(c)
  PROVE  Data'
<1>. USE DEF Data
<1>1. /\ \A c : Passed(c)' = Passed(c)
      /\ \A s : WriterOf(s)' = WriterOf(s)
  BY SameChunks
<1>2. /\ writer'[w] = x /\ unread'[w] = {}
      /\ \A v \in Writers \ {w} : writer'[v] = writer[v] /\ unread'[v] = unread[v]
  BY DEF OutputTyped
<1>3. \A v \in Writers \ {w} : \A p : ToWrite(v, p)' = ToWrite(v, p)
  BY <1>2, SameToWrite
<1>4. \A p : ToWrite(w, p)' = {}
  BY <1>2 DEF ToWrite, ToLog
<1>5. \A v \in Writers, p \in Pipes : ToWrite(v, p)' \subseteq ToWrite(v, p)
  BY <1>3, <1>4
<1>6. Numbered'
  BY DEF Numbered
<1>7. FromCommand'
  BY <1>1, <1>2 DEF FromCommand
<1>8. InTurn'
  BY <1>5 DEF InTurn, Ordered
<1>9. ASSUME NEW c, Stranded(c), ~lost' PROVE Stranded(c)'
  <2>1. writer[WriterOf(c.stream)] = "broken" => writer'[WriterOf(c.stream)] = "broken"
    <3>1. WriterOf(c.stream) = w \/ writer'[WriterOf(c.stream)] = writer[WriterOf(c.stream)]
      BY DEF OutputTyped
    <3>. QED
      BY <1>2, <3>1
  <2>. QED
    BY <1>1, <1>9, <2>1 DEF Stranded
<1>10. NothingMissing'
  <2>. SUFFICES ASSUME ~lost', NEW p \in Pipes, NEW c \in Texts(Range(produced))', Reaches(p, c.stream)
                PROVE  \/ c \in Range(Arrived(p))'
                       \/ \E v \in Writers : c \in ToWrite(v, p)'
                       \/ Stranded(c)'
    BY Zenon DEF NothingMissing, Reaches
  <2>1. \/ c \in Range(Arrived(p))
        \/ \E v \in Writers : c \in ToWrite(v, p)
        \/ Stranded(c)
    BY DEF NothingMissing, Texts
  <2>2. ASSUME c \in ToWrite(w, p) PROVE Stranded(c)'
    <3>1. c \in unread[w] /\ WriterOf(c.stream) = w
      BY <2>2, ToWriteIs
    <3>2. CASE x = "broken"
      BY <1>1, <1>2, <3>1, <3>2 DEF Stranded
    <3>3. CASE x = "gone"
      <4>1. process' # "running" /\ ~Passed(c)
        BY <3>1, <3>3
      <4>. QED
        BY <1>1, <4>1 DEF Stranded
    <3>. QED
      BY <3>2, <3>3
  <2>3. ASSUME NEW v \in Writers \ {w}, c \in ToWrite(v, p) PROVE c \in ToWrite(v, p)'
    BY <1>3, <2>3
  <2>. QED
    BY <1>9, <2>1, <2>2, <2>3
<1>11. NoGaps'
  BY <1>1 DEF NoGaps
<1>12. Queued'
  BY <1>2 DEF Queued
<1>. QED
  BY <1>6, <1>7, <1>8, <1>10, <1>11, <1>12

\* A write that has gone through: its chunks have arrived at one pipe, and what comes
\* before them in their stream arrived there earlier.
LEMMA DataMoves ==
  ASSUME OutputTyped, Data, NEW w \in Writers, EndsOfWrites(w) # {},
         NEW p \in Pipes, p \in {EndOfWrite(w).stream, "capture"}, writer[w] \notin {"broken"},
         UNCHANGED <<mode, command, produced, process, lost>>,
         Arrived(p)' = Arrived(p) \o InOrder(Written(w)),
         \A q \in Pipes \ {p} : Arrived(q)' = Arrived(q),
         \A v \in Writers \ {w} : writer'[v] = writer[v] /\ unread'[v] = unread[v],
         writer'[w] \in {"log", "capture"}, unread'[w] \in {unread[w], unread[w] \ Written(w)},
         Written(w) \subseteq ToWrite(w, p), ToWrite(w, p)' = ToWrite(w, p) \ Written(w),
         \A q \in Pipes \ {p} : \/ ToWrite(w, q)' = ToWrite(w, q)
                                \/ q # "capture" /\ q # EndOfWrite(w).stream
                                   /\ ToWrite(w, q)' = ToWrite(w, q) \ Written(w)
  PROVE  Data'
<1>. USE DEF Data
<1>. DEFINE W == Written(w)
            I == InOrder(W)
            e == EndOfWrite(w)
<1>1. /\ \A c : Passed(c)' = Passed(c)
      /\ \A s : WriterOf(s)' = WriterOf(s)
  BY SameChunks
<1>2. /\ W \subseteq unread[w] /\ e \in W /\ e.stream \in Streams
      /\ \A c \in W : c.stream = e.stream /\ Passed(c)
      /\ \A c \in W : \A d \in unread[w] \ W : c.stream = d.stream => c.n < d.n
      /\ I \in Seq(Chunks) /\ Range(I) = W /\ Ordered(I)
  BY WrittenIs
<1>. HIDE DEF I, e
<1>3. \A v \in Writers \ {w} : \A q : ToWrite(v, q)' = ToWrite(v, q)
  BY SameToWrite
<1>4. Arrived(p)' = Arrived(p) \o I
  BY DEF I
<1>. HIDE DEF W
<1>5. Range(Arrived(p) \o I) = Range(Arrived(p)) \cup W
  BY <1>2, ArrivedIs, RangeConcatenation
<1>6. Range(Arrived(p))' = Range(Arrived(p)) \cup W
  BY <1>4, <1>5
<1>7. ASSUME NEW c \in W
      PROVE  c \in Range(produced) /\ WriterOf(c.stream) = w /\ c.command = command
             /\ c.stream = e.stream
  BY <1>2, <1>7 DEF FromCommand
<1>8. Numbered'
  BY DEF Numbered
<1>9. FromCommand'
  <2>1. ASSUME NEW v \in Writers, NEW c \in unread'[v]
        PROVE  c \in Range(produced)' /\ WriterOf(c.stream)' = v /\ c.command = command'
    <3>1. c \in unread[v]
      BY <2>1 DEF W
    <3>. QED
      BY <1>1, <3>1 DEF FromCommand
  <2>2. ASSUME NEW c \in Range(Arrived(p))'
        PROVE  c \in Range(produced)' /\ (p \in Streams => c.stream = p)
    <3>1. CASE c \in Range(Arrived(p))
      BY <3>1 DEF FromCommand
    <3>2. CASE c \in W
      <4>1. c \in Range(produced) /\ c.stream = e.stream
        BY <1>7, <3>2
      <4>2. p = e.stream \/ p = "capture"
        BY DEF e
      <4>. QED
        BY <4>1, <4>2 DEF Streams
    <3>. QED
      BY <1>6, <2>2, <3>1, <3>2
  <2>3. ASSUME NEW q \in Pipes \ {p}, NEW c \in Range(Arrived(q))'
        PROVE  c \in Range(produced)' /\ (q \in Streams => c.stream = q)
    BY <2>3 DEF FromCommand
  <2>. QED
    BY <2>1, <2>2, <2>3 DEF FromCommand
<1>10. \A v \in Writers, q \in Pipes : ToWrite(v, q)' \subseteq ToWrite(v, q)
  <2>1. \A q \in Pipes : ToWrite(w, q)' \subseteq ToWrite(w, q)
    BY DEF W
  <2>. QED
    BY <1>3, <2>1
<1>11. InTurn'
  <2>1. Ordered(Arrived(p) \o I)
    <3>1. ASSUME NEW c \in Range(Arrived(p)), NEW d \in Range(I), c.stream = d.stream
          PROVE  c.n < d.n
      <4>1. d \in ToWrite(w, p)
        BY <1>2, <3>1 DEF W
      <4>. QED
        BY <3>1, <4>1 DEF InTurn
    <3>2. Arrived(p) \in Seq(Chunks) /\ Ordered(Arrived(p))
      BY ArrivedIs DEF InTurn
    <3>. QED
      BY <1>2, <3>1, <3>2, OrderedAppended
  <2>2. Ordered(Arrived(p))'
    BY <1>4, <2>1 DEF Ordered
  <2>3. ASSUME NEW v \in Writers, NEW c \in ToWrite(v, p)', NEW d \in Range(Arrived(p))',
               c.stream = d.stream
        PROVE  d.n < c.n
    <3>1. c \in ToWrite(v, p)
      BY <1>10
    <3>2. CASE d \in Range(Arrived(p))
      BY <2>3, <3>1, <3>2 DEF InTurn
    <3>3. CASE d \in W
      <4>1. WriterOf(c.stream) = v /\ WriterOf(d.stream) = w
        BY <1>7, <3>1, <3>3, ToWriteIs
      <4>2. v = w
        BY <2>3, <4>1
      <4>3. c \in unread[w] /\ c \notin W
        BY <2>3, <3>1, <4>2, ToWriteIs DEF W
      <4>. QED
        BY <1>2, <2>3, <3>3, <4>3
    <3>. QED
      BY <1>6, <2>3, <3>2, <3>3
  <2>4. ASSUME NEW q \in Pipes \ {p}
        PROVE  /\ Ordered(Arrived(q))'
               /\ \A v \in Writers : \A c \in ToWrite(v, q)' : \A d \in Range(Arrived(q))' :
                    c.stream = d.stream => d.n < c.n
    BY <1>10 DEF InTurn, Ordered
  <2>. QED
    BY <2>2, <2>3, <2>4 DEF InTurn
<1>12. ASSUME NEW c \in Range(produced), Stranded(c) PROVE Stranded(c)'
  <2>1. WriterOf(c.stream) \in Writers
    BY ProducedIs DEF Chunks, WriterOf, Writers
  <2>2. writer[WriterOf(c.stream)] = "broken" => writer'[WriterOf(c.stream)] = "broken"
    BY <2>1
  <2>. QED
    BY <1>1, <1>12, <2>2 DEF Stranded
<1>13. NothingMissing'
  <2>. SUFFICES ASSUME ~lost', NEW q \in Pipes, NEW c \in Texts(Range(produced))', Reaches(q, c.stream)
                PROVE  \/ c \in Range(Arrived(q))'
                       \/ \E v \in Writers : c \in ToWrite(v, q)'
                       \/ Stranded(c)'
    BY Zenon DEF NothingMissing, Reaches
  <2>1. \/ c \in Range(Arrived(q))
        \/ \E v \in Writers : c \in ToWrite(v, q)
        \/ Stranded(c)
    BY DEF NothingMissing, Texts
  <2>2. ASSUME c \in Range(Arrived(q)) PROVE c \in Range(Arrived(q))'
    BY <1>6, <2>2
  <2>3. ASSUME c \in ToWrite(w, q)
        PROVE  c \in ToWrite(w, q)' \/ c \in Range(Arrived(q))'
    <3>1. CASE q = p
      BY <1>6, <2>3, <3>1 DEF W
    <3>2. CASE q # p
      <4>1. c \in W => c.stream = e.stream
        BY <1>7
      <4>2. q = c.stream \/ q = "capture"
        BY DEF Reaches
      <4>. QED
        BY <2>3, <3>2, <4>1, <4>2 DEF W, e
    <3>. QED
      BY <3>1, <3>2
  <2>4. ASSUME NEW v \in Writers \ {w}, c \in ToWrite(v, q) PROVE c \in ToWrite(v, q)'
    BY <1>3, <2>4
  <2>5. c \in Range(produced)
    BY DEF Texts
  <2>. QED
    BY <1>12, <2>1, <2>2, <2>3, <2>4, <2>5
<1>14. NoGaps'
  <2>1. ASSUME ~lost, NEW d \in W, NEW c \in Texts(Range(produced)), c.stream = d.stream,
               c.n < d.n, Passed(c)
        PROVE  c \in Range(Arrived(p))'
    <3>1. Reaches(p, c.stream) /\ c \in Range(produced)
      BY <1>7, <2>1 DEF Reaches, e, Texts
    <3>2. \/ c \in Range(Arrived(p))
          \/ \E v \in Writers : c \in ToWrite(v, p)
          \/ Stranded(c)
      BY <2>1, <3>1 DEF NothingMissing
    <3>3. WriterOf(c.stream) = w
      BY <1>7, <2>1
    <3>4. ~Stranded(c)
      BY <2>1, <3>3 DEF Stranded
    <3>5. ASSUME NEW v \in Writers, c \in ToWrite(v, p) PROVE c \in W
      <4>1. v = w /\ c \in unread[w]
        BY <3>3, <3>5, ToWriteIs
      <4>2. c \notin W => d.n < c.n
        BY <1>2, <2>1, <4>1
      <4>3. c.n \in Nat /\ d.n \in Nat
        <5>1. d \in Range(produced)
          BY <1>7
        <5>. QED
          BY <3>1, <5>1, ProducedIs
      <4>. QED
        BY <2>1, <4>2, <4>3
    <3>. QED
      BY <1>6, <3>2, <3>4, <3>5
  <2>. SUFFICES ASSUME ~lost', NEW q \in Pipes, NEW d \in Range(Arrived(q))'
                PROVE  /\ Passed(d)'
                       /\ \A c \in Texts(Range(produced))' :
                            c.stream = d.stream /\ c.n < d.n /\ Passed(c)' => c \in Range(Arrived(q))'
    BY Zenon DEF NoGaps
  <2>2. CASE d \in Range(Arrived(q))
    <3>1. /\ Passed(d)
          /\ \A c \in Texts(Range(produced)) :
                c.stream = d.stream /\ c.n < d.n /\ Passed(c) => c \in Range(Arrived(q))
      BY <2>2 DEF NoGaps
    <3>. QED
      BY <1>1, <1>6, <3>1
  <2>3. CASE d \in W /\ q = p
    <3>1. Passed(d)'
      BY <1>1, <1>2, <2>3
    <3>. QED
      BY <1>1, <2>1, <2>3, <3>1
  <2>. QED
    BY <1>6, <2>2, <2>3
<1>15. Queued'
  <2>. SUFFICES ASSUME NEW v \in Writers, writer'[v] # "broken", NEW c \in unread'[v],
                       NEW d \in Range(produced), c.stream = d.stream, c.n < d.n
                PROVE  d \in unread'[v]
    BY DEF Queued
  <2>1. CASE v # w
    BY <2>1 DEF Queued
  <2>2. CASE v = w
    <3>1. c \in unread[w] /\ d \in unread[w] /\ c \in Range(produced)
      BY <2>2 DEF Queued, W, FromCommand
    <3>2. c.n \in Nat /\ d.n \in Nat
      BY <3>1, ProducedIs
    <3>3. c \notin W => d \notin W
      BY <1>2, <3>1, <3>2
    <3>. QED
      BY <2>2, <3>1, <3>3 DEF W
  <2>. QED
    BY <2>1, <2>2
<1>. QED
  BY <1>8, <1>9, <1>11, <1>13, <1>14, <1>15

\* A chunk that is written meanwhile does not change the write that comes next.
LEMMA NextWriteStays ==
  ASSUME OutputTyped, Numbered, FromCommand, NEW w \in Writers, EndsOfWrites(w) # {},
         UNCHANGED mode, NEW new, new.n = Len(produced) + 1, unread[w] \subseteq unread'[w],
         unread'[w] \subseteq unread[w] \cup {new}
  PROVE  /\ EndsOfWrites(w)' # {} /\ EndOfWrite(w)' = EndOfWrite(w)
         /\ Written(w)' = Written(w)
<1>1. EndsOfWrites(w) \subseteq EndsOfWrites(w)' /\ EndsOfWrites(w)' \subseteq EndsOfWrites(w) \cup {new}
  BY DEF EndsOfWrites
<1>2. EndOfWrite(w) \in EndsOfWrites(w) /\ \A d \in EndsOfWrites(w) : EndOfWrite(w).n <= d.n
  BY EndIs
<1>3. \A d \in unread[w] : d \in Range(produced) /\ d.n \in Nat /\ d.n < Len(produced) + 1
  <2>1. unread[w] \subseteq Range(produced)
    BY DEF FromCommand
  <2>. QED
    BY <2>1, ProducedIs
<1>4. EndsOfWrites(w) \subseteq unread[w] /\ Len(produced) \in Nat
  BY ProducedIs DEF EndsOfWrites
<1>5. \A d \in EndsOfWrites(w)' : EndOfWrite(w).n <= d.n
  BY <1>1, <1>2, <1>3, <1>4
<1>6. \E c \in EndsOfWrites(w)' : \A d \in EndsOfWrites(w)' : c.n <= d.n
  BY <1>1, <1>2, <1>5
<1>7. EndOfWrite(w)' \in EndsOfWrites(w)' /\ \A d \in EndsOfWrites(w)' : EndOfWrite(w)'.n <= d.n
  BY <1>6 DEF EndOfWrite
<1>8. EndOfWrite(w)' = EndOfWrite(w)
  <2>1. EndOfWrite(w)'.n <= EndOfWrite(w).n
    BY <1>1, <1>2, <1>7
  <2>2. EndOfWrite(w)' # new
    BY <1>2, <1>3, <1>4, <2>1
  <2>3. EndOfWrite(w)' \in EndsOfWrites(w)
    BY <1>1, <1>7, <2>2
  <2>4. EndOfWrite(w).n <= EndOfWrite(w)'.n
    BY <1>2, <2>3
  <2>5. EndOfWrite(w)'.n = EndOfWrite(w).n
    BY <1>2, <1>3, <1>4, <2>1, <2>3, <2>4
  <2>. QED
    BY <1>2, <1>3, <1>4, <2>3, <2>5, ProducedIs
<1>9. ~(new.n <= EndOfWrite(w).n)
  BY <1>2, <1>3, <1>4
<1>10. Written(w) = {c \in unread[w] : c.stream = EndOfWrite(w).stream /\ c.n <= EndOfWrite(w).n}
  BY DEF Written, Of
<1>11. Written(w)' = {c \in unread'[w] : c.stream = EndOfWrite(w)'.stream /\ c.n <= EndOfWrite(w)'.n}
  BY DEF Written, Of
<1>12. Written(w)' = Written(w)
  <2>. QED
    BY <1>8, <1>9, <1>10, <1>11
<1>. QED
  BY <1>1, <1>2, <1>8, <1>12

\* A command writes a chunk: it comes after all others, and completes lines of its
\* own command only.
LEMMA DataGrows ==
  ASSUME OutputTyped, Data, Writes, Produce
  PROVE  Data'
<1>. USE DEF Data
<1>1. PICK stream \in Streams, end \in Ends :
        LET c == [n |-> Len(produced) + 1, command |-> command, stream |-> stream,
                  end |-> end] IN
        /\ produced' = Append(produced, c)
        /\ unread' = [unread EXCEPT ![WriterOf(stream)] =
                        IF writer[WriterOf(stream)] \in {"gone", "broken"} THEN @ ELSE @ \cup {c}]
  BY DEF Produce
<1>new. PICK new : new = [n |-> Len(produced) + 1, command |-> command, stream |-> stream,
                        end |-> end]
  OBVIOUS
<1>w. PICK w \in Writers : w = WriterOf(stream)
  BY DEF WriterOf, Writers
<1>2. /\ UNCHANGED <<mode, command, process, writer, lost, held, sink>> /\ process = "running"
  BY DEF Produce, flow
<1>3. /\ produced \in Seq(Chunks) /\ Len(produced) \in Nat /\ DOMAIN produced = 1..Len(produced)
      /\ new \in Chunks /\ new.n = Len(produced) + 1 /\ new.command = command
      /\ new.stream = stream /\ new.end = end /\ command \in Nat
  BY <1>new DEF OutputTyped, Chunks
<1>4. /\ produced' = Append(produced, new) /\ Len(produced') = Len(produced) + 1
      /\ \A i \in 1..Len(produced) : produced'[i] = produced[i]
      /\ produced'[Len(produced) + 1] = new /\ DOMAIN produced' = 1..(Len(produced) + 1)
  <2>1. produced' = Append(produced, new)
    BY <1>1, <1>new
  <2>. QED
    BY <1>3, <2>1, AppendProperties
<1>5. Range(produced)' = Range(produced) \cup {new}
  BY <1>3, <1>4 DEF Range
<1>6. unread[w] \subseteq Range(produced)
  BY DEF FromCommand
<1>7. /\ unread'[w] = (IF writer[w] \in {"gone", "broken"} THEN unread[w] ELSE unread[w] \cup {new})
      /\ \A v \in Writers \ {w} : unread'[v] = unread[v]
  <2>1. unread' = [unread EXCEPT ![w] = IF writer[w] \in {"gone", "broken"} THEN @ ELSE @ \cup {new}]
    BY <1>1, <1>new, <1>w
  <2>. QED
    BY <2>1 DEF OutputTyped
<1>8. \A s : WriterOf(s)' = WriterOf(s)
  BY <1>2 DEF WriterOf
<1>9. w = WriterOf(stream) /\ w = WriterOf(new.stream)
  BY <1>3, <1>w
<1>10. \A p \in Pipes : Arrived(p)' = Arrived(p)
  BY <1>2 DEF Arrived
<1>11. \A c \in Range(produced) : c.n \in 1..Len(produced) /\ c.n < new.n /\ c # new
  <2>. SUFFICES ASSUME NEW c \in Range(produced)
                PROVE  c.n \in 1..Len(produced) /\ c.n < new.n /\ c # new
    OBVIOUS
  <2>1. c.n \in 1..Len(produced)
    BY ProducedIs
  <2>. QED
    BY <1>3, <2>1
\* What could reach the pipes still can; what newly can is of this command.
<1>12. ASSUME NEW c \in Range(produced), Passed(c) PROVE Passed(c)'
  <2>1. ASSUME NEW i \in c.n..Len(produced), produced[i].command = c.command,
               produced[i].stream = c.stream, produced[i].end # "text"
        PROVE  \E j \in c.n..Len(produced') :
                 /\ produced'[j].command = c.command /\ produced'[j].stream = c.stream
                 /\ produced'[j].end # "text"
    <3>1. i \in 1..Len(produced) /\ i \in c.n..Len(produced')
      BY <1>3, <1>4, <1>11
    <3>2. produced'[i] = produced[i]
      BY <1>4, <3>1
    <3>. QED
      BY <2>1, <3>1, <3>2
  <2>. QED
    BY <1>2, <1>12, <2>1 DEF Passed
<1>13. ASSUME NEW c \in Range(produced), Passed(c)', ~Passed(c)
       PROVE  c.command = command
  <2>1. mode = "exec"
    BY <1>13 DEF Passed
  <2>2. PICK j \in c.n..Len(produced') :
           /\ produced'[j].command = c.command /\ produced'[j].stream = c.stream
           /\ produced'[j].end # "text"
    BY <1>2, <1>13, <2>1 DEF Passed
  <2>3. j = Len(produced) + 1
    <3>1. ASSUME j \in c.n..Len(produced) PROVE FALSE
      <4>1. j \in 1..Len(produced)
        BY <1>11, <3>1
      <4>. QED
        BY <1>4, <1>13, <2>2, <3>1, <4>1 DEF Passed
    <3>. QED
      BY <1>3, <1>4, <1>11, <3>1
  <2>. QED
    BY <1>3, <1>4, <2>2, <2>3
<1>14. Numbered'
  <2>1. ASSUME NEW i \in 1..(Len(produced) + 1)
        PROVE  produced'[i].n = i /\ produced'[i].command <= command
    <3>1. CASE i \in 1..Len(produced)
      BY <1>4, <3>1 DEF Numbered
    <3>2. CASE i = Len(produced) + 1
      BY <1>3, <1>4, <3>2
    <3>. QED
      BY <1>3, <3>1, <3>2
  <2>2. ASSUME NEW i \in 1..(Len(produced) + 1), NEW j \in 1..(Len(produced) + 1), i < j
        PROVE  produced'[i].command <= produced'[j].command
    <3>1. CASE j \in 1..Len(produced)
      <4>1. i \in 1..Len(produced)
        BY <1>3, <2>2, <3>1
      <4>. QED
        BY <1>4, <2>2, <3>1, <4>1 DEF Numbered
    <3>2. CASE j = Len(produced) + 1
      BY <1>3, <1>4, <2>1, <3>2
    <3>. QED
      BY <1>3, <3>1, <3>2
  <2>. QED
    BY <1>2, <1>4, <2>1, <2>2 DEF Numbered
<1>15. FromCommand'
  <2>1. ASSUME NEW v \in Writers, NEW c \in unread'[v]
        PROVE  c \in Range(produced)' /\ WriterOf(c.stream)' = v /\ c.command = command'
    <3>1. CASE c \in unread[v]
      BY <1>2, <1>5, <1>8, <3>1 DEF FromCommand
    <3>2. CASE v = w /\ c = new
      BY <1>2, <1>3, <1>5, <1>8, <1>9, <3>2
    <3>. QED
      BY <1>7, <2>1, <3>1, <3>2
  <2>2. ASSUME NEW p \in Pipes, NEW c \in Range(Arrived(p))'
        PROVE  c \in Range(produced)' /\ (p \in Streams => c.stream = p)
    BY <1>5, <1>10 DEF FromCommand
  <2>. QED
    BY <2>1, <2>2 DEF FromCommand
\* The write that is under way is still the next one.
<1>16. ASSUME writer[w] = "capture" PROVE Written(w)' = Written(w)
  BY <1>2, <1>3, <1>7, <1>16, NextWriteStays DEF Writes
<1>17. \A v \in Writers \ {w} : \A p : ToWrite(v, p)' = ToWrite(v, p)
  BY <1>2, <1>7, SameToWrite
<1>18. ASSUME NEW p
       PROVE  /\ ToWrite(w, p) \subseteq ToWrite(w, p)'
              /\ ToWrite(w, p)' \subseteq ToWrite(w, p) \cup {new}
              /\ writer[w] \notin {"gone", "broken"} => new \in ToWrite(w, p)'
  <2>1. writer[w] = "capture" => new \notin Written(w)
    <3>1. writer[w] = "capture" => Written(w) \subseteq unread[w]
      BY DEF Written, Of
    <3>. QED
      BY <1>6, <1>11, <3>1
  <2>2. CASE writer[w] = "capture"
    <3>1. Written(w)' = Written(w) /\ new \notin Written(w) /\ writer'[w] = "capture"
          /\ unread'[w] = unread[w] \cup {new}
      BY <1>2, <1>7, <1>16, <2>1, <2>2
    <3>2. ToLog(w)' = unread'[w] \ Written(w)' /\ ToLog(w) = unread[w] \ Written(w)
      BY <2>2, <3>1 DEF ToLog
    <3>3. new \in ToLog(w)' /\ ToLog(w) \subseteq ToLog(w)' /\ ToLog(w)' \subseteq ToLog(w) \cup {new}
      BY <3>1, <3>2
    <3>. QED
      BY <3>1, <3>3 DEF ToWrite
  <2>3. CASE writer[w] # "capture"
    <3>1. /\ ToLog(w) = IF writer[w] = "broken" THEN {} ELSE unread[w]
          /\ ToLog(w)' = IF writer[w] = "broken" THEN {} ELSE unread'[w]
      BY <1>2, <2>3 DEF ToLog
    <3>. QED
      BY <1>7, <3>1 DEF ToWrite
  <2>. QED
    BY <2>2, <2>3
<1>19. ASSUME NEW v \in Writers, NEW p, NEW c \in ToWrite(v, p)' PROVE c \in ToWrite(v, p) \/ c = new
  BY <1>17, <1>18, <1>19
<1>20. InTurn'
  <2>1. ASSUME NEW p \in Pipes PROVE Ordered(Arrived(p))'
    BY <1>10 DEF InTurn, Ordered
  <2>2. ASSUME NEW p \in Pipes, NEW v \in Writers, NEW c \in ToWrite(v, p)',
               NEW d \in Range(Arrived(p))', c.stream = d.stream
        PROVE  d.n < c.n
    <3>1. d \in Range(Arrived(p)) /\ d \in Range(produced)
      BY <1>10, <2>2 DEF FromCommand
    <3>2. c \in ToWrite(v, p) \/ c = new
      BY <1>19
    <3>. QED
      BY <1>11, <2>2, <3>1, <3>2 DEF InTurn
  <2>. QED
    BY <2>1, <2>2 DEF InTurn
<1>21. NothingMissing'
  <2>. SUFFICES ASSUME ~lost', NEW p \in Pipes, NEW c \in Texts(Range(produced))', Reaches(p, c.stream)
                PROVE  \/ c \in Range(Arrived(p))'
                       \/ \E v \in Writers : c \in ToWrite(v, p)'
                       \/ Stranded(c)'
    BY Zenon DEF NothingMissing, Reaches
  <2>1. CASE c = new
    <3>1. CASE writer[w] = "broken"
      <4>1. writer'[WriterOf(c.stream)'] = "broken"
        BY <1>2, <1>8, <1>9, <2>1, <3>1
      <4>. QED
        BY <4>1 DEF Stranded
    <3>2. CASE writer[w] # "broken"
      <4>1. writer[w] # "gone"
        BY <1>2, <1>6 DEF Writes
      <4>. QED
        BY <1>6, <1>18, <2>1, <3>2, <4>1
    <3>. QED
      BY <3>1, <3>2
  <2>2. CASE c \in Range(produced)
    <3>1. \/ c \in Range(Arrived(p))
          \/ \E v \in Writers : c \in ToWrite(v, p)
          \/ Stranded(c)
      BY <1>2, <2>2 DEF NothingMissing, Texts
    <3>2. ASSUME NEW v \in Writers, c \in ToWrite(v, p) PROVE c \in ToWrite(v, p)'
      BY <1>17, <1>18, <3>2
    <3>3. ASSUME Stranded(c) PROVE Stranded(c)'
      <4>1. CASE writer[WriterOf(c.stream)] = "broken"
        BY <1>2, <1>8, <4>1 DEF Stranded
      <4>2. CASE ~Passed(c) /\ (c.command # command \/ process # "running")
        <5>1. c.command # command
          BY <1>2, <4>2
        <5>2. ~Passed(c)'
          BY <1>13, <2>2, <4>2, <5>1
        <5>. QED
          BY <1>2, <5>1, <5>2 DEF Stranded
      <4>. QED
        BY <3>3, <4>1, <4>2 DEF Stranded
    <3>. QED
      BY <1>10, <3>1, <3>2, <3>3
  <2>. QED
    BY <1>5, <2>1, <2>2 DEF Texts
<1>22. NoGaps'
  <2>. SUFFICES ASSUME ~lost', NEW p \in Pipes, NEW d \in Range(Arrived(p))'
                PROVE  /\ Passed(d)'
                       /\ \A c \in Texts(Range(produced))' :
                            c.stream = d.stream /\ c.n < d.n /\ Passed(c)' => c \in Range(Arrived(p))'
    BY Zenon DEF NoGaps
  <2>1. /\ d \in Range(Arrived(p)) /\ d \in Range(produced) /\ Passed(d)
        /\ \A c \in Texts(Range(produced)) :
              c.stream = d.stream /\ c.n < d.n /\ Passed(c) => c \in Range(Arrived(p))
    BY <1>2, <1>10 DEF FromCommand, NoGaps
  <2>2. ASSUME NEW c \in Texts(Range(produced))', c.stream = d.stream, c.n < d.n, Passed(c)'
        PROVE  c \in Range(Arrived(p))'
    <3>1. c # new
      BY <1>3, <1>11, <2>1, <2>2
    <3>2. c \in Range(produced) /\ c \in Texts(Range(produced))
      BY <1>5, <2>2, <3>1 DEF Texts
    <3>3. ASSUME ~Passed(c) PROVE FALSE
      <4>1. c.command = command
        BY <1>13, <2>2, <3>2, <3>3
      <4>2. /\ c.n \in 1..Len(produced) /\ d.n \in 1..Len(produced)
            /\ produced[c.n] = c /\ produced[d.n] = d
            /\ d.command <= command /\ d.command \in Nat
        BY <2>1, <3>2, ProducedIs DEF Chunks
      <4>3. c.command <= d.command
        BY <2>2, <4>2 DEF Numbered
      <4>4. d.command = c.command
        BY <1>3, <4>1, <4>2, <4>3
      <4>5. mode = "exec"
        BY <3>3 DEF Passed
      <4>6. PICK i \in d.n..Len(produced) :
              /\ produced[i].command = d.command /\ produced[i].stream = d.stream
              /\ produced[i].end # "text"
        BY <2>1, <4>5 DEF Passed
      <4>7. i \in c.n..Len(produced)
        BY <2>2, <4>2
      <4>. QED
        BY <2>2, <3>3, <4>4, <4>6, <4>7 DEF Passed
    <3>. QED
      BY <1>10, <2>1, <2>2, <3>2, <3>3
  <2>3. Passed(d)'
    BY <1>12, <2>1
  <2>. QED
    BY <2>2, <2>3
<1>23. Queued'
  <2>. SUFFICES ASSUME NEW v \in Writers, writer'[v] # "broken", NEW c \in unread'[v],
                       NEW d \in Range(produced)', c.stream = d.stream, c.n < d.n
                PROVE  d \in unread'[v]
    BY Zenon DEF Queued
  <2>1. CASE d = new
    <3>1. WriterOf(c.stream)' = v
      BY <1>15 DEF FromCommand
    <3>2. v = w
      BY <1>8, <1>9, <2>1, <3>1
    <3>3. writer[w] \notin {"gone", "broken"}
      BY <1>2, <1>7, <3>2 DEF Writes
    <3>. QED
      BY <1>7, <2>1, <3>2, <3>3
  <2>2. CASE d \in Range(produced)
    <3>1. c # new
      BY <1>3, <1>11, <2>2
    <3>2. c \in unread[v]
      BY <1>7, <3>1
    <3>3. d \in unread[v]
      BY <1>2, <2>2, <3>2 DEF Queued
    <3>. QED
      BY <1>7, <3>3
  <2>. QED
    BY <1>5, <2>1, <2>2
<1>. QED
  BY <1>14, <1>15, <1>20, <1>21, <1>22, <1>23

\* A command starts when nothing is under way.
LEMMA DataStarts ==
  ASSUME OutputTyped, Data, Writes, Fun, StartCommand
  PROVE  Data'
<1>. USE DEF Data
<1>1. /\ main = "idle" /\ mode # "default" /\ command' = command + 1 /\ command \in Nat
      /\ UNCHANGED <<mode, produced, unread, sink, lost>>
      /\ writer' = [w \in Writers |-> IF w \in WritersOf(mode) THEN "log" ELSE "none"]
  BY DEF StartCommand, StartProcess, Scripts, OutputTyped
<1>2. \A w \in Writers : writer[w] \in {"none", "gone"} /\ unread[w] = {} /\ writer'[w] \in {"log", "none"}
  BY <1>1 DEF Fun, Quiet, Writes
<1>3. /\ \A c : Passed(c)' = Passed(c)
      /\ \A s : WriterOf(s)' = WriterOf(s)
  BY <1>1, SameChunks
<1>4. \A p \in Pipes : Arrived(p)' = Arrived(p)
  <2>1. \A p \in Pipes : held'[p] = held[p]
    <3>1. CASE mode = "host"
      BY <1>1, <3>1 DEF StartCommand, Fresh, Fun
    <3>2. CASE mode # "host"
      BY <3>2 DEF StartCommand
    <3>. QED
      BY <3>1, <3>2
  <2>. QED
    BY <1>1, <2>1 DEF Arrived
<1>5. \A w \in Writers : \A p : ToWrite(w, p) = {} /\ ToWrite(w, p)' = {}
  <2>1. \A w \in Writers : ToLog(w) = {} /\ ToLog(w)' = {}
    BY <1>1, <1>2 DEF ToLog
  <2>. QED
    BY <1>1, <1>2, <2>1 DEF ToWrite
<1>6. \A c \in Range(produced) : c.command <= command /\ c.command \in Nat
                                 /\ WriterOf(c.stream) \in Writers
  BY ProducedIs DEF Chunks, WriterOf, Writers
<1>7. Numbered'
  <2>1. \A i \in 1..Len(produced) : produced[i] \in Range(produced)
    BY ProducedIs
  <2>2. \A i \in 1..Len(produced) : produced[i].command <= command'
    BY <1>1, <1>6, <2>1
  <2>. QED
    BY <1>1, <2>2 DEF Numbered
<1>8. FromCommand'
  BY <1>1, <1>2, <1>4 DEF FromCommand
<1>9. InTurn'
  BY <1>4, <1>5 DEF InTurn, Ordered
<1>10. NothingMissing'
  <2>. SUFFICES ASSUME ~lost', NEW p \in Pipes, NEW c \in Texts(Range(produced))', Reaches(p, c.stream)
                PROVE  \/ c \in Range(Arrived(p))'
                       \/ \E v \in Writers : c \in ToWrite(v, p)'
                       \/ Stranded(c)'
    BY Zenon DEF NothingMissing, Reaches
  <2>1. (c \in Range(Arrived(p)) \/ Stranded(c)) /\ c \in Range(produced)
    BY <1>1, <1>5 DEF NothingMissing, Texts
  <2>2. ASSUME Stranded(c) PROVE Stranded(c)'
    <3>1. ~Passed(c)
      BY <1>1, <1>2, <1>6, <2>1, <2>2 DEF Stranded
    <3>2. c.command # command'
      BY <1>1, <1>6, <2>1
    <3>. QED
      BY <1>3, <3>1, <3>2 DEF Stranded
  <2>. QED
    BY <1>4, <2>1, <2>2
<1>11. NoGaps'
  BY <1>1, <1>3, <1>4 DEF NoGaps
<1>12. Queued'
  BY <1>1, <1>2 DEF Queued
<1>. QED
  BY <1>7, <1>8, <1>9, <1>10, <1>11, <1>12

\* Before the container has been prepared there is nothing.
LEMMA DataPrepared ==
  ASSUME OutputTyped, Data, Fun, PrepareContainer
  PROVE  Data'
<1>. USE DEF Data
<1>1. /\ produced = <<>> /\ UNCHANGED <<mode, command, produced, unread, sink, held, lost>>
  BY DEF PrepareContainer, Fun
<1>2. Range(produced) = {}
  BY <1>1 DEF Range
<1>3. \A p \in Pipes : Arrived(p)' = Arrived(p)
  BY <1>1 DEF Arrived
<1>4. \A w \in Writers : unread[w] = {}
  BY <1>2 DEF FromCommand
<1>5. \A p \in Pipes : Range(Arrived(p)) = {}
  BY <1>2 DEF FromCommand
<1>6. \A w \in Writers : \A p : ToWrite(w, p)' = {}
  <2>1. \A w \in Writers : ToLog(w)' = {}
    BY <1>1, <1>4 DEF ToLog
  <2>. QED
    BY <1>1, <1>4, <2>1 DEF ToWrite
<1>7. Numbered' /\ FromCommand'
  <2>1. Numbered'
    BY <1>1 DEF Numbered
  <2>2. FromCommand'
    BY <1>1, <1>3, <1>4, <1>5 DEF FromCommand
  <2>. QED
    BY <2>1, <2>2
<1>8. InTurn'
  BY <1>3, <1>6 DEF InTurn, Ordered
<1>9. NothingMissing'
  BY <1>1, <1>2 DEF NothingMissing, Texts
<1>10. NoGaps'
  BY <1>3, <1>5 DEF NoGaps
<1>11. Queued'
  BY <1>1, <1>4 DEF Queued
<1>. QED
  BY <1>7, <1>8, <1>9, <1>10, <1>11

\* EndOfOutput: what the command has left unread can never be passed on.
LEMMA DataEnds ==
  ASSUME OutputTyped, Data, NEW w \in Writers, EndOfOutput(w)
  PROVE  Data'
<1>1. /\ writer[w] = "log" /\ EndsOfWrites(w) = {} /\ process # "running"
      /\ writer' = [writer EXCEPT ![w] = "gone"] /\ unread' = [unread EXCEPT ![w] = {}]
      /\ UNCHANGED <<mode, command, produced, process, lost, held, sink>>
  BY DEF EndOfOutput, Writing, flow
<1>2. \A p \in Pipes : Arrived(p)' = Arrived(p)
  BY <1>1 DEF Arrived
<1>3. ASSUME NEW c \in unread[w] PROVE ~Passed(c)
  <2>1. mode = "exec" /\ c.end = "text"
    BY <1>1 DEF EndsOfWrites
  <2>2. c \in Range(produced) /\ WriterOf(c.stream) = w /\ c.command = command
    BY DEF Data, FromCommand
  <2>. SUFFICES ASSUME NEW i \in c.n..Len(produced), produced[i].command = c.command,
                       produced[i].stream = c.stream, produced[i].end # "text"
                PROVE  FALSE
    BY <2>1 DEF Passed
  <2>3. c.n \in 1..Len(produced) /\ i \in 1..Len(produced) /\ produced[i] \in Range(produced)
    BY <2>2, ProducedIs DEF Data
  <2>4. PICK d \in Range(produced) : d = produced[i]
    BY <2>3
  <2>5. d.n = i /\ d.stream = c.stream /\ d.end # "text" /\ d # c
    BY <2>1, <2>3, <2>4 DEF Data, Numbered
  <2>6. c.n < d.n
    BY <2>2, <2>3, <2>5, ProducedIs DEF Data
  <2>7. d \in unread[w]
    BY <1>1, <2>5, <2>6 DEF Data, Queued
  <2>. QED
    BY <1>1, <2>5, <2>7 DEF EndsOfWrites
<1>4. \A c \in unread[w] : lost \/ ~Passed(c)
  BY <1>3
<1>. QED
  BY <1>1, <1>2, <1>4, DataStops

LEMMA Regrouped ==
  \A a, b, c \in Seq(Chunks) : (a \o b) \o c = a \o (b \o c)
  OBVIOUS

\* A chunk changes hands.
LEMMA DataHanded ==
  ASSUME OutputTyped, Data, NEW w \in Writers, HandOver(w)
  PROVE  Data'
<1>0. Numbered /\ FromCommand
  BY DEF Data
<1>1. PICK p \in Pipes : p = PipeOf(w)
  <2>1. EndsOfWrites(w) # {}
    BY DEF HandOver, Writing
  <2>. QED
    BY <1>0, <2>1, WrittenIs DEF PipeOf, Pipes
<1>2. /\ writer[w] \in {"log", "capture"} /\ EndsOfWrites(w) # {}
      /\ UNCHANGED <<mode, command, produced, process, lost, sink>>
      /\ held' = IF Skipped(p, w) THEN held ELSE [held EXCEPT ![p] = @ \o InOrder(Written(w))]
      /\ IF writer[w] = "log"
           THEN writer' = [writer EXCEPT ![w] = "capture"] /\ UNCHANGED unread
           ELSE /\ writer' = [writer EXCEPT ![w] = "log"]
                /\ unread' = [unread EXCEPT ![w] = @ \ Written(w)]
  BY <1>1 DEF HandOver, Writing, flow
<1>3. /\ Written(w) \subseteq unread[w] /\ InOrder(Written(w)) \in Seq(Chunks)
      /\ EndOfWrite(w).stream \in Streams
      /\ \A c \in Written(w) : \A d \in unread[w] \ Written(w) : c.stream = d.stream => c.n < d.n
  BY <1>0, <1>2, WrittenIs
<1>4. ASSUME ~Skipped(p, w) PROVE Arrived(p)' = Arrived(p) \o InOrder(Written(w))
  <2>1. Arrived(p)' = sink[p] \o (held[p] \o InOrder(Written(w)))
    BY <1>2, <1>4 DEF Arrived, OutputTyped
  <2>2. sink[p] \in Seq(Chunks) /\ held[p] \in Seq(Chunks)
    BY DEF OutputTyped
  <2>3. Arrived(p) = sink[p] \o held[p]
    BY DEF Arrived
  <2>4. (sink[p] \o held[p]) \o InOrder(Written(w)) = sink[p] \o (held[p] \o InOrder(Written(w)))
    BY <1>3, <2>2, Regrouped
  <2>. QED
    BY <2>1, <2>3, <2>4
<1>5. \A q \in Pipes \ {p} : Arrived(q)' = Arrived(q)
  BY <1>2 DEF Arrived, OutputTyped
<1>6. \A v \in Writers \ {w} : writer'[v] = writer[v] /\ unread'[v] = unread[v]
  BY <1>2 DEF OutputTyped
\* What the writer has yet to write: less by what it has written.
<1>. DEFINE Less ==
              /\ p \in {EndOfWrite(w).stream, "capture"} /\ writer[w] \notin {"broken"}
              /\ writer'[w] \in {"log", "capture"}
              /\ unread'[w] \in {unread[w], unread[w] \ Written(w)}
              /\ Written(w) \subseteq ToWrite(w, p)
              /\ ToWrite(w, p)' = ToWrite(w, p) \ Written(w)
              /\ \A q \in Pipes \ {p} : \/ ToWrite(w, q)' = ToWrite(w, q)
                                        \/ q # "capture" /\ q # EndOfWrite(w).stream
                                           /\ ToWrite(w, q)' = ToWrite(w, q) \ Written(w)
<1>7. ASSUME writer[w] = "log" PROVE Less
  <2>1. /\ writer'[w] = "capture" /\ unread'[w] = unread[w] /\ p = EndOfWrite(w).stream
        /\ p \in Streams
    BY <1>1, <1>2, <1>3, <1>7 DEF OutputTyped, PipeOf
  <2>2. Written(w)' = Written(w)
    BY <1>2, <2>1, SameWrite
  <2>3. ToLog(w) = unread[w] /\ ToLog(w)' = unread[w] \ Written(w)
    BY <1>7, <2>1, <2>2 DEF ToLog
  <2>4. \A q \in Streams : ToWrite(w, q) = ToLog(w) /\ ToWrite(w, q)' = ToLog(w)'
    BY DEF ToWrite, Streams
  <2>5. ToWrite(w, "capture")' = ToWrite(w, "capture")
    BY <2>1 DEF ToWrite
  <2>6. \A q \in Pipes \ {p} : \/ ToWrite(w, q)' = ToWrite(w, q)
                               \/ q # "capture" /\ q # EndOfWrite(w).stream
                                   /\ ToWrite(w, q)' = ToWrite(w, q) \ Written(w)
    BY <2>1, <2>3, <2>4, <2>5 DEF Pipes
  <2>7. Written(w) \subseteq ToWrite(w, p) /\ ToWrite(w, p)' = ToWrite(w, p) \ Written(w)
    BY <1>3, <2>1, <2>3, <2>4
  <2>8. /\ p \in {EndOfWrite(w).stream, "capture"} /\ writer[w] \notin {"broken"}
        /\ writer'[w] \in {"log", "capture"}
        /\ unread'[w] \in {unread[w], unread[w] \ Written(w)}
    BY <1>7, <2>1
  <2>. QED
    BY <2>6, <2>7, <2>8
<1>8. ASSUME writer[w] = "capture" PROVE Less
  <2>1. writer'[w] = "log" /\ unread'[w] = unread[w] \ Written(w) /\ p = "capture"
    BY <1>1, <1>2, <1>8 DEF OutputTyped, PipeOf
  <2>2. ToLog(w)' = unread[w] \ Written(w) /\ ToLog(w) = unread[w] \ Written(w)
    BY <1>8, <2>1 DEF ToLog
  <2>3. \A q \in Pipes \ {p} : ToWrite(w, q)' = ToWrite(w, q)
    BY <2>1, <2>2 DEF ToWrite
  <2>4. ToWrite(w, p) = unread[w] /\ ToWrite(w, p)' = unread[w] \ Written(w)
    BY <2>1 DEF ToWrite
  <2>7. Written(w) \subseteq ToWrite(w, p) /\ ToWrite(w, p)' = ToWrite(w, p) \ Written(w)
    BY <1>3, <2>4
  <2>8. /\ p \in {EndOfWrite(w).stream, "capture"} /\ writer[w] \notin {"broken"}
        /\ writer'[w] \in {"log", "capture"}
        /\ unread'[w] \in {unread[w], unread[w] \ Written(w)}
    BY <1>8, <2>1
  <2>. QED
    BY <2>3, <2>7, <2>8
<1>9. Less
  BY <1>2, <1>7, <1>8
<1>10. CASE Skipped(p, w)
  <2>1. Written(w) = {EndOfWrite(w)} /\ EndOfWrite(w).end = "newline" /\ held' = held
    BY <1>2, <1>10 DEF Skipped
  <2>2. \A q \in Pipes : Arrived(q)' = Arrived(q)
    BY <1>2, <2>1 DEF Arrived
  <2>3. \A q \in Pipes : Range(Arrived(q))' = Range(Arrived(q)) /\ Ordered(Arrived(q))'
    BY <2>2 DEF Data, InTurn, Ordered
  <2>4. \A v \in Writers \ {w} : \A q : ToWrite(v, q)' = ToWrite(v, q)
    BY <1>2, <1>6, SameToWrite
  <2>5. ASSUME NEW c \in unread'[w], NEW d \in unread[w], c.stream = d.stream, c.n < d.n
        PROVE  d \in unread'[w]
    <3>1. c \in unread[w] /\ c \in Range(produced) /\ d \in Range(produced)
      BY <1>0, <1>9, <2>5 DEF FromCommand
    <3>2. c.n \in Nat /\ d.n \in Nat
      BY <1>0, <3>1, ProducedIs
    <3>3. c \notin Written(w) => d \notin Written(w)
      BY <1>3, <2>5, <3>1, <3>2
    <3>. QED
      BY <1>9, <2>5, <3>3
  <2>6. \A q \in Pipes : ToWrite(w, q)' \in {ToWrite(w, q), ToWrite(w, q) \ Written(w)}
    BY <1>9
  <2>7. /\ unread'[w] \subseteq unread[w] /\ writer[w] # "broken" /\ writer'[w] # "broken"
        /\ \A q \in Pipes : /\ ToWrite(w, q)' \subseteq ToWrite(w, q)
                            /\ \A c \in ToWrite(w, q) : c.end # "newline" => c \in ToWrite(w, q)'
    BY <1>9, <2>1, <2>6
  <2>. HIDE DEF Less
  <2>8. \A v \in Writers :
          /\ unread'[v] \subseteq unread[v]
          /\ writer[v] = "broken" <=> writer'[v] = "broken"
          /\ \A c \in unread'[v] : \A d \in unread[v] :
               c.stream = d.stream /\ c.n < d.n => d \in unread'[v]
          /\ \A q \in Pipes : ToWrite(v, q)' \subseteq ToWrite(v, q)
          /\ \A q \in Pipes : \A c \in ToWrite(v, q) :
               c.end # "newline" => c \in ToWrite(v, q)'
    BY <1>6, <2>4, <2>5, <2>7
  <2>. QED
    BY <1>2, <2>3, <2>8, DataThins
<1>11. CASE ~Skipped(p, w)
  BY <1>2, <1>4, <1>5, <1>6, <1>9, <1>11, DataMoves
<1>. QED
  BY <1>10, <1>11

\* What is taken of a line: its end stays behind if it is a newline for the buffer.
LEMMA TakenIs ==
  ASSUME OutputTyped, NEW p \in Pipes, held[p] # <<>>
  PROVE  /\ Taken(p) \in Seq(Chunks) /\ Len(held[p]) \in Nat /\ Len(Taken(p)) \in Nat
         /\ Len(Taken(p)) <= Len(held[p])
         /\ \A i \in 1..Len(Taken(p)) : Taken(p)[i] = held[p][i]
         /\ \A i \in 1..Len(held[p]) : i <= Len(Taken(p)) \/ held[p][i].end = "newline"
         /\ p = "capture" /\ held[p][Len(held[p])].end = "newline" => Len(Taken(p)) = Len(held[p]) - 1
<1>. DEFINE h == held[p]
            n == Len(held[p])
<1>1. h \in Seq(Chunks) /\ n \in Nat /\ n > 0 /\ DOMAIN h = 1..n /\ Len(h) = n
  BY EmptySeq DEF OutputTyped
<1>2. Taken(p) = IF p = "capture" /\ h[n].end = "newline" THEN SubSeq(h, 1, n - 1) ELSE h
  BY DEF Taken, EndsWithNewline, Last, Front
<1>. HIDE DEF h, n
<1>3. /\ SubSeq(h, 1, n - 1) \in Seq(Chunks) /\ Len(SubSeq(h, 1, n - 1)) = n - 1
      /\ \A i \in 1..(n - 1) : SubSeq(h, 1, n - 1)[i] = h[i]
  <2>1. 1 \in 1..n /\ \A i \in 1..(n - 1) : i \in 1..n
    BY <1>1
  <2>. QED
    BY <1>1, <2>1, SubSeqProperties
<1>4. CASE p = "capture" /\ h[n].end = "newline"
  BY <1>1, <1>2, <1>3, <1>4 DEF h, n
<1>5. CASE ~(p = "capture" /\ h[n].end = "newline")
  BY <1>1, <1>2, <1>5 DEF h, n
<1>. QED
  BY <1>4, <1>5

\* A line is taken.
LEMMA DataTaken ==
  ASSUME OutputTyped, Data, NEW p \in Pipes, Deliver(p)
  PROVE  Data'
<1>. DEFINE t == Taken(p)
            h == held[p]
            a == sink[p]
<1>1. /\ UNCHANGED <<mode, command, produced, process, unread, writer, lost>> /\ h # <<>>
      /\ sink' = [sink EXCEPT ![p] = @ \o t] /\ held' = [held EXCEPT ![p] = <<>>]
  BY DEF Deliver, flow, HasToken
<1>2. /\ t \in Seq(Chunks) /\ h \in Seq(Chunks) /\ a \in Seq(Chunks) /\ Len(t) <= Len(h)
      /\ Len(t) \in Nat /\ Len(h) \in Nat /\ Len(a) \in Nat
      /\ \A i \in 1..Len(t) : t[i] = h[i]
      /\ \A i \in 1..Len(h) : i <= Len(t) \/ h[i].end = "newline"
  <2>1. h \in Seq(Chunks) /\ a \in Seq(Chunks)
    BY DEF OutputTyped
  <2>2. Len(h) \in Nat /\ Len(a) \in Nat
    BY <2>1
  <2>3. /\ t \in Seq(Chunks) /\ Len(t) \in Nat /\ Len(t) <= Len(h)
        /\ \A i \in 1..Len(t) : t[i] = h[i]
        /\ \A i \in 1..Len(h) : i <= Len(t) \/ h[i].end = "newline"
    BY <1>1, TakenIs
  <2>. QED
    BY <2>1, <2>2, <2>3
<1>3. Arrived(p) = a \o h
  BY DEF Arrived
<1>. HIDE DEF t, h, a
<1>4. Arrived(p)' = a \o t
  <2>1. Arrived(p)' = (a \o t) \o <<>>
    BY <1>1 DEF Arrived, OutputTyped, a
  <2>2. a \o t \in Seq(Chunks)
    BY <1>2, ConcatProperties
  <2>. QED
    BY <2>1, <2>2, ConcatEmptySeq
<1>5. /\ DOMAIN (a \o t) = 1..(Len(a) + Len(t)) /\ DOMAIN (a \o h) = 1..(Len(a) + Len(h))
      /\ \A i \in 1..(Len(a) + Len(t)) : (a \o t)[i] = IF i <= Len(a) THEN a[i] ELSE t[i - Len(a)]
      /\ \A i \in 1..(Len(a) + Len(h)) : (a \o h)[i] = IF i <= Len(a) THEN a[i] ELSE h[i - Len(a)]
  BY <1>2, ConcatProperties
<1>6. \A i \in 1..(Len(a) + Len(t)) : i \in 1..(Len(a) + Len(h)) /\ (a \o t)[i] = (a \o h)[i]
  <2>. SUFFICES ASSUME NEW i \in 1..(Len(a) + Len(t))
                PROVE  i \in 1..(Len(a) + Len(h)) /\ (a \o t)[i] = (a \o h)[i]
    OBVIOUS
  <2>1. i \in 1..(Len(a) + Len(h))
    BY <1>2
  <2>2. i <= Len(a) \/ i - Len(a) \in 1..Len(t)
    BY <1>2
  <2>. QED
    BY <1>2, <1>5, <2>1, <2>2
<1>7. Ordered(a \o t) /\ Range(a \o t) \subseteq Range(a \o h)
  <2>1. Ordered(a \o h)
    BY <1>3 DEF Data, InTurn
  <2>2. Ordered(a \o t)
    BY <1>5, <1>6, <2>1 DEF Ordered
  <2>. QED
    BY <1>5, <1>6, <2>2 DEF Range
<1>8. ASSUME NEW c \in Range(a \o h), c.end # "newline" PROVE c \in Range(a \o t)
  <2>1. PICK i \in 1..(Len(a) + Len(h)) : c = (a \o h)[i]
    BY <1>5, <1>8 DEF Range
  <2>2. i \in 1..(Len(a) + Len(t))
    <3>1. CASE i <= Len(a)
      BY <1>2, <3>1
    <3>2. CASE ~(i <= Len(a))
      <4>1. i - Len(a) \in 1..Len(h) /\ c = h[i - Len(a)]
        BY <1>2, <1>5, <2>1, <3>2
      <4>2. i - Len(a) <= Len(t)
        BY <1>2, <1>8, <4>1
      <4>. QED
        BY <1>2, <4>2
    <3>. QED
      BY <3>1, <3>2
  <2>3. c = (a \o t)[i]
    BY <1>6, <2>1, <2>2
  <2>. QED
    BY <1>5, <2>2, <2>3 DEF Range
<1>9. \A q \in Pipes \ {p} : Arrived(q)' = Arrived(q)
  BY <1>1 DEF Arrived, OutputTyped
<1>10. \A q \in Pipes :
         /\ Range(Arrived(q))' \subseteq Range(Arrived(q)) /\ Ordered(Arrived(q))'
         /\ \A c \in Range(Arrived(q)) : c.end # "newline" => c \in Range(Arrived(q))'
  <2>1. ASSUME NEW q \in Pipes \ {p}
        PROVE  Range(Arrived(q))' = Range(Arrived(q)) /\ Ordered(Arrived(q))'
    BY <1>9 DEF Data, InTurn, Ordered
  <2>2. Range(Arrived(p))' = Range(a \o t) /\ Ordered(Arrived(p))' /\ Range(Arrived(p)) = Range(a \o h)
    BY <1>3, <1>4, <1>7 DEF Ordered
  <2>. QED
    BY <1>7, <1>8, <2>1, <2>2
<1>11. \A w \in Writers : \A q : ToWrite(w, q)' = ToWrite(w, q)
  BY <1>1, SameToWrite
<1>. QED
  BY <1>1, <1>10, <1>11, DataThins

\* What steps do to the data.
LEMMA DataNext ==
  ASSUME OutputTyped, Data, Writes, Fun, [OutputNext]_outputVars
  PROVE  Data'
<1>1. ASSUME UNCHANGED <<mode, command, produced, unread, writer, lost, held, sink>>,
             process' = process \/ process' # "running"
      PROVE  Data'
  <2>1. \A p \in Pipes : Arrived(p)' = Arrived(p)
    BY <1>1 DEF Arrived
  <2>. QED
    BY <1>1, <2>1, DataStays
<1>2. CASE Main
  <2>1. CASE PrepareContainer
    BY <2>1, DataPrepared
  <2>2. CASE StartCommand
    BY <2>2, DataStarts
  <2>3. CASE PrepareFails \/ BeforeHook \/ StartFails \/ CommandReturns
    BY <1>1, <2>3 DEF PrepareFails, BeforeHook, StartFails, CommandReturns, io
  <2>4. CASE ContainerExits \/ ShellReturns \/ AfterHook
    BY <1>1, <2>4 DEF ContainerExits, ShellReturns, AfterHook, io
  <2>5. CASE ClosePipes \/ WaitForReaders \/ Return
    BY <1>1, <2>5 DEF ClosePipes, WaitForReaders, Return, io
  <2>. QED
    BY <1>2, <2>1, <2>2, <2>3, <2>4, <2>5 DEF Main
<1>3. CASE CommandAbandoned \/ ProcessEnds
  BY <1>1, <1>3 DEF CommandAbandoned, ProcessEnds, io, flow
<1>4. CASE Produce
  BY <1>4, DataGrows
<1>5. ASSUME NEW w \in Writers, Copy(w) PROVE Data'
  <2>1. CASE EndOfOutput(w)
    BY <2>1, DataEnds
  <2>2. CASE WriteFails(w)
    <3>1. \A p \in Pipes : Arrived(p)' = Arrived(p)
      BY <2>2 DEF Arrived, WriteFails
    <3>2. /\ UNCHANGED <<mode, command, produced, process, lost>> /\ writer[w] # "broken"
          /\ writer' = [writer EXCEPT ![w] = "broken"] /\ unread' = [unread EXCEPT ![w] = {}]
      BY <2>2 DEF WriteFails, Writing, flow
    <3>. QED
      BY <3>1, <3>2, DataStops
  <2>3. CASE HandOver(w)
    BY <2>3, DataHanded
  <2>4. CASE TooLong(w)
    BY <1>1, <2>4 DEF TooLong, flow
  <2>. QED
    BY <1>5, <2>1, <2>2, <2>3, <2>4 DEF Copy
<1>6. ASSUME NEW w \in Writers, Drop(w) PROVE Data'
  <2>1. \A p \in Pipes : Arrived(p)' = Arrived(p)
    BY <1>6 DEF Arrived, Drop, ConnectionEnds, ConnectionBreaks
  <2>2. PICK x \in {"gone", "broken"} : writer' = [writer EXCEPT ![w] = x]
           /\ (lost' \/ (lost' = lost /\ x = "broken"))
    BY <1>6 DEF Drop, ConnectionEnds, ConnectionBreaks
  <2>3. UNCHANGED <<mode, command, produced, process>> /\ unread' = [unread EXCEPT ![w] = {}]
        /\ writer[w] # "broken"
    BY <1>6 DEF Drop, ConnectionEnds, ConnectionBreaks, flow
  <2>. QED
    BY <2>1, <2>2, <2>3, DataStops
<1>7. ASSUME NEW p \in Pipes, Read(p) PROVE Data'
  <2>1. CASE Deliver(p)
    BY <2>1, DataTaken
  <2>2. CASE EndOfInput(p)
    BY <1>1, <2>2 DEF EndOfInput, flow
  <2>. QED
    BY <1>7, <2>1, <2>2 DEF Read
<1>8. CASE UNCHANGED outputVars
  BY <1>1, <1>8 DEF outputVars, io, flow
<1>. QED
  BY <1>2, <1>3, <1>4, <1>5, <1>6, <1>7, <1>8 DEF OutputNext, Finished
-----------------------------------------------------------------------------
(* Where the function, the writers and the readers are.                    *)

\* Types.
LEMMA TypesNext ==
  ASSUME OutputInv, [OutputNext]_outputVars
  PROVE  OutputTyped'
<1>. USE DEF OutputInv
<1>1. CASE Main
  <2>1. CASE PrepareContainer \/ PrepareFails \/ BeforeHook \/ StartFails
    BY <2>1 DEF OutputTyped, PrepareContainer, PrepareFails, BeforeHook, StartFails, StartProcess,
                io, done
  <2>2. CASE StartCommand
    <3>1. /\ main' = "running" /\ command' = command + 1 /\ process' = "running"
          /\ before' \in {before, Len(sink["capture"])}
          /\ UNCHANGED <<mode, outcome, produced, unread, sink, lost, output, returned>>
      BY <2>2 DEF StartCommand, StartProcess, done
    <3>2. writer' \in [Writers -> {"none", "log", "capture", "gone", "broken"}]
      BY <2>2 DEF StartCommand, StartProcess
    <3>3. /\ pipe' \in [Pipes -> {"open", "closed"}]
          /\ reader' \in [Pipes -> {"reading", "ended", "failed"}]
          /\ held' \in [Pipes -> Seq(Chunks)]
      <4>1. <<>> \in Seq(Chunks)
        BY EmptySeq
      <4>2. CASE mode = "host"
        BY <2>2, <4>1, <4>2 DEF StartCommand, Fresh
      <4>3. CASE mode # "host"
        BY <2>2, <4>3 DEF StartCommand, OutputTyped
      <4>. QED
        BY <4>2, <4>3
    <3>4. before' \in Nat /\ command' \in Nat
      <4>1. Len(sink["capture"]) \in Nat
        BY DEF OutputTyped, Pipes
      <4>. QED
        BY <3>1, <4>1 DEF OutputTyped
    <3>. QED
      BY <3>1, <3>2, <3>3, <3>4 DEF OutputTyped
  <2>3. CASE CommandReturns \/ ContainerExits \/ ShellReturns \/ AfterHook
    BY <2>3 DEF OutputTyped, CommandReturns, ContainerExits, ShellReturns, AfterHook, io, done
  <2>4. CASE ClosePipes \/ WaitForReaders
    BY <2>4 DEF OutputTyped, ClosePipes, WaitForReaders, io, done
  <2>5. CASE Return
    <3>1. PICK k \in 0..Len(sink["capture"]) : output' = SubSeq(sink["capture"], 1, k)
      BY <2>5 DEF Return
    <3>2. sink["capture"] \in Seq(Chunks)
      BY DEF OutputTyped, Pipes
    <3>3. output' \in Seq(Chunks)
      BY <3>1, <3>2, SubSeqProperties
    <3>4. /\ main' = "returned" /\ returned' = outcome
          /\ UNCHANGED <<mode, outcome, command, process, produced, before, io, lost>>
      BY <2>5 DEF Return
    <3>. QED
      BY <3>3, <3>4 DEF OutputTyped, io
  <2>. QED
    BY <1>1, <2>1, <2>2, <2>3, <2>4, <2>5 DEF Main
<1>2. CASE CommandAbandoned \/ ProcessEnds
  BY <1>2 DEF OutputTyped, CommandAbandoned, ProcessEnds, io, flow, done
<1>3. CASE Produce
  <2>1. PICK stream \in Streams, end \in Ends :
          LET c == [n |-> Len(produced) + 1, command |-> command, stream |-> stream,
                    end |-> end] IN
          /\ produced' = Append(produced, c)
          /\ unread' = [unread EXCEPT ![WriterOf(stream)] =
                          IF writer[WriterOf(stream)] \in {"gone", "broken"} THEN @ ELSE @ \cup {c}]
    BY <1>3 DEF Produce
  <2>2. PICK new : new = [n |-> Len(produced) + 1, command |-> command, stream |-> stream,
                          end |-> end]
    OBVIOUS
  <2>3. /\ UNCHANGED <<mode, main, outcome, command, process, before, writer, pipe, reader, held>>
        /\ UNCHANGED <<sink, lost, output, returned>>
    BY <1>3 DEF Produce, flow, done
  <2>4. new \in Chunks /\ produced \in Seq(Chunks) /\ before \in Nat
    BY <2>2 DEF OutputTyped, Chunks
  <2>5. produced' = Append(produced, new)
    BY <2>1, <2>2
  <2>6. produced' \in Seq(Chunks)
    BY <2>4, <2>5, AppendProperties
  <2>7. unread' \in [Writers -> SUBSET Chunks]
    BY <2>1, <2>2, <2>4 DEF OutputTyped
  <2>. QED
    BY <2>3, <2>4, <2>6, <2>7 DEF OutputTyped
<1>4. ASSUME NEW w \in Writers, Copy(w) \/ Drop(w) PROVE OutputTyped'
  <2>1. CASE HandOver(w)
    <3>1. /\ InOrder(Written(w)) \in Seq(Chunks)
          /\ Written(w) \subseteq unread[w]
      BY <2>1, WrittenIs DEF HandOver, Writing
    <3>2. held' \in {held, [held EXCEPT ![PipeOf(w)] = @ \o InOrder(Written(w))]}
      BY <2>1 DEF HandOver
    <3>3. held' \in [Pipes -> Seq(Chunks)]
      <4>1. \A p \in Pipes : held[p] \o InOrder(Written(w)) \in Seq(Chunks)
        BY <3>1, ConcatProperties DEF OutputTyped
      <4>2. held \in [Pipes -> Seq(Chunks)]
        BY DEF OutputTyped
      <4>3. CASE held' = held
        BY <4>2, <4>3
      <4>4. CASE held' = [held EXCEPT ![PipeOf(w)] = @ \o InOrder(Written(w))]
        BY <4>1, <4>2, <4>4
      <4>. QED
        BY <3>2, <4>3, <4>4
    <3>4. /\ writer' \in [Writers -> {"none", "log", "capture", "gone", "broken"}]
          /\ unread' \in [Writers -> SUBSET Chunks]
      BY <2>1, <3>1 DEF HandOver, OutputTyped
    <3>5. UNCHANGED <<mode, flow, process, produced, before, pipe, reader, sink, lost, done>>
      BY <2>1 DEF HandOver
    <3>. QED
      BY <3>3, <3>4, <3>5 DEF OutputTyped, flow, done
  <2>2. CASE EndOfOutput(w) \/ WriteFails(w)
    BY <2>2 DEF OutputTyped, EndOfOutput, WriteFails, flow, done
  <2>3. CASE TooLong(w)
    BY <2>3 DEF OutputTyped, TooLong, flow, done
  <2>4. CASE Drop(w)
    BY <2>4 DEF OutputTyped, Drop, ConnectionEnds, ConnectionBreaks, flow, done
  <2>. QED
    BY <1>4, <2>1, <2>2, <2>3, <2>4 DEF Copy
<1>5. ASSUME NEW p \in Pipes, Read(p) PROVE OutputTyped'
  <2>1. CASE Deliver(p)
    <3>1. sink[p] \o Taken(p) \in Seq(Chunks)
      BY <2>1, TakenIs, ConcatProperties DEF OutputTyped, Deliver, HasToken
    <3>2. /\ sink' = [sink EXCEPT ![p] = @ \o Taken(p)] /\ held' = [held EXCEPT ![p] = <<>>]
          /\ UNCHANGED <<mode, flow, process, produced, before, unread, writer, pipe, reader, lost, done>>
      BY <2>1 DEF Deliver
    <3>3. sink' \in [Pipes -> Seq(Chunks)] /\ held' \in [Pipes -> Seq(Chunks)]
      BY <3>1, <3>2 DEF OutputTyped
    <3>. QED
      BY <3>2, <3>3 DEF OutputTyped, flow, done
  <2>2. CASE EndOfInput(p)
    BY <2>2 DEF OutputTyped, EndOfInput, flow, done
  <2>. QED
    BY <1>5, <2>1, <2>2 DEF Read
<1>6. CASE UNCHANGED outputVars
  BY <1>6 DEF OutputTyped, outputVars, io, flow, done
<1>. QED
  BY <1>1, <1>2, <1>3, <1>4, <1>5, <1>6 DEF OutputNext, Finished

\* Writers.
LEMMA WritesNext ==
  ASSUME OutputInv, [OutputNext]_outputVars
  PROVE  Writes'
<1>. USE DEF OutputInv
<1>1. ASSUME UNCHANGED <<mode, unread, writer, lost>>, process' = process \/ process' \in {"exited", "failed"}
      PROVE  Writes'
  <2>1. \A w \in Writers : EndsOfWrites(w)' = EndsOfWrites(w) /\ EndOfWrite(w)' = EndOfWrite(w)
    BY <1>1, SameWrite
  <2>2. WritersOf(mode)' = WritersOf(mode)
    BY <1>1
  <2>. QED
    BY <1>1, <2>1, <2>2 DEF Writes
<1>2. ASSUME StartProcess(mode), UNCHANGED <<mode, unread, lost>>,
             \A w \in Writers : unread[w] = {}
      PROVE  Writes'
  BY <1>2 DEF Writes, StartProcess, WritersOf, OutputTyped
<1>3. CASE Main
  <2>1. CASE PrepareContainer
    <3>1. Range(produced) = {}
      BY <2>1 DEF PrepareContainer, Fun, Range
    <3>2. \A w \in Writers : unread[w] = {}
      BY <3>1 DEF FromCommand
    <3>. QED
      BY <1>1, <1>2, <2>1, <3>2 DEF PrepareContainer
  <2>2. CASE StartCommand
    <3>1. \A w \in Writers : unread[w] = {}
      <4>1. main = "idle" /\ mode # "default"
        BY <2>2 DEF StartCommand, Scripts, OutputTyped
      <4>. QED
        BY <4>1 DEF Fun, Quiet, Writes
    <3>. QED
      BY <1>2, <2>2, <3>1 DEF StartCommand
  <2>3. CASE PrepareFails \/ BeforeHook \/ StartFails \/ CommandReturns
    BY <1>1, <2>3 DEF PrepareFails, BeforeHook, StartFails, CommandReturns, io
  <2>4. CASE ContainerExits \/ ShellReturns \/ AfterHook
    BY <1>1, <2>4 DEF ContainerExits, ShellReturns, AfterHook, io
  <2>5. CASE ClosePipes \/ WaitForReaders \/ Return
    BY <1>1, <2>5 DEF ClosePipes, WaitForReaders, Return, io
  <2>. QED
    BY <1>3, <2>1, <2>2, <2>3, <2>4, <2>5 DEF Main
<1>4. CASE CommandAbandoned \/ ProcessEnds
  BY <1>1, <1>4 DEF CommandAbandoned, ProcessEnds, io, flow
<1>5. CASE Produce
  <2>1. PICK stream \in Streams, end \in Ends :
          LET c == [n |-> Len(produced) + 1, command |-> command, stream |-> stream,
                    end |-> end] IN
          /\ produced' = Append(produced, c)
          /\ unread' = [unread EXCEPT ![WriterOf(stream)] =
                          IF writer[WriterOf(stream)] \in {"gone", "broken"} THEN @ ELSE @ \cup {c}]
    BY <1>5 DEF Produce
  <2>2. PICK new : new = [n |-> Len(produced) + 1, command |-> command, stream |-> stream,
                          end |-> end]
    OBVIOUS
  <2>3. UNCHANGED <<mode, process, writer, lost>> /\ process = "running"
    BY <1>5 DEF Produce
  <2>4. PICK v \in Writers : v = WriterOf(stream) /\ v \in WritersOf(mode)
    BY DEF WriterOf, Writers, WritersOf
  <2>5. unread' = [unread EXCEPT ![v] = IF writer[v] \in {"gone", "broken"} THEN @ ELSE @ \cup {new}]
    BY <2>1, <2>2, <2>4
  <2>6. writer[v] # "none"
    BY <2>3, <2>4 DEF Writes
  <2>7. ASSUME NEW w \in Writers
        PROVE  /\ w \notin WritersOf(mode)' => writer'[w] = "none"
               /\ writer'[w] \in {"none", "gone"} => unread'[w] = {}
               /\ writer'[w] = "capture" => EndsOfWrites(w)' # {} /\ EndOfWrite(w)'.end # "long"
               /\ process' = "running" /\ w \in WritersOf(mode)' => writer'[w] # "none"
               /\ writer'[w] = "gone" /\ ~lost' => process' \in {"exited", "failed"}
    <3>1. unread[w] \subseteq unread'[w] /\ unread'[w] \subseteq unread[w] \cup {new}
      BY <2>5 DEF OutputTyped
    <3>2. writer[w] \in {"none", "gone"} => unread'[w] = unread[w]
      BY <2>5, <2>6 DEF OutputTyped
    <3>3. writer'[w] = "capture" => EndsOfWrites(w)' # {} /\ EndOfWrite(w)'.end # "long"
      <4>1. new.n = Len(produced) + 1
        BY <2>2
      <4>2. writer'[w] = "capture" => EndsOfWrites(w) # {} /\ EndOfWrite(w).end # "long"
        BY <2>3 DEF Writes
      <4>. QED
        BY <2>3, <3>1, <4>1, <4>2, NextWriteStays
    <3>. QED
      BY <2>3, <3>2, <3>3 DEF Writes
  <2>. QED
    BY <2>7 DEF Writes
<1>6. ASSUME NEW v \in Writers, Copy(v) \/ Drop(v) PROVE Writes'
  <2>1. CASE TooLong(v)
    BY <1>1, <2>1 DEF TooLong
  <2>2. ASSUME ~TooLong(v), NEW w \in Writers
        PROVE  /\ w \notin WritersOf(mode)' => writer'[w] = "none"
               /\ writer'[w] \in {"none", "gone"} => unread'[w] = {}
               /\ writer'[w] = "capture" => EndsOfWrites(w)' # {} /\ EndOfWrite(w)'.end # "long"
               /\ process' = "running" /\ w \in WritersOf(mode)' => writer'[w] # "none"
               /\ writer'[w] = "gone" /\ ~lost' => process' \in {"exited", "failed"}
    <3>1. /\ UNCHANGED <<mode, process>> /\ writer[v] \in {"log", "capture"}
          /\ \A u \in Writers \ {v} : writer'[u] = writer[u] /\ unread'[u] = unread[u]
          /\ writer'[v] \in {"log", "capture", "gone", "broken"}
          /\ writer'[v] = "capture" => unread'[v] = unread[v] /\ EndsOfWrites(v) # {}
                                       /\ EndOfWrite(v).end # "long"
          /\ writer'[v] = "gone" => /\ unread'[v] = {}
                                    /\ lost' \/ process \in {"exited", "failed"}
          /\ lost' \/ lost' = lost
      <4>1. CASE HandOver(v)
        BY <4>1 DEF HandOver, Writing, OutputTyped
      <4>2. CASE EndOfOutput(v) \/ WriteFails(v)
        BY <4>2 DEF EndOfOutput, WriteFails, Writing, OutputTyped
      <4>3. CASE Drop(v)
        BY <4>3 DEF Drop, ConnectionEnds, ConnectionBreaks, OutputTyped
      <4>. QED
        BY <1>6, <2>2, <4>1, <4>2, <4>3 DEF Copy
    <3>2. CASE w # v
      <4>1. EndsOfWrites(w)' = EndsOfWrites(w) /\ EndOfWrite(w)' = EndOfWrite(w)
        BY <3>1, <3>2, SameWrite
      <4>. QED
        BY <3>1, <3>2, <4>1 DEF Writes
    <3>3. CASE w = v
      <4>1. unread'[v] = unread[v] => EndsOfWrites(v)' = EndsOfWrites(v) /\ EndOfWrite(v)' = EndOfWrite(v)
        BY <3>1, SameWrite
      <4>. QED
        BY <3>1, <3>3, <4>1 DEF Writes
    <3>. QED
      BY <3>2, <3>3
  <2>. QED
    BY <2>1, <2>2 DEF Writes
<1>7. ASSUME NEW p \in Pipes, Read(p) PROVE Writes'
  BY <1>1, <1>7 DEF Read, Deliver, EndOfInput
<1>8. CASE UNCHANGED outputVars
  BY <1>1, <1>8 DEF outputVars, io
<1>. QED
  BY <1>3, <1>4, <1>5, <1>6, <1>7, <1>8 DEF OutputNext, Finished

\* Readers.
LEMMA ReadsNext ==
  ASSUME OutputInv, [OutputNext]_outputVars
  PROVE  Reads'
<1>. USE DEF OutputInv, Reads
<1>1. CASE Main
  <2>1. CASE StartCommand
    BY <2>1 DEF StartCommand, Fresh
  <2>2. CASE ~StartCommand
    <3>1. UNCHANGED <<reader, held>>
      BY <1>1, <2>2 DEF Main, PrepareContainer, PrepareFails, BeforeHook, StartFails, CommandReturns,
           ContainerExits, ShellReturns, AfterHook, ClosePipes, WaitForReaders, Return, io
    <3>. QED
      BY <3>1
  <2>. QED
    BY <2>1, <2>2
<1>2. CASE CommandAbandoned \/ Produce \/ ProcessEnds
  BY <1>2 DEF CommandAbandoned, Produce, ProcessEnds, io
<1>3. ASSUME NEW w \in Writers, Copy(w) \/ Drop(w) PROVE Reads'
  BY <1>3 DEF Copy, Drop, EndOfOutput, WriteFails, HandOver, TooLong, ConnectionEnds,
              ConnectionBreaks, OutputTyped
<1>4. ASSUME NEW p \in Pipes, Read(p) PROVE Reads'
  BY <1>4 DEF Read, Deliver, EndOfInput, OutputTyped
<1>5. CASE UNCHANGED outputVars
  BY <1>5 DEF outputVars, io
<1>. QED
  BY <1>1, <1>2, <1>3, <1>4, <1>5 DEF OutputNext, Finished

\* A write ends a line at its end, if at all.
LEMMA WrittenText ==
  ASSUME OutputTyped, Numbered, FromCommand, NEW w \in Writers, EndsOfWrites(w) # {},
         NEW c \in Written(w), c # EndOfWrite(w)
  PROVE  c.end = "text" /\ c.n < EndOfWrite(w).n
<1>1. /\ c \in unread[w] /\ c.n <= EndOfWrite(w).n
      /\ EndOfWrite(w) \in unread[w] /\ \A d \in EndsOfWrites(w) : EndOfWrite(w).n <= d.n
  BY EndIs DEF Written, Of, EndsOfWrites
<1>2. c \in Range(produced) /\ EndOfWrite(w) \in Range(produced)
  BY <1>1 DEF FromCommand
<1>3. c.n \in Nat /\ EndOfWrite(w).n \in Nat /\ c.n # EndOfWrite(w).n
  BY <1>2, ProducedIs
<1>4. c.n < EndOfWrite(w).n
  BY <1>1, <1>3
<1>5. c \notin EndsOfWrites(w)
  BY <1>1, <1>3, <1>4
<1>. QED
  BY <1>1, <1>4, <1>5 DEF EndsOfWrites

\* Newlines.
LEMMA LinesNext ==
  ASSUME OutputInv, [OutputNext]_outputVars
  PROVE  Lines'
<1>. USE DEF OutputInv
<1>1. ASSUME UNCHANGED sink, \A p \in Pipes : held'[p] = held[p] \/ held'[p] = <<>> PROVE Lines'
  <2>1. ASSUME NEW p \in Pipes, NEW i \in 1..Len(held'[p]), i < Len(held'[p])
        PROVE  held'[p][i].end # "newline"
    <3>1. CASE held'[p] = held[p]
      BY <2>1, <3>1 DEF Lines
    <3>2. CASE held'[p] = <<>>
      <4>1. 1..Len(held'[p]) = {}
        BY <3>2
      <4>. QED
        BY <4>1
    <3>. QED
      BY <1>1, <3>1, <3>2
  <2>. QED
    BY <1>1, <2>1 DEF Lines, NoNewline
<1>2. CASE Main
  <2>1. CASE StartCommand
    <3>1. UNCHANGED sink /\ \A p \in Pipes : held'[p] = held[p] \/ held'[p] = <<>>
      BY <2>1 DEF StartCommand, Fresh
    <3>. QED
      BY <1>1, <3>1
  <2>2. CASE ~StartCommand
    <3>1. UNCHANGED <<sink, held>>
      BY <1>2, <2>2 DEF Main, PrepareContainer, PrepareFails, BeforeHook, StartFails, CommandReturns,
           ContainerExits, ShellReturns, AfterHook, ClosePipes, WaitForReaders, Return, io
    <3>. QED
      BY <1>1, <3>1
  <2>. QED
    BY <2>1, <2>2
<1>3. CASE CommandAbandoned \/ Produce \/ ProcessEnds \/ UNCHANGED outputVars
  <2>1. UNCHANGED <<sink, held>>
    BY <1>3 DEF CommandAbandoned, Produce, ProcessEnds, io, outputVars
  <2>. QED
    BY <1>1, <2>1
<1>4. ASSUME NEW w \in Writers, Copy(w) \/ Drop(w) PROVE Lines'
  <2>1. CASE HandOver(w)
    <3>1. PICK p \in Pipes : p = PipeOf(w)
      <4>1. EndsOfWrites(w) # {}
        BY <2>1 DEF HandOver, Writing
      <4>. QED
        BY <4>1, WrittenIs DEF PipeOf, Pipes
    <3>. DEFINE I == InOrder(Written(w))
                h == held[p]
    <3>2. /\ UNCHANGED sink /\ EndsOfWrites(w) # {} /\ pipe[p] = "open" /\ ~HasToken(p)
          /\ held' = IF Skipped(p, w) THEN held ELSE [held EXCEPT ![p] = h \o I]
      BY <2>1, <3>1 DEF HandOver, Writing
    <3>3. /\ I \in Seq(Chunks) /\ Range(I) = Written(w) /\ Ordered(I)
          /\ \A c \in Written(w) : c.stream = EndOfWrite(w).stream
      BY <3>2, WrittenIs
    <3>4. h \in Seq(Chunks) /\ Len(h) \in Nat /\ Len(I) \in Nat /\ DOMAIN I = 1..Len(I)
      BY <3>3 DEF OutputTyped
    <3>. HIDE DEF I
    <3>5. \A i \in 1..Len(h) : h[i].end # "newline"
      <4>1. h = <<>> \/ h[Len(h)].end # "newline"
        BY <3>2 DEF HasToken, EndsWithNewline, Last
      <4>2. \A i \in 1..Len(h) : i < Len(h) => h[i].end # "newline"
        BY DEF Lines
      <4>. HIDE DEF h
      <4>. QED
        BY <3>4, <4>1, <4>2
    <3>6. \A i \in 1..Len(I) : i < Len(I) => I[i].end # "newline"
      <4>. SUFFICES ASSUME NEW i \in 1..Len(I), i < Len(I) PROVE I[i].end # "newline"
        OBVIOUS
      <4>1. Len(I) \in 1..Len(I) /\ I[i] \in Written(w) /\ I[Len(I)] \in Written(w)
        BY <3>3, <3>4 DEF Range
      <4>2. I[i].n < I[Len(I)].n
        BY <3>3, <3>4, <4>1 DEF Ordered
      <4>3. I[i] # EndOfWrite(w)
        <5>1. I[Len(I)] # EndOfWrite(w) => I[Len(I)].n < EndOfWrite(w).n
          BY <3>2, <4>1, WrittenText
        <5>2. I[i] \in Range(produced) /\ I[Len(I)] \in Range(produced)
          BY <4>1 DEF Written, Of, FromCommand
        <5>3. I[i].n \in Nat /\ I[Len(I)].n \in Nat
          BY <5>2, ProducedIs
        <5>. QED
          BY <4>2, <5>1, <5>3
      <4>. QED
        BY <3>2, <4>1, <4>3, WrittenText
    <3>7. CASE Skipped(p, w)
      BY <1>1, <3>2, <3>7
    <3>8. CASE ~Skipped(p, w)
      <4>1. held'[p] = h \o I /\ \A q \in Pipes \ {p} : held'[q] = held[q]
        BY <3>2, <3>8 DEF OutputTyped
      <4>. HIDE DEF h
      <4>2. /\ Len(h \o I) = Len(h) + Len(I)
            /\ \A i \in 1..(Len(h) + Len(I)) : (h \o I)[i] = IF i <= Len(h) THEN h[i] ELSE I[i - Len(h)]
        BY <3>3, <3>4, ConcatProperties
      <4>3. ASSUME NEW i \in 1..Len(h \o I), i < Len(h \o I) PROVE (h \o I)[i].end # "newline"
        <5>1. CASE i <= Len(h)
          BY <3>4, <3>5, <4>2, <4>3, <5>1
        <5>2. CASE ~(i <= Len(h))
          <6>1. i - Len(h) \in 1..Len(I) /\ i - Len(h) < Len(I)
            BY <3>4, <4>2, <4>3, <5>2
          <6>. QED
            BY <3>4, <3>6, <4>2, <4>3, <5>2, <6>1
        <5>. QED
          BY <5>1, <5>2
      <4>4. ASSUME NEW q \in Pipes, NEW i \in 1..Len(held'[q]), i < Len(held'[q])
            PROVE  held'[q][i].end # "newline"
        <5>1. CASE q = p
          BY <4>1, <4>3, <4>4, <5>1
        <5>2. CASE q # p
          BY <4>1, <4>4, <5>2 DEF Lines
        <5>. QED
          BY <5>1, <5>2
      <4>. QED
        BY <3>2, <4>4 DEF Lines, NoNewline
    <3>. QED
      BY <3>7, <3>8
  <2>2. CASE ~HandOver(w)
    <3>1. UNCHANGED <<sink, held>>
      BY <1>4, <2>2 DEF Copy, Drop, EndOfOutput, WriteFails, TooLong, ConnectionEnds, ConnectionBreaks
    <3>. QED
      BY <1>1, <3>1
  <2>. QED
    BY <2>1, <2>2
<1>5. ASSUME NEW p \in Pipes, Read(p) PROVE Lines'
  <2>1. CASE Deliver(p)
    <3>1. /\ sink' = [sink EXCEPT ![p] = @ \o Taken(p)] /\ held' = [held EXCEPT ![p] = <<>>]
          /\ held[p] # <<>>
      BY <2>1 DEF Deliver, HasToken
    <3>2. \A q \in Pipes \ {p} : held'[q] = held[q] /\ sink'[q] = sink[q]
      BY <3>1 DEF OutputTyped
    <3>3. ASSUME NEW q \in Pipes, NEW i \in 1..Len(held'[q]), i < Len(held'[q])
          PROVE  held'[q][i].end # "newline"
      <4>1. CASE q = p
        <5>1. Len(held'[q]) = 0
          BY <3>1, <4>1 DEF OutputTyped
        <5>. QED
          BY <3>3, <5>1
      <4>2. CASE q # p
        BY <3>2, <3>3, <4>2 DEF Lines
      <4>. QED
        BY <4>1, <4>2
    <3>4. NoNewline(sink'["capture"])
      <4>1. CASE p # "capture"
        BY <3>2, <4>1 DEF Lines, NoNewline, Pipes
      <4>2. CASE p = "capture"
        <5>. DEFINE t == Taken("capture")
                    h == held["capture"]
                    a == sink["capture"]
        <5>1. /\ t \in Seq(Chunks) /\ Len(h) \in Nat /\ Len(t) \in Nat /\ Len(t) <= Len(h)
              /\ \A i \in 1..Len(t) : t[i] = h[i]
              /\ h[Len(h)].end = "newline" => Len(t) = Len(h) - 1
          BY <3>1, <4>2, TakenIs
        <5>2. \A i \in 1..Len(h) : i < Len(h) => h[i].end # "newline"
          BY <4>2 DEF Lines
        <5>3. a \in Seq(Chunks) /\ Len(a) \in Nat /\ \A i \in 1..Len(a) : a[i].end # "newline"
          BY <4>2 DEF OutputTyped, Lines, NoNewline
        <5>4. sink'["capture"] = a \o t
          BY <3>1, <4>2 DEF OutputTyped
        <5>. HIDE DEF t, h, a
        <5>5. \A i \in 1..Len(t) : t[i].end # "newline"
          BY <5>1, <5>2
        <5>6. /\ DOMAIN (a \o t) = 1..(Len(a) + Len(t))
              /\ \A i \in 1..(Len(a) + Len(t)) : (a \o t)[i] = IF i <= Len(a) THEN a[i] ELSE t[i - Len(a)]
          BY <5>1, <5>3, ConcatProperties
        <5>7. ASSUME NEW i \in 1..(Len(a) + Len(t)) PROVE (a \o t)[i].end # "newline"
          <6>1. CASE i <= Len(a)
            BY <5>3, <5>6, <6>1
          <6>2. CASE ~(i <= Len(a))
            <7>1. i - Len(a) \in 1..Len(t)
              BY <5>1, <5>3, <6>2
            <7>. QED
              BY <5>5, <5>6, <6>2, <7>1
          <6>. QED
            BY <6>1, <6>2
        <5>. QED
          BY <5>4, <5>6, <5>7 DEF NoNewline
      <4>. QED
        BY <4>1, <4>2
    <3>. QED
      BY <3>3, <3>4 DEF Lines, NoNewline
  <2>2. CASE EndOfInput(p)
    BY <1>1, <2>2 DEF EndOfInput
  <2>. QED
    BY <1>5, <2>1, <2>2 DEF Read
<1>. QED
  BY <1>2, <1>3, <1>4, <1>5 DEF OutputNext, Finished

\* The function.
LEMMA FunNext ==
  ASSUME OutputInv, [OutputNext]_outputVars
  PROVE  Fun'
<1>. USE DEF OutputInv
<1>1. CASE PrepareContainer
  BY <1>1 DEF Fun, PrepareContainer, StartProcess, done, Ahead, Late, OutputTyped
<1>2. CASE PrepareFails
  BY <1>2 DEF Fun, PrepareFails, io, done, Ahead, Late, OutputTyped
<1>3. CASE BeforeHook
  BY <1>3 DEF Fun, BeforeHook, io, done, Ahead, Late, Quiet, OutputTyped
<1>4. CASE StartCommand
  BY <1>4 DEF Fun, StartCommand, StartProcess, Scripts, done, Ahead, Late, OutputTyped
<1>5. CASE StartFails
  BY <1>5 DEF Fun, StartFails, io, done, Ahead, Late, OutputTyped
<1>6. CASE CommandReturns
  <2>1. ASSUME writer["stdcopy"] = "gone"
        PROVE  Quiet /\ (process # "running" \/ lost)
    BY <1>6, <2>1 DEF CommandReturns, Quiet, Writes, WritersOf, Writers
  <2>. QED
    BY <1>6, <2>1 DEF Fun, CommandReturns, io, done, Ahead, Late, Quiet, OutputTyped
<1>7. CASE CommandAbandoned
  BY <1>7 DEF Fun, CommandAbandoned, io, done, Ahead, Late, OutputTyped
<1>8. CASE ContainerExits
  BY <1>8 DEF Fun, ContainerExits, io, done, Ahead, Late, OutputTyped
<1>9. CASE ShellReturns
  <2>1. Quiet
    BY <1>9 DEF ShellReturns, Quiet, Writes, WritersOf, Writers
  <2>. QED
    BY <1>9, <2>1 DEF Fun, ShellReturns, io, done, Ahead, Late, Quiet, OutputTyped
<1>10. CASE AfterHook
  BY <1>10 DEF Fun, AfterHook, io, done, Ahead, Late, Quiet, OutputTyped
<1>11. CASE ClosePipes
  BY <1>11 DEF Fun, ClosePipes, done, Ahead, Late, Quiet, OutputTyped
<1>12. CASE WaitForReaders
  <2>1. /\ main = "wait" /\ outcome = "ok" /\ returned = "none" /\ (mode # "default" => Quiet)
        /\ UNCHANGED <<mode, command, process, produced, writer, reader, held, lost, returned>>
    BY <1>12 DEF WaitForReaders, Fun, Late, io, done
  <2>2. \/ outcome' = "error" /\ main' = "return"
        \/ /\ outcome' = "ok" /\ \A p \in Pipes : reader[p] = "ended"
           /\ main' = "return" \/ (main' = "idle" /\ mode = "host")
    BY <1>12 DEF WaitForReaders, OutputTyped
  <2>3. mode = "host" => process # "running"
    <3>1. "stdout" \in Writers /\ "stdout" \in Streams
      BY DEF Writers, Streams
    <3>2. mode = "host" => writer["stdout"] \in {"none", "gone"} /\ ~lost
      BY <2>1, <3>1 DEF Quiet, Fun
    <3>. QED
      BY <3>1, <3>2 DEF Writes, WritersOf
  <2>4. (\A p \in Pipes : reader[p] = "ended") => \A p \in Pipes : held[p] = <<>>
    BY DEF Reads
  <2>. QED
    BY <2>1, <2>2, <2>3, <2>4 DEF Fun, Ahead, Late, Quiet
<1>13. CASE Return
  BY <1>13 DEF Fun, Return, io, Ahead, Late, Quiet, OutputTyped
<1>14. CASE Produce
  BY <1>14 DEF Fun, Produce, flow, done, Quiet
<1>15. CASE ProcessEnds
  BY <1>15 DEF Fun, ProcessEnds, flow, io, done, Quiet
\* A writer that moves was neither unused nor at its end.
<1>16. ASSUME NEW w \in Writers, Copy(w) \/ Drop(w) PROVE Fun'
  <2>1. /\ UNCHANGED <<mode, main, outcome, command, process, produced, returned>>
        /\ writer[w] \in {"log", "capture"}
        /\ lost' = lost \/ (mode # "host" /\ lost')
        /\ \A p \in Pipes : reader[p] = "ended" => reader'[p] = "ended"
    <3>1. CASE HandOver(w)
      BY <3>1 DEF HandOver, Writing, flow, done
    <3>2. CASE EndOfOutput(w) \/ WriteFails(w)
      BY <3>2 DEF EndOfOutput, WriteFails, Writing, flow, done
    <3>3. CASE TooLong(w)
      BY <3>3 DEF TooLong, Writing, flow, done, OutputTyped
    <3>4. CASE Drop(w)
      BY <3>4 DEF Drop, ConnectionEnds, ConnectionBreaks, flow, done
    <3>. QED
      BY <1>16, <3>1, <3>2, <3>3, <3>4 DEF Copy
  <2>2. ~Quiet /\ process # "none"
    BY <2>1 DEF Quiet, Fun
  <2>. QED
    BY <2>1, <2>2 DEF Fun
<1>17. ASSUME NEW p \in Pipes, Read(p) PROVE Fun'
  <2>1. /\ UNCHANGED <<mode, main, outcome, command, process, produced, writer, lost, returned>>
        /\ \A q \in Pipes : reader[q] = "ended" => reader'[q] = "ended"
        /\ \A q \in Pipes : held[q] = <<>> => held'[q] = <<>>
    BY <1>17 DEF Read, Deliver, EndOfInput, flow, done, OutputTyped
  <2>. QED
    BY <2>1 DEF Fun, Quiet
<1>18. CASE UNCHANGED outputVars
  BY <1>18 DEF Fun, Quiet, outputVars, io, flow, done
<1>. QED
  BY <1>1, <1>2, <1>3, <1>4, <1>5, <1>6, <1>7, <1>8, <1>9, <1>10, <1>11, <1>12, <1>13, <1>14,
     <1>15, <1>16, <1>17, <1>18 DEF OutputNext, Main, Finished

\* When nothing is under way on the host, all text that was written has been captured.
LEMMA AllCaptured ==
  ASSUME OutputInv, mode = "host", main = "idle", NEW c \in Texts(Range(produced))
  PROVE  \E j \in 1..Len(sink["capture"]) :
           j \in DOMAIN sink["capture"] /\ sink["capture"][j] = c
<1>. USE DEF OutputInv
<1>. DEFINE s == sink["capture"]
<1>1. "capture" \in Pipes
  BY DEF Pipes
<1>2. /\ s \in Seq(Chunks) /\ Arrived("capture") = s /\ DOMAIN s = 1..Len(s) /\ Len(s) \in Nat
  BY <1>1, ArrivedIs DEF Fun
<1>. HIDE DEF s
<1>3. c \in Range(s)
  <2>1. c \in Range(produced)
    BY DEF Texts
  <2>2. Reaches("capture", c.stream) /\ ~lost
    BY DEF Reaches, Fun
  <2>3. \/ c \in Range(s)
        \/ \E v \in Writers : c \in ToWrite(v, "capture")
        \/ Stranded(c)
    BY <1>1, <1>2, <2>2 DEF NothingMissing
  <2>4. \A v \in Writers : writer[v] \in {"none", "gone"} /\ unread[v] = {}
    BY DEF Fun, Quiet, Writes
  <2>5. \A v \in Writers : ToWrite(v, "capture") = {}
    BY <2>4 DEF ToWrite
  <2>6. ~Stranded(c)
    <3>1. WriterOf(c.stream) \in Writers
      BY <2>1, ProducedIs DEF Chunks, WriterOf, Writers
    <3>2. Passed(c)
      BY DEF Passed
    <3>. QED
      BY <2>4, <3>1, <3>2 DEF Stranded
  <2>. QED
    BY <2>3, <2>5, <2>6
<1>. QED
  BY <1>2, <1>3 DEF Range, s

\* What is appended leaves what was there.
LEMMA Prefix ==
  ASSUME NEW a \in Seq(Chunks), NEW b \in Seq(Chunks), NEW i \in DOMAIN a
  PROVE  i \in DOMAIN (a \o b) /\ (a \o b)[i] = a[i]
<1>1. /\ a \o b \in Seq(Chunks) /\ Len(a \o b) = Len(a) + Len(b)
      /\ Len(a) \in Nat /\ Len(b) \in Nat /\ DOMAIN a = 1..Len(a)
      /\ \A k \in 1..(Len(a) + Len(b)) : (a \o b)[k] = IF k <= Len(a) THEN a[k] ELSE b[k - Len(a)]
  BY ConcatProperties
<1>2. DOMAIN (a \o b) = 1..(Len(a) + Len(b))
  BY <1>1
<1>3. i \in 1..(Len(a) + Len(b)) /\ i <= Len(a)
  BY <1>1
<1>. QED
  BY <1>1, <1>2, <1>3

\* The output, and the place of the earlier scripts.
LEMMA CapturedNext ==
  ASSUME OutputInv, [OutputNext]_outputVars
  PROVE  Captured'
<1>. USE DEF OutputInv
\* Once the function has returned nothing is followed any more.
<1>1. CASE main = "returned"
  <2>1. UNCHANGED <<mode, main, command, produced, before, reader, sink, output>>
    <3>1. ~Main /\ ~CommandAbandoned /\ ~Produce /\ ~ProcessEnds
      BY <1>1 DEF Main, PrepareContainer, PrepareFails, BeforeHook, StartCommand, StartFails,
           CommandReturns, ContainerExits, ShellReturns, AfterHook, ClosePipes, WaitForReaders,
           Return, CommandAbandoned, Produce, ProcessEnds, Followed
    <3>2. \A w \in Writers : ~Copy(w) /\ ~Drop(w)
      BY <1>1 DEF Copy, Drop, EndOfOutput, WriteFails, HandOver, TooLong, ConnectionEnds,
           ConnectionBreaks, Followed
    <3>3. \A p \in Pipes : ~Read(p)
      BY <1>1 DEF Read, Deliver, EndOfInput, Followed
    <3>4. UNCHANGED outputVars
      BY <3>1, <3>2, <3>3 DEF OutputNext, Finished
    <3>. QED
      BY <3>4 DEF outputVars, flow, io, done
  <2>. QED
    BY <2>1 DEF Captured, Visible
\* The buffer and what has been produced only grow.
<1>2. ASSUME main # "returned", UNCHANGED <<mode, before, output>>,
             main' # "returned",
             \A c \in Texts(Range(produced))' : c.command < command' =>
               c \in Texts(Range(produced)) /\ c.command < command,
             \A j \in DOMAIN sink["capture"] :
               j \in DOMAIN sink'["capture"] /\ sink'["capture"][j] = sink["capture"][j]
      PROVE  Captured'
  <2>1. output' = <<>>
    BY <1>2 DEF Captured
  <2>2. ASSUME mode = "host", NEW c \in Texts(Range(produced))', c.command < command'
        PROVE  \E j \in 1..before : j \in DOMAIN sink'["capture"] /\ sink'["capture"][j] = c
    <3>1. c \in Texts(Range(produced)) /\ c.command < command
      BY <1>2, <2>2
    <3>2. PICK j \in 1..before : j \in DOMAIN sink["capture"] /\ sink["capture"][j] = c
      BY <2>2, <3>1 DEF Captured
    <3>. QED
      BY <1>2, <3>2
  <2>. QED
    BY <1>2, <2>1, <2>2 DEF Captured
<1>3. CASE main # "returned" /\ Main
  <2>1. CASE StartCommand
    <3>1. /\ main = "idle" /\ main' = "running"
          /\ mode = "host" => before' = Len(sink["capture"])
          /\ UNCHANGED <<mode, produced, sink, output>>
      BY <2>1 DEF StartCommand, done
    <3>2. output' = <<>>
      BY <1>3, <3>1 DEF Captured
    <3>3. ASSUME mode = "host", NEW c \in Texts(Range(produced))
          PROVE  \E j \in 1..before' : j \in DOMAIN sink["capture"] /\ sink["capture"][j] = c
      BY <3>1, <3>3, AllCaptured
    <3>. QED
      BY <3>1, <3>2, <3>3 DEF Captured
  <2>2. CASE Return
    <3>1. /\ main' = "returned" /\ UNCHANGED <<mode, command, produced, before, reader, sink>>
      BY <2>2 DEF Return, io
    <3>2. PICK k \in 0..Len(sink["capture"]) :
             /\ output' = SubSeq(sink["capture"], 1, k)
             /\ k < Len(sink["capture"]) => reader["capture"] = "reading" /\ k >= Visible
      BY <2>2 DEF Return
    <3>3. sink["capture"] \in Seq(Chunks)
      BY DEF OutputTyped, Pipes
    <3>4. /\ Len(output') = k /\ \A i \in 1..k : output'[i] = sink["capture"][i]
          /\ k <= Len(sink["capture"])
      <4>1. Len(sink["capture"]) \in Nat
        BY <3>3
      <4>. QED
        BY <3>2, <3>3, <4>1, SubSeqProperties
    <3>5. Visible' = Visible
      BY <3>1 DEF Visible
    <3>. QED
      BY <3>1, <3>2, <3>4, <3>5 DEF Captured
  <2>3. CASE ~StartCommand /\ ~Return
    <3>1. UNCHANGED <<mode, command, produced, before, sink, output>> /\ main' # "returned"
      BY <1>3, <2>3 DEF Main, PrepareContainer, PrepareFails, BeforeHook, StartFails, CommandReturns,
           ContainerExits, ShellReturns, AfterHook, ClosePipes, WaitForReaders, io, done
    <3>. QED
      BY <1>2, <1>3, <3>1
  <2>. QED
    BY <2>1, <2>2, <2>3
<1>4. CASE main # "returned" /\ (CommandAbandoned \/ ProcessEnds \/ UNCHANGED outputVars)
  BY <1>2, <1>4 DEF CommandAbandoned, ProcessEnds, outputVars, io, flow, done
<1>5. CASE main # "returned" /\ Produce
  <2>1. PICK new : produced' = Append(produced, new) /\ new.command = command /\ new \in Chunks
    <3>1. PICK stream \in Streams, end \in Ends :
            produced' = Append(produced, [n |-> Len(produced) + 1, command |-> command,
                                          stream |-> stream, end |-> end])
      BY <1>5 DEF Produce
    <3>2. Len(produced) \in Nat /\ command \in Nat
      BY DEF OutputTyped
    <3>. QED
      BY <3>1, <3>2 DEF Chunks
  <2>2. Range(produced)' = Range(produced) \cup {new}
    <3>1. /\ produced \in Seq(Chunks) /\ Len(produced) \in Nat /\ DOMAIN produced = 1..Len(produced)
          /\ DOMAIN produced' = 1..(Len(produced) + 1) /\ produced'[Len(produced) + 1] = new
          /\ \A i \in 1..Len(produced) : produced'[i] = produced[i]
      BY <2>1 DEF OutputTyped
    <3>. QED
      BY <3>1 DEF Range
  <2>3. UNCHANGED <<mode, main, command, before, sink, output>> /\ command \in Nat
    BY <1>5 DEF Produce, flow, done, OutputTyped
  <2>4. ASSUME NEW c \in Texts(Range(produced))', c.command < command'
        PROVE  c \in Texts(Range(produced)) /\ c.command < command
    <3>1. c # new
      BY <2>1, <2>3, <2>4
    <3>. QED
      BY <2>2, <2>3, <2>4, <3>1 DEF Texts
  <2>. QED
    BY <1>2, <1>5, <2>3, <2>4
<1>6. ASSUME main # "returned", NEW w \in Writers, Copy(w) \/ Drop(w) PROVE Captured'
  <2>1. UNCHANGED <<mode, main, command, produced, before, sink, output>>
    BY <1>6 DEF Copy, Drop, EndOfOutput, WriteFails, HandOver, TooLong, ConnectionEnds,
         ConnectionBreaks, flow, done
  <2>. QED
    BY <1>2, <1>6, <2>1
<1>7. ASSUME main # "returned", NEW p \in Pipes, Read(p) PROVE Captured'
  <2>1. UNCHANGED <<mode, main, command, produced, before, output>>
    BY <1>7 DEF Read, Deliver, EndOfInput, flow, done
  <2>2. (sink' = [sink EXCEPT ![p] = @ \o Taken(p)] /\ held[p] # <<>>) \/ sink' = sink
    BY <1>7 DEF Read, Deliver, EndOfInput, HasToken
  <2>3. ASSUME NEW j \in DOMAIN sink["capture"]
        PROVE  j \in DOMAIN sink'["capture"] /\ sink'["capture"][j] = sink["capture"][j]
    <3>1. sink["capture"] \in Seq(Chunks)
      BY DEF OutputTyped, Pipes
    <3>2. CASE sink'["capture"] = sink["capture"]
      BY <3>2
    <3>3. CASE p = "capture" /\ sink'["capture"] = sink["capture"] \o Taken("capture") /\ held[p] # <<>>
      <4>1. Taken("capture") \in Seq(Chunks)
        BY <3>3, TakenIs
      <4>2. LET s == sink["capture"] \o Taken("capture") IN
              j \in DOMAIN s /\ s[j] = sink["capture"][j]
        BY <3>1, <4>1, Prefix
      <4>. QED
        BY <3>3, <4>2
    <3>. QED
      BY <2>2, <3>2, <3>3 DEF OutputTyped, Pipes
  <2>. QED
    BY <1>2, <1>7, <2>1, <2>3
<1>. QED
  BY <1>1, <1>3, <1>4, <1>5, <1>6, <1>7 DEF OutputNext, Finished

\* The invariant holds at first.
LEMMA OutputInvInit ==
  ASSUME OutputInit
  PROVE  OutputInv
<1>. USE DEF OutputInit
<1>1. <<>> \in Seq(Chunks) /\ Len(<<>>) = 0 /\ Range(<<>>) = {} /\ <<>> \o <<>> = <<>>
      /\ DOMAIN <<>> = {}
  BY EmptySeq DEF Range
<1>2. OutputTyped
  <2>1. /\ mode \in Modes /\ outcome \in {"ok", "error"} /\ command \in Nat
        /\ main \in {"prepare", "idle"} /\ process = "none" /\ lost \in BOOLEAN /\ returned = "none"
    OBVIOUS
  <2>2. produced \in Seq(Chunks) /\ before \in Nat /\ output \in Seq(Chunks)
    BY <1>1
  <2>3. /\ unread \in [Writers -> SUBSET Chunks] /\ pipe \in [Pipes -> {"open", "closed"}]
        /\ writer \in [Writers -> {"none", "log", "capture", "gone", "broken"}]
        /\ reader \in [Pipes -> {"reading", "ended", "failed"}]
    OBVIOUS
  <2>4. held \in [Pipes -> Seq(Chunks)] /\ sink \in [Pipes -> Seq(Chunks)]
    BY <1>1
  <2>. QED
    BY <2>1, <2>2, <2>3, <2>4 DEF OutputTyped
<1>3. \A p \in Pipes : Arrived(p) = <<>>
  BY <1>1 DEF Arrived
<1>4. \A p \in Pipes : Range(Arrived(p)) = {} /\ Ordered(Arrived(p))
  BY <1>1, <1>3 DEF Ordered
<1>5. \A w \in Writers : unread[w] = {} /\ writer[w] = "none"
  OBVIOUS
<1>6. Numbered /\ FromCommand /\ InTurn /\ Queued /\ NothingMissing /\ NoGaps
  <2>1. Numbered
    BY <1>1 DEF Numbered
  <2>2. FromCommand /\ NoGaps /\ Queued
    BY <1>4, <1>5 DEF FromCommand, NoGaps, Queued
  <2>3. \A w \in Writers : \A p : ToWrite(w, p) = {}
    BY <1>5 DEF ToWrite, ToLog
  <2>4. InTurn
    BY <1>4, <2>3 DEF InTurn
  <2>5. NothingMissing
    BY <1>1 DEF NothingMissing, Texts
  <2>. QED
    BY <2>1, <2>2, <2>4, <2>5
<1>7. Writes /\ Reads
  BY <1>5 DEF Writes, Reads
<1>8. Fun
  BY DEF Fun, Ahead, Late, Quiet, Modes
<1>9. Captured
  BY <1>1 DEF Captured, Texts
<1>10. Lines
  BY <1>1 DEF Lines, NoNewline, Pipes
<1>. QED
  BY <1>2, <1>6, <1>7, <1>8, <1>9, <1>10 DEF OutputInv

LEMMA OutputInvNext ==
  ASSUME OutputInv, [OutputNext]_outputVars
  PROVE  OutputInv'
<1>1. Data'
  BY DataNext DEF OutputInv, Data
<1>. QED
  BY <1>1, TypesNext, LinesNext, WritesNext, ReadsNext, FunNext, CapturedNext DEF OutputInv, Data

LEMMA OutputInvariance == OutputSpec => []OutputInv
<1>1. OutputInit => OutputInv
  BY OutputInvInit
<1>2. OutputInv /\ [OutputNext]_outputVars => OutputInv'
  BY OutputInvNext
<1>. QED
  BY <1>1, <1>2, PTL DEF OutputSpec
-----------------------------------------------------------------------------
(* What follows.                                                           *)

\* After a success all that is due has arrived, at the log and in the buffer.
LEMMA DueHasArrived ==
  ASSUME OutputInv, returned = "ok", mode # "default", ~lost, NEW s \in Streams,
         NEW p \in {s, "capture"}
  PROVE  /\ Of(s, Texts(Range(sink[p]))) = Due(s) /\ Ordered(sink[p])
         /\ p = s => Texts(Range(sink[p])) = Due(s)
<1>. USE DEF OutputInv
<1>1. p \in Pipes /\ main = "returned" /\ outcome = "ok"
  BY DEF Pipes, Fun
<1>2. Quiet /\ \A q \in Pipes : reader[q] = "ended"
  BY <1>1 DEF Fun, Late
<1>3. Arrived(p) = sink[p]
  BY <1>1, <1>2, ArrivedIs DEF Reads
<1>4. \A v \in Writers : ToWrite(v, p) = {}
  BY <1>2 DEF Quiet, Writes, ToWrite, ToLog
<1>5. ASSUME NEW c \in Due(s) PROVE c \in Range(sink[p])
  <2>1. c \in Texts(Range(produced)) /\ c \in Range(produced) /\ c.stream = s /\ Passed(c)
    BY <1>5 DEF Due, Of, Texts
  <2>2. Reaches(p, c.stream)
    BY <2>1 DEF Reaches
  <2>3. c \in Range(sink[p]) \/ Stranded(c)
    BY <1>1, <1>3, <1>4, <2>1, <2>2 DEF NothingMissing
  <2>4. WriterOf(c.stream) \in Writers
    BY <2>1 DEF WriterOf, Writers
  <2>. QED
    BY <1>2, <2>1, <2>3, <2>4 DEF Stranded, Quiet
<1>6. ASSUME NEW c \in Range(sink[p])
      PROVE  c \in Range(produced) /\ Passed(c) /\ (p \in Streams => c.stream = p)
  BY <1>1, <1>3, <1>6 DEF FromCommand, NoGaps
<1>7. Ordered(sink[p])
  BY <1>1, <1>3 DEF InTurn
<1>. QED
  BY <1>5, <1>6, <1>7 DEF Due, Of, Texts

\* Up to where it goes the output is the captured output.
LEMMA OutputIs ==
  ASSUME OutputInv
  PROVE  /\ output \in Seq(Chunks) /\ Ordered(output)
         /\ \A i \in 1..Len(output) :
              /\ i \in DOMAIN Arrived("capture") /\ output[i] = Arrived("capture")[i]
              /\ output[i] \in Range(Arrived("capture")) /\ output[i].end # "newline"
<1>. USE DEF OutputInv
<1>1. "capture" \in Pipes
  BY DEF Pipes
<1>2. /\ output \in Seq(Chunks) /\ Len(output) \in Nat /\ DOMAIN output = 1..Len(output)
      /\ sink["capture"] \in Seq(Chunks) /\ held["capture"] \in Seq(Chunks)
  BY <1>1 DEF OutputTyped
<1>3. /\ Len(output) <= Len(sink["capture"])
      /\ \A i \in 1..Len(output) : output[i] = sink["capture"][i]
  <2>1. CASE main = "returned"
    BY <2>1 DEF Captured
  <2>2. CASE main # "returned"
    <3>1. Len(output) = 0 /\ Len(sink["capture"]) \in Nat
      BY <1>2, <2>2 DEF Captured
    <3>. QED
      BY <3>1
  <2>. QED
    BY <2>1, <2>2
<1>4. \A i \in 1..Len(output) :
        i \in DOMAIN Arrived("capture") /\ output[i] = Arrived("capture")[i]
  <2>. SUFFICES ASSUME NEW i \in 1..Len(output)
                PROVE  i \in DOMAIN Arrived("capture") /\ output[i] = Arrived("capture")[i]
    OBVIOUS
  <2>1. i \in DOMAIN sink["capture"]
    BY <1>2, <1>3
  <2>2. /\ i \in DOMAIN (sink["capture"] \o held["capture"])
        /\ (sink["capture"] \o held["capture"])[i] = sink["capture"][i]
    BY <1>2, <2>1, Prefix
  <2>. QED
    BY <1>3, <2>2 DEF Arrived
<1>5. \A i \in 1..Len(output) : output[i] \in Range(Arrived("capture"))
  BY <1>4 DEF Range
<1>6. Ordered(output)
  <2>1. Ordered(Arrived("capture"))
    BY <1>1 DEF InTurn
  <2>. QED
    BY <1>2, <1>4, <2>1 DEF Ordered
<1>7. \A i \in 1..Len(output) : output[i].end # "newline"
  <2>1. \A i \in 1..Len(output) : i \in DOMAIN sink["capture"]
    BY <1>2, <1>3
  <2>. QED
    BY <1>3, <2>1 DEF Lines, NoNewline
<1>. QED
  BY <1>2, <1>4, <1>5, <1>6, <1>7

LEMMA OutputFollows ==
  ASSUME OutputInv
  PROVE  OutputIsTrue
<1>. USE DEF OutputInv
<1>. DEFINE a == Arrived("capture")
<1>1. "capture" \in Pipes
  BY DEF Pipes
<1>2. /\ output \in Seq(Chunks) /\ Ordered(output) /\ DOMAIN output = 1..Len(output)
      /\ \A i \in 1..Len(output) : /\ i \in DOMAIN a /\ output[i] = a[i] /\ output[i] \in Range(a)
                                   /\ output[i].end # "newline"
  BY OutputIs
<1>3. /\ a \in Seq(Chunks) /\ DOMAIN a = 1..Len(a) /\ Len(a) \in Nat /\ Len(output) \in Nat
      /\ Ordered(a)
  BY <1>1, <1>2, ArrivedIs DEF InTurn
<1>4. NilMeansWholeOutput
  <2>. SUFFICES ASSUME returned = "ok", mode # "default", ~lost PROVE WholeOutput
    BY DEF NilMeansWholeOutput
  <2>1. main = "returned" /\ outcome = "ok" /\ reader["capture"] = "ended"
    BY <1>1 DEF Fun
  <2>2. Len(output) = Len(sink["capture"]) /\ \A i \in 1..Len(output) : output[i] = sink["capture"][i]
    <3>1. sink["capture"] \in Seq(Chunks) /\ Len(sink["capture"]) \in Nat
      BY <1>1 DEF OutputTyped
    <3>. QED
      BY <1>3, <2>1, <3>1 DEF Captured
  <2>3. output = sink["capture"]
    <3>1. sink["capture"] \in Seq(Chunks)
      BY <1>1 DEF OutputTyped
    <3>. QED
      BY <1>2, <2>2, <3>1, SeqEqual
  <2>4. \A s \in Streams : Of(s, Range(output)) = Due(s)
    <3>1. Texts(Range(output)) = Range(output)
      BY <1>2 DEF Texts, Range
    <3>. QED
      BY <2>3, <3>1, DueHasArrived
  <2>5. \A s \in Streams : Ordered(sink[s]) /\ Texts(Range(sink[s])) = Due(s)
    BY DueHasArrived
  <2>. QED
    BY <1>2, <2>4, <2>5 DEF WholeOutput
<1>. HIDE DEF a
<1>5. OutputInOrder
  <2>. SUFFICES ASSUME ~lost, NEW s \in Streams, NEW c \in Of(s, Range(output))
                PROVE  c \in Due(s) /\ \A d \in Due(s) : d.n < c.n => d \in Range(output)
    BY <1>2 DEF OutputInOrder
  <2>1. PICK i \in 1..Len(output) : c = output[i] /\ c = a[i] /\ i \in DOMAIN a /\ c.stream = s
    BY <1>2 DEF Of, Range
  <2>2. c \in Range(a)
    BY <1>2, <2>1
  <2>3. /\ c \in Range(produced) /\ Passed(c) /\ c.end # "newline"
        /\ \A d \in Texts(Range(produced)) :
             d.stream = c.stream /\ d.n < c.n /\ Passed(d) => d \in Range(a)
    BY <1>1, <1>2, <2>1, <2>2 DEF FromCommand, NoGaps, a
  <2>4. ASSUME NEW d \in Due(s), d.n < c.n PROVE d \in Range(output)
    <3>1. d \in Texts(Range(produced)) /\ d \in Range(produced) /\ d.stream = s /\ Passed(d)
      BY <2>4 DEF Due, Of, Texts
    <3>2. PICK j \in DOMAIN a : d = a[j]
      BY <2>1, <2>3, <2>4, <3>1 DEF Range
    <3>3. d.n \in Nat /\ c.n \in Nat
      BY <2>3, <3>1, ProducedIs
    <3>4. ~(i < j) /\ i # j
      BY <1>3, <2>1, <2>4, <3>1, <3>2, <3>3 DEF Ordered
    <3>5. j \in 1..Len(output)
      BY <1>3, <2>1, <3>2, <3>4
    <3>6. output[j] = d
      BY <1>2, <3>2, <3>5
    <3>. QED
      BY <1>2, <3>5, <3>6 DEF Range
  <2>. QED
    BY <2>1, <2>3, <2>4 DEF Due, Of, Texts
<1>6. HostKeepsEarlierScripts
  <2>. SUFFICES ASSUME returned # "none", mode = "host", NEW c \in Texts(Range(produced)),
                       c.command < command
                PROVE  \E j \in 1..Len(output) : output[j] = c
    BY <1>2 DEF HostKeepsEarlierScripts, Range
  <2>1. main = "returned"
    BY DEF Fun
  <2>2. PICK j \in 1..before : j \in DOMAIN sink["capture"] /\ sink["capture"][j] = c
    BY DEF Captured
  <2>3. sink["capture"] \in Seq(Chunks) /\ Len(sink["capture"]) \in Nat
        /\ DOMAIN sink["capture"] = 1..Len(sink["capture"]) /\ before \in Nat
    BY <1>1 DEF OutputTyped
  <2>4. /\ Len(output) <= Len(sink["capture"])
        /\ \A k \in 1..Len(output) : output[k] = sink["capture"][k]
        /\ Len(output) < Len(sink["capture"]) => Len(output) >= before
    BY <2>1 DEF Captured, Visible
  <2>5. j \in 1..Len(output)
    BY <1>3, <2>2, <2>3, <2>4
  <2>. QED
    BY <2>2, <2>4, <2>5
<1>. QED
  BY <1>4, <1>5, <1>6 DEF OutputIsTrue

LEMMA NobodyFollows ==
  ASSUME OutputInv
  PROVE  NobodyLeftBehind
<1>. SUFFICES ASSUME returned = "ok"
              PROVE  /\ \A p \in Pipes : reader[p] = "ended"
                     /\ mode # "default" => \A w \in Writers : ~Writing(w)
  BY DEF NobodyLeftBehind
<1>1. main = "returned" /\ outcome = "ok"
  BY DEF OutputInv, Fun
<1>2. (\A p \in Pipes : reader[p] = "ended") /\ (mode # "default" => Quiet)
  BY <1>1 DEF OutputInv, Fun, Late
<1>. QED
  BY <1>2 DEF Quiet, Writing

\* What the log and a placeholder get is the text that the commands wrote: whatever is
\* cancelled, fails or breaks, in order and without gaps; whole when the function
\* returns nil; and up to the failing script on the host.  Of newlines it promises
\* nothing: the scanners drop empty lines, and the placeholder gets no newline at all.
THEOREM TheOutputIsTrue == OutputSpec => []OutputIsTrue
<1>1. OutputInv => OutputIsTrue
  BY OutputFollows
<1>. QED
  BY <1>1, OutputInvariance, PTL

\* A nil result of RunInContainer or RunOnHost leaves no reader behind, and with
\* commands of their own no writer that still copies.
THEOREM NobodyIsLeftBehind == OutputSpec => []NobodyLeftBehind
<1>1. OutputInv => NobodyLeftBehind
  BY NobodyFollows
<1>. QED
  BY <1>1, OutputInvariance, PTL
-----------------------------------------------------------------------------
(* ContainerRun.                                                           *)

\* Where runs and handlers are, and how far Destroy is.
Places == {"idle", "lookup", "orphans", "create", "start", "volumes", "actions", "init",
           "reapply", "ready", "exec", "closing", "done"}
Handlers == {"none", "armed", "fired", "gone"}
Stages == {"off", "nets", "list", "remove"}

Typed ==
  /\ set \in [Runs -> Setting]
  /\ made \in Seq(Runs)
  /\ live \subseteq Containers /\ networks \subseteq Containers
  /\ pc \in [Runs -> Places]
  /\ found \in [Runs -> Nat] /\ cont \in [Runs -> Nat]
  /\ destroy \in [Runs -> [Actors -> Stages]]
  /\ target \in [Runs -> [Actors -> Nat]]
  /\ handler \in [Runs -> Handlers]
  /\ cancelled \in [Procs -> BOOLEAN]
  /\ cleanupFailed \in BOOLEAN /\ overlapped \in BOOLEAN

\* Who calls Destroy, and when; what it is about to remove has its RunID.
Destroys(r) ==
  /\ destroy[r]["main"] # "off" => pc[r] \in {"orphans", "closing"} /\ Cleans(r)
  /\ destroy[r]["signal"] # "off" => handler[r] = "fired"
  /\ handler[r] # "none" => ~set[r].reuse /\ pc[r] \in {"exec", "closing", "done"}
  /\ \A a \in Actors : destroy[r][a] = "remove" =>
       target[r][a] \in Containers /\ RunID(made[target[r][a]]) = RunID(r)

\* A run creates its container at most once, and keeps that one unless it reuses another.
Owns(r) ==
  /\ pc[r] \in {"idle", "lookup", "orphans", "create", "reapply"} =>
       \A c \in Containers : made[c] # r
  /\ \/ pc[r] \in {"start", "volumes", "actions", "init"}
     \/ ~set[r].reuse /\ pc[r] \in {"ready", "exec", "closing"}
     \/ handler[r] # "none"
     => cont[r] \in Containers /\ made[cont[r]] = r
  /\ pc[r] = "reapply" => set[r].reuse
  /\ pc[r] \in {"ready", "exec"} => cont[r] \in Containers

MadeOnce == \A c, d \in Containers : made[c] = made[d] => c = d

\* The container stays from its creation to the end of the commands, under the condition of
\* NotRemovedUnderCommands.
Keeps(r) ==
  LET label == RunID(made[cont[r]]) IN
  /\ pc[r] \in {"start", "volumes", "actions", "init", "ready", "exec"}
  /\ \A s \in Runs \ {r} : RunID(s) = label => ~Cleans(s)
  /\ label = RunID(r) => handler[r] \in {"none", "armed"}
  => cont[r] \in live

\* The removal after the commands: first the network, then the container.
Removes(r) ==
  RemovesOwn(r) /\ Alone(r) /\ ~cancelled[Proc(r)] /\ ~cleanupFailed =>
    /\ pc[r] = "closing" /\ destroy[r]["main"] # "nets" => cont[r] \notin networks
    /\ pc[r] = "closing" /\ destroy[r]["main"] = "off" => cont[r] \notin live
    /\ pc[r] = "done" /\ handler[r] # "none" => cont[r] \notin live \cup networks

\* All runs of a RunID clean up first.
AllClean(id) == \A r \in Runs : RunID(r) = id => Cleans(r)
Active(r) == pc[r] \notin {"idle", "done"}

\* A run that cleans up first comes to create a container only after it has removed the one
\* that the last run may have left, and its network.
Cleaned(r) ==
  LET left == live \cap Labelled(RunID(r)) IN
  /\ pc[r] = "create" \/ (pc[r] = "orphans" /\ destroy[r]["main"] = "off") =>
       Dead(r) \/ left = {}
  /\ pc[r] = "orphans" /\ destroy[r]["main"] = "remove" => left \subseteq {target[r]["main"]}
  /\ \/ pc[r] = "orphans" /\ destroy[r]["main"] # "nets"
     \/ pc[r] \in {"create", "start", "volumes", "actions"}
     => networks \cap Labelled(RunID(r)) = {}

\* Runs of the RunID follow each other, and leave one container and one network at most.
OneLeft(id) ==
  /\ \A r, s \in Runs : RunID(r) = id /\ RunID(s) = id /\ Active(r) /\ Active(s) => r = s
  /\ \A c, d \in live \cap Labelled(id) : c = d
  /\ \A c, d \in networks \cap Labelled(id) : c = d
  /\ \A r \in Runs : RunID(r) = id => Cleaned(r)

Leftovers ==
  ~overlapped /\ ~cleanupFailed => \A id \in RunIDs : AllClean(id) => OneLeft(id)

RunInv == \A r \in Runs : Destroys(r) /\ Owns(r) /\ Keeps(r) /\ Removes(r)

Inv == Typed /\ MadeOnce /\ RunInv /\ Leftovers
-----------------------------------------------------------------------------
USE ConstantsAssumption DEF None, Actors, Goto

\* The daemon lists a container first that it has.
LEMMA NewestIsOne ==
  ASSUME NEW n \in Nat, NEW C \in SUBSET (1..n), C # {}
  PROVE  Newest(C) \in C
<1> DEFINE D == {n - c : c \in C}
<1>0. \A c \in C : c \in Nat /\ n - c \in Nat
  OBVIOUS
<1>1. D \subseteq Nat /\ D # {}
  BY <1>0
<1>2. PICK x \in D : \A y \in D : ~ (<<y, x>> \in OpToRel(<, Nat))
  BY <1>1, WFMin, NatLessThanWellFounded
<1>3. \A y \in D : ~ (y < x)
  BY <1>1, <1>2 DEF OpToRel
<1>4. PICK c \in C : x = n - c
  BY <1>2
<1>5. \A d \in C : d <= c
  <2> SUFFICES ASSUME NEW d \in C PROVE d <= c
    OBVIOUS
  <2>1. n - d \in D /\ ~(n - d < n - c)
    BY <1>3, <1>4
  <2>2. c \in Nat /\ d \in Nat
    BY <1>0
  <2> QED BY <2>1, <2>2
<1> QED BY <1>5 DEF Newest

\* What a call of Destroy does to the stages it may be at.
LEMMA StageTyped ==
  ASSUME NEW f \in [Runs -> [Actors -> Stages]], NEW r \in Runs, NEW a \in Actors, NEW s \in Stages
  PROVE  /\ [f EXCEPT ![r][a] = s] \in [Runs -> [Actors -> Stages]]
         /\ [f EXCEPT ![r][a] = s][r][a] = s
         /\ \A b \in Actors \ {a} : [f EXCEPT ![r][a] = s][r][b] = f[r][b]
         /\ \A q \in Runs \ {r} : [f EXCEPT ![r][a] = s][q] = f[q]
OBVIOUS

\* Nothing changes for a run: not its own state, and others remove nothing of its containers.
LEMMA Untouched ==
  ASSUME Inv, NEW q \in Runs, UNCHANGED <<set, made>>, live' \subseteq live,
         networks' \subseteq networks,
         pc'[q] = pc[q], cont'[q] = cont[q], destroy'[q] = destroy[q], target'[q] = target[q],
         handler'[q] = handler[q], cancelled[Proc(q)] => cancelled'[Proc(q)],
         cleanupFailed => cleanupFailed'
  PROVE  /\ (Destroys(q) /\ Owns(q) /\ Removes(q))'
         /\ live' = live => Keeps(q)'
<1>1. Destroys(q)'
  BY DEF Inv, RunInv, Destroys, Cleans, Containers, RunID
<1>2. Owns(q)'
  BY DEF Inv, RunInv, Owns, Containers
<1>3. Removes(q)'
  BY DEF Inv, RunInv, Removes, RemovesOwn, Alone, RunID, Proc
<1>4. live' = live => Keeps(q)'
  BY DEF Inv, RunInv, Keeps, RunID, Cleans
<1> QED BY <1>1, <1>2, <1>3, <1>4

\* Runs of which r is the only one that moves leave no more than before.
LEMMA NoMoreLeft ==
  ASSUME Inv, NEW r \in Runs, UNCHANGED <<set, made>>, live' \subseteq live,
         networks' \subseteq networks, overlapped => overlapped', cleanupFailed => cleanupFailed',
         \A p \in Procs : cancelled[p] => cancelled'[p],
         \A q \in Runs \ {r} : /\ pc'[q] = pc[q]
                               /\ destroy'[q]["main"] = destroy[q]["main"]
                               /\ target'[q]["main"] = target[q]["main"],
         Active(r)' /\ ~overlapped' =>
           Active(r) \/ \A s \in Runs \ {r} : RunID(s) = RunID(r) => ~Active(s),
         AllClean(RunID(r)) /\ OneLeft(RunID(r)) /\ ~overlapped' /\ ~cleanupFailed' => Cleaned(r)'
  PROVE  Leftovers'
<1> SUFFICES ASSUME ~overlapped', ~cleanupFailed', NEW id \in RunIDs, AllClean(id)'
             PROVE  OneLeft(id)'
  BY DEF Leftovers
<1>1. AllClean(id) /\ OneLeft(id)
  BY DEF Inv, Leftovers, AllClean, RunID, Cleans, Typed
<1>2. \A q \in Runs : RunID(q)' = RunID(q) /\ (Labelled(RunID(q)))' = Labelled(RunID(q))
  BY DEF RunID, Labelled, Containers
<1>3. Labelled(id)' = Labelled(id)
  BY DEF RunID, Labelled, Containers
<1>4. \A q, s \in Runs : (RunID(q) = id /\ RunID(s) = id /\ Active(q) /\ Active(s))' => q = s
  BY <1>1, <1>2 DEF OneLeft, Active
<1>5. ASSUME NEW q \in Runs, RunID(q) = id PROVE Cleaned(q)'
  <2>1. CASE q = r
    BY <1>1, <1>5, <2>1
  <2>2. CASE q # r
    <3>1. Cleaned(q) /\ Proc(q) \in Procs /\ Proc(q)' = Proc(q)
      BY <1>1, <1>5 DEF OneLeft, Inv, Typed, Setting, Proc
    <3>2. Dead(q) => Dead(q)'
      BY <3>1 DEF Dead
    <3> QED BY <1>2, <2>2, <3>1, <3>2 DEF Cleaned
  <2> QED BY <2>1, <2>2
<1> QED BY <1>1, <1>2, <1>3, <1>4, <1>5 DEF OneLeft

\* Steps that change nothing but where the run is.
LEMMA MoveKeeps ==
  ASSUME Inv, NEW r \in Runs, NEW w,
         UNCHANGED <<set, made, live, networks, cont, destroy, target, handler, cancelled,
                     cleanupFailed, overlapped>>,
         found' \in [Runs -> Nat], Goto(r, w),
         \/ pc[r] = "lookup" /\ w = "create" /\ ~Cleans(r)
         \/ pc[r] = "lookup" /\ w = "reapply" /\ set[r].reuse
         \/ pc[r] = "orphans" /\ destroy[r]["main"] = "off" /\ w = "create"
         \/ pc[r] = "orphans" /\ destroy[r]["main"] = "off" /\ w = "reapply" /\ set[r].reuse
         \/ pc[r] = "start" /\ w = "volumes"
         \/ pc[r] = "volumes" /\ w = "actions"
         \/ pc[r] = "init" /\ w = "ready"
         \/ pc[r] \in {"create", "start", "volumes", "init", "reapply"} /\ w = "done"
         \/ pc[r] = "exec" /\ w = "done" /\ ~RemovesOwn(r)
         \/ pc[r] = "closing" /\ w = "done" /\ destroy[r]["main"] = "off"
  PROVE  Inv'
<1>1. /\ pc \in [Runs -> Places] /\ pc' = [pc EXCEPT ![r] = w]
      /\ pc'[r] = w /\ \A q \in Runs \ {r} : pc'[q] = pc[q]
  BY DEF Inv, Typed
<1>2. /\ Destroys(r) /\ Owns(r) /\ Keeps(r) /\ Removes(r)
      /\ UNCHANGED <<Containers, RemovesOwn(r), Alone(r), Proc(r), RunID(r), Cleans(r)>>
  BY DEF Inv, RunInv, Containers, RemovesOwn, Alone, Proc, RunID, Cleans
<1>3. Typed'
  BY <1>1 DEF Inv, Typed, Containers, Places
<1>4. MadeOnce'
  BY DEF Inv, MadeOnce, Containers
<1>5. Destroys(r)'
  BY <1>1, <1>2 DEF Destroys, RunID, RemovesOwn, Cleans
<1>6. Owns(r)'
  BY <1>1, <1>2 DEF Owns, Destroys, Cleans
<1>7. Keeps(r)'
  BY <1>1, <1>2 DEF Keeps, Owns, RunID, Cleans
<1>8. Removes(r)'
  BY <1>1, <1>2 DEF Removes, Destroys
<1>9. ASSUME NEW q \in Runs \ {r} PROVE (Destroys(q) /\ Owns(q) /\ Keeps(q) /\ Removes(q))'
  BY <1>1, <1>9, Untouched
<1>10. Leftovers'
  <2>1. ASSUME AllClean(RunID(r)), OneLeft(RunID(r)) PROVE Cleaned(r)'
    BY <1>1, <1>2, <2>1 DEF AllClean, OneLeft, Cleaned, Labelled, Containers, RunID, Dead, Proc
  <2>2. Active(r)' => Active(r)
    BY <1>1 DEF Active
  <2> QED BY <1>1, <2>1, <2>2, NoMoreLeft
<1> QED BY <1>3, <1>4, <1>5, <1>6, <1>7, <1>8, <1>9, <1>10 DEF Inv, RunInv

\* Steps with which a run begins to call Destroy.
LEMMA StartDestroyKeeps ==
  ASSUME Inv, NEW r \in Runs, NEW w,
         UNCHANGED <<set, made, live, networks, cont, target, handler, cancelled,
                     cleanupFailed, overlapped>>,
         found' \in [Runs -> Nat], Goto(r, w), StartDestroy(r, "main"),
         \/ pc[r] = "lookup" /\ w = "orphans" /\ Cleans(r)
         \/ pc[r] = "exec" /\ w = "closing" /\ RemovesOwn(r)
  PROVE  Inv'
<1>1. /\ pc \in [Runs -> Places] /\ pc' = [pc EXCEPT ![r] = w]
      /\ pc'[r] = w /\ \A q \in Runs \ {r} : pc'[q] = pc[q]
  BY DEF Inv, Typed
<1>2. /\ Destroys(r) /\ Owns(r) /\ Keeps(r) /\ Removes(r)
      /\ UNCHANGED <<Containers, RemovesOwn(r), Alone(r), Proc(r), RunID(r), Cleans(r)>>
  BY DEF Inv, RunInv, Containers, RemovesOwn, Alone, Proc, RunID, Cleans
<1>3. /\ destroy' \in [Runs -> [Actors -> Stages]] /\ destroy'[r]["main"] = "nets"
      /\ destroy'[r]["signal"] = destroy[r]["signal"]
      /\ \A q \in Runs \ {r} : destroy'[q] = destroy[q]
  BY StageTyped DEF Inv, Typed, StartDestroy, Stages
<1>4. Typed'
  BY <1>1, <1>3 DEF Inv, Typed, Containers, Places
<1>5. MadeOnce'
  BY DEF Inv, MadeOnce, Containers
<1>6. Destroys(r)'
  BY <1>1, <1>2, <1>3 DEF Destroys, RunID, RemovesOwn, Cleans
<1>7. Owns(r)'
  BY <1>1, <1>2 DEF Owns, Destroys, Cleans, RemovesOwn
<1>8. Keeps(r)'
  BY <1>1, <1>2 DEF Keeps
<1>9. Removes(r)'
  BY <1>1, <1>2, <1>3 DEF Removes
<1>10. ASSUME NEW q \in Runs \ {r} PROVE (Destroys(q) /\ Owns(q) /\ Keeps(q) /\ Removes(q))'
  BY <1>1, <1>3, <1>10, Untouched
<1>11. Leftovers'
  <2>1. Cleaned(r)'
    BY <1>1, <1>3 DEF Cleaned
  <2>2. Active(r)' => Active(r)
    BY <1>1 DEF Active
  <2> QED BY <1>1, <1>3, <2>1, <2>2, NoMoreLeft
<1> QED BY <1>4, <1>5, <1>6, <1>7, <1>8, <1>9, <1>10, <1>11 DEF Inv, RunInv

LEMMA BeginKeeps ==
  ASSUME Inv, NEW r \in Runs, Begin(r)
  PROVE  Inv'
<1>1. /\ UNCHANGED <<set, made, live, networks, cont, destroy, target, handler, cancelled,
                     cleanupFailed, found>>
      /\ pc \in [Runs -> Places] /\ pc' = [pc EXCEPT ![r] = "lookup"] /\ pc[r] = "idle"
      /\ pc'[r] = "lookup" /\ \A q \in Runs \ {r} : pc'[q] = pc[q]
      /\ overlapped' = (overlapped \/ \E s \in Runs : RunID(s) = RunID(r) /\ UnderWay(s))
  BY DEF Inv, Typed, Begin, daemon, destroyVars, procVars
<1>2. Destroys(r) /\ Owns(r) /\ UNCHANGED <<Containers, RunID(r)>>
  BY <1>1 DEF Inv, RunInv, Containers, RunID
<1>3. Typed'
  BY <1>1 DEF Inv, Typed, Containers, Places
<1>4. MadeOnce'
  BY <1>1 DEF Inv, MadeOnce, Containers
<1>5. Destroys(r)'
  BY <1>1, <1>2 DEF Destroys, RunID, Cleans
<1>6. Owns(r)'
  BY <1>1, <1>2 DEF Owns, Destroys
<1>7. Keeps(r)' /\ Removes(r)'
  BY <1>1 DEF Keeps, Removes
<1>8. ASSUME NEW q \in Runs \ {r} PROVE (Destroys(q) /\ Owns(q) /\ Keeps(q) /\ Removes(q))'
  BY <1>1, <1>8, Untouched
<1>9. Leftovers'
  <2>1. Cleaned(r)'
    BY <1>1 DEF Cleaned
  <2>2. ASSUME ~overlapped', NEW s \in Runs, RunID(s) = RunID(r) PROVE ~Active(s)
    BY <1>1, <2>2 DEF Active, UnderWay
  <2>3. overlapped => overlapped'
    BY <1>1
  <2> QED BY <1>1, <2>1, <2>2, <2>3, NoMoreLeft
<1> QED BY <1>3, <1>4, <1>5, <1>6, <1>7, <1>8, <1>9 DEF Inv, RunInv

LEMMA LookUpKeeps ==
  ASSUME Inv, NEW r \in Runs, LookUp(r)
  PROVE  Inv'
<1> DEFINE C == live \cap WithHash(set[r].hash)
<1>1. C # {} => Newest(C) \in Nat
  <2>1. Len(made) \in Nat /\ live \subseteq 1..Len(made)
    BY DEF Inv, Typed, Containers
  <2>2. ASSUME C # {} PROVE Newest(C) \in Nat
    <3>1. C \in SUBSET (1..Len(made))
      BY <2>1
    <3>2. Newest(C) \in C
      BY <2>1, <2>2, <3>1, NewestIsOne
    <3>3. \A c \in 1..Len(made) : c \in Nat
      BY <2>1
    <3> HIDE DEF C
    <3> QED BY <3>1, <3>2, <3>3
  <2> QED BY <2>2
<1>2. \/ found' = [found EXCEPT ![r] = IF C = {} THEN None ELSE Newest(C)]
      \/ found' = [found EXCEPT ![r] = None]
  BY DEF LookUp
<1>3. found' \in [Runs -> Nat]
  <2>1. PICK n \in Nat : found' = [found EXCEPT ![r] = n]
    BY <1>1, <1>2
  <2> QED BY <2>1 DEF Inv, Typed
<1>4. /\ pc[r] = "lookup"
      /\ UNCHANGED <<set, made, live, networks, cont, target, handler, cancelled,
                     cleanupFailed, overlapped>>
  BY DEF LookUp, daemon, procVars
<1>5. CASE Cleans(r)
  BY <1>3, <1>4, <1>5, StartDestroyKeeps DEF LookUp
<1>6. CASE ~Cleans(r)
  BY <1>3, <1>4, <1>6, MoveKeeps DEF LookUp, Next1, Cleans
<1> QED BY <1>5, <1>6

LEMMA OrphansRemovedKeeps ==
  ASSUME Inv, NEW r \in Runs, OrphansRemoved(r)
  PROVE  Inv'
BY MoveKeeps DEF Inv, Typed, OrphansRemoved, Next1, daemon, destroyVars, procVars, history

LEMMA StartContainerKeeps ==
  ASSUME Inv, NEW r \in Runs, StartContainer(r)
  PROVE  Inv'
<1>1. /\ pc[r] = "start" /\ found' \in [Runs -> Nat]
      /\ UNCHANGED <<set, made, live, networks, cont, destroy, target, handler, cancelled,
                     cleanupFailed, overlapped>>
      /\ Goto(r, "volumes") \/ Goto(r, "done")
  BY DEF Inv, Typed, StartContainer, Fail, destroyVars, procVars
<1> QED BY <1>1, MoveKeeps

LEMMA PrepareKeeps ==
  ASSUME Inv, NEW r \in Runs, Prepare(r)
  PROVE  Inv'
<1>1. /\ found' \in [Runs -> Nat]
      /\ UNCHANGED <<set, made, live, networks, cont, destroy, target, handler, cancelled,
                     cleanupFailed, overlapped>>
      /\ \/ pc[r] = "volumes" /\ (Goto(r, "actions") \/ Goto(r, "done"))
         \/ pc[r] = "init" /\ (Goto(r, "ready") \/ Goto(r, "done"))
  BY DEF Inv, Typed, Prepare, PrepareSteps, Fail, daemon, destroyVars, procVars
<1> QED BY <1>1, MoveKeeps

LEMMA ExecuteKeeps ==
  ASSUME Inv, NEW r \in Runs, Execute(r)
  PROVE  Inv'
<1>1. /\ pc[r] = "exec" /\ found' \in [Runs -> Nat]
      /\ UNCHANGED <<set, made, live, networks, cont, target, handler, cancelled,
                     cleanupFailed, overlapped>>
      /\ \/ RemovesOwn(r) /\ Goto(r, "closing") /\ StartDestroy(r, "main")
         \/ ~RemovesOwn(r) /\ Goto(r, "done") /\ UNCHANGED destroy
  BY DEF Inv, Typed, Execute, daemon, procVars, history
<1> QED BY <1>1, MoveKeeps, StartDestroyKeeps

LEMMA ClosedKeeps ==
  ASSUME Inv, NEW r \in Runs, Closed(r)
  PROVE  Inv'
BY MoveKeeps DEF Inv, Typed, Closed, daemon, destroyVars, procVars, history

LEMMA CreateKeeps ==
  ASSUME Inv, NEW r \in Runs, Create(r)
  PROVE  Inv'
<1> USE DEF Containers
<1>0. UNCHANGED <<set, networks, found, destroy, target, handler, cancelled, cleanupFailed,
                  overlapped>>
  BY DEF Create, destroyVars, procVars
<1>1. CASE Fail(r) /\ UNCHANGED <<made, live, cont>>
  BY <1>0, <1>1, MoveKeeps DEF Inv, Typed, Create, Fail
<1>2. CASE /\ ~Dead(r) /\ made' = Append(made, r) /\ live' = live \cup {Len(made')}
           /\ cont' = [cont EXCEPT ![r] = Len(made')] /\ Goto(r, "start")
  <2> DEFINE n == Len(made) + 1
  <2>1. /\ n \in Nat /\ Len(made') = n /\ made' \in Seq(Runs)
        /\ \A c \in 1..Len(made) : made'[c] = made[c] /\ made[c] \in Runs
        /\ made'[n] = r
        /\ Containers = 1..Len(made) /\ Containers' = Containers \cup {n} /\ n \notin Containers
    BY <1>2 DEF Inv, Typed
  <2> HIDE DEF n
  <2>2. /\ pc[r] = "create" /\ pc'[r] = "start" /\ pc' \in [Runs -> Places]
        /\ cont'[r] = n /\ cont' \in [Runs -> Nat] /\ live' = live \cup {n}
        /\ \A q \in Runs \ {r} : pc'[q] = pc[q] /\ cont'[q] = cont[q]
    BY <1>2, <2>1 DEF Inv, Typed, Create, Places
  <2>3. /\ Destroys(r) /\ Owns(r) /\ live \subseteq Containers /\ networks \subseteq Containers
        /\ \A q \in Runs : UNCHANGED <<RemovesOwn(q), Alone(q), Proc(q), RunID(q), Cleans(q)>>
    BY <1>0 DEF Inv, Typed, RunInv, RemovesOwn, Alone, Proc, RunID, Cleans
  <2>4. Typed'
    BY <1>0, <2>1, <2>2, <2>3 DEF Inv, Typed
  <2>5. MadeOnce'
    <3>1. \A c \in Containers : made'[c] = made[c] /\ made[c] # r
      BY <2>1, <2>2, <2>3 DEF Owns
    <3>2. ASSUME NEW c \in Containers', NEW d \in Containers', made'[c] = made'[d] PROVE c = d
      <4> HIDE DEF Containers
      <4> QED BY <2>1, <3>1, <3>2 DEF Inv, MadeOnce
    <3> HIDE DEF Containers
    <3> QED BY <3>2 DEF MadeOnce
  <2>6. (Destroys(r) /\ Owns(r) /\ Keeps(r) /\ Removes(r))'
    BY <1>0, <2>1, <2>2, <2>3 DEF Destroys, Owns, Keeps, Removes
  <2>7. ASSUME NEW q \in Runs \ {r} PROVE (Destroys(q) /\ Owns(q) /\ Keeps(q) /\ Removes(q))'
    <3>1. Destroys(q) /\ Owns(q) /\ Keeps(q) /\ Removes(q)
      BY DEF Inv, RunInv
    <3>2. Destroys(q)'
      BY <1>0, <2>1, <2>2, <2>3, <3>1 DEF Destroys
    <3>3. Owns(q)'
      <4>1. /\ \A c \in Containers : made'[c] = made[c]
            /\ made'[n] = r /\ q # r /\ Containers' = Containers \cup {n}
        BY <2>1
      <4>2. UNCHANGED <<pc[q], cont[q], set, handler[q]>>
        BY <1>0, <2>2
      <4> HIDE DEF Containers
      <4> QED BY <3>1, <4>1, <4>2 DEF Owns
    <3>4. Keeps(q)'
      BY <1>0, <2>1, <2>2, <2>3, <3>1 DEF Keeps, Owns, Destroys
    <3>5. Removes(q)'
      BY <1>0, <2>1, <2>2, <2>3, <3>1 DEF Removes, Owns, RemovesOwn
    <3> QED BY <3>2, <3>3, <3>4, <3>5
  <2>8. Leftovers'
    <3> SUFFICES ASSUME ~overlapped', ~cleanupFailed', NEW id \in RunIDs, AllClean(id)'
                 PROVE  OneLeft(id)'
      BY DEF Leftovers
    <3>1. AllClean(id) /\ OneLeft(id)
      BY <1>0, <2>3 DEF Inv, Leftovers, AllClean
    <3>2. /\ \A c \in Containers : c \in Labelled(id)' <=> c \in Labelled(id)
          /\ n \in Labelled(id)' <=> RunID(r) = id
      BY <2>1, <2>3 DEF Labelled
    <3>3. \A q, s \in Runs : (RunID(q) = id /\ RunID(s) = id /\ Active(q) /\ Active(s))' => q = s
      BY <2>2, <2>3, <3>1 DEF OneLeft, Active
    <3>4. /\ \A c, d \in (networks \cap Labelled(id))' : c = d
          /\ networks \cap Labelled(id) = {} => (networks \cap Labelled(id))' = {}
      BY <1>0, <2>3, <3>1, <3>2 DEF OneLeft
    <3>5. RunID(r) # id => (live \cap Labelled(id))' = live \cap Labelled(id)
      BY <2>2, <2>3, <3>2
    <3>6. RunID(r) = id => live \cap Labelled(id) = {} /\ (live \cap Labelled(id))' = {n}
      BY <1>2, <2>1, <2>2, <2>3, <3>1, <3>2 DEF OneLeft, Cleaned
    <3>7. \A c, d \in (live \cap Labelled(id))' : c = d
      BY <3>1, <3>5, <3>6 DEF OneLeft
    <3>8. ASSUME NEW q \in Runs, RunID(q) = id PROVE Cleaned(q)'
      <4>1. Cleaned(q) /\ RunID(q)' = id
        BY <2>3, <3>1, <3>8 DEF OneLeft
      <4>2. CASE q = r
        BY <2>2, <3>4, <3>8, <4>1, <4>2 DEF Cleaned
      <4>3. CASE q # r /\ RunID(r) = id
        <5>1. ~Active(q)
          BY <2>2, <3>1, <3>8, <4>3 DEF OneLeft, Active
        <5> QED BY <2>2, <4>3, <5>1 DEF Active, Cleaned
      <4>4. CASE q # r /\ RunID(r) # id
        <5>1. Dead(q)' = Dead(q)
          BY <1>0, <2>3 DEF Dead
        <5> QED BY <1>0, <2>2, <3>4, <3>5, <3>8, <4>1, <4>4, <5>1 DEF Cleaned
      <4> QED BY <4>2, <4>3, <4>4
    <3> QED BY <2>3, <3>3, <3>4, <3>7, <3>8 DEF OneLeft
  <2> QED BY <2>4, <2>5, <2>6, <2>7, <2>8 DEF Inv, RunInv
<1> QED BY <1>1, <1>2 DEF Create

\* The network of a container is made by the run that has created the container.
LEMMA ExtraActionsKeeps ==
  ASSUME Inv, NEW r \in Runs, ExtraActions(r)
  PROVE  Inv'
<1>1. /\ UNCHANGED <<set, made, live, cont, found, destroy, target, handler, cancelled,
                     cleanupFailed, overlapped>>
      /\ networks \subseteq networks' /\ networks' \subseteq networks \cup {cont[r]}
  BY DEF ExtraActions, destroyVars, procVars
<1>2. /\ pc[r] = "actions" /\ pc'[r] = "init" /\ pc' \in [Runs -> Places]
      /\ \A q \in Runs \ {r} : pc'[q] = pc[q]
  BY DEF Inv, Typed, ExtraActions, Places
<1>3. /\ Destroys(r) /\ Owns(r) /\ Keeps(r)
      /\ cont[r] \in Containers /\ made[cont[r]] = r
      /\ UNCHANGED Containers
      /\ \A q \in Runs : UNCHANGED <<RemovesOwn(q), Alone(q), Proc(q), RunID(q), Cleans(q)>>
  BY <1>1, <1>2 DEF Inv, RunInv, Owns, Containers, RemovesOwn, Alone, Proc, RunID, Cleans
<1>4. Typed'
  BY <1>1, <1>2, <1>3 DEF Inv, Typed
<1>5. MadeOnce'
  BY <1>1, <1>3 DEF Inv, MadeOnce
<1>6. (Destroys(r) /\ Owns(r) /\ Keeps(r) /\ Removes(r))'
  BY <1>1, <1>2, <1>3 DEF Destroys, Owns, Keeps, Removes
<1>7. ASSUME NEW q \in Runs \ {r} PROVE (Destroys(q) /\ Owns(q) /\ Keeps(q) /\ Removes(q))'
  <2>1. Destroys(q) /\ Owns(q) /\ Keeps(q) /\ Removes(q)
    BY DEF Inv, RunInv
  <2>2. Destroys(q)'
    BY <1>1, <1>2, <2>1 DEF Destroys, Containers, RunID, Cleans
  <2>3. Owns(q)'
    BY <1>1, <1>2, <1>3, <2>1 DEF Owns
  <2>4. Keeps(q)'
    BY <1>1, <1>2, <2>1 DEF Keeps, RunID, Cleans
  <2>5. Removes(q)'
    BY <1>1, <1>2, <1>3, <2>1 DEF Removes, Owns, RemovesOwn
  <2> QED BY <2>2, <2>3, <2>4, <2>5
<1>8. Leftovers'
  <2> SUFFICES ASSUME ~overlapped', ~cleanupFailed', NEW id \in RunIDs, AllClean(id)'
               PROVE  OneLeft(id)'
    BY DEF Leftovers
  <2>1. AllClean(id) /\ OneLeft(id) /\ Labelled(id)' = Labelled(id)
    <3>1. AllClean(id)
      BY <1>3 DEF AllClean
    <3>2. OneLeft(id)
      BY <1>1, <3>1 DEF Inv, Leftovers
    <3>3. Labelled(id)' = Labelled(id)
      BY <1>1, <1>3 DEF Labelled, RunID
    <3> QED BY <3>1, <3>2, <3>3
  <2>2. \A q, s \in Runs : (RunID(q) = id /\ RunID(s) = id /\ Active(q) /\ Active(s))' => q = s
    BY <1>2, <1>3, <2>1 DEF OneLeft, Active
  <2>3. cont[r] \in Labelled(id) => RunID(r) = id
    BY <1>3 DEF Labelled
  <2>4. RunID(r) = id => networks \cap Labelled(id) = {}
    BY <1>2, <2>1 DEF OneLeft, Cleaned
  <2>5. \A c, d \in (networks \cap Labelled(id))' : c = d
    BY <1>1, <2>1, <2>3, <2>4 DEF OneLeft
  <2>6. \A c, d \in (live \cap Labelled(id))' : c = d
    BY <1>1, <2>1 DEF OneLeft
  <2>7. ASSUME NEW q \in Runs, RunID(q) = id PROVE Cleaned(q)'
    <3>1. Cleaned(q) /\ RunID(q)' = id
      BY <1>3, <2>1, <2>7 DEF OneLeft
    <3>2. CASE RunID(r) = id
      <4>1. q # r => ~Active(q)
        BY <1>2, <2>1, <2>7, <3>2 DEF OneLeft, Active
      <4> QED BY <1>2, <4>1 DEF Active, Cleaned
    <3>3. CASE RunID(r) # id
      <4>1. Dead(q)' = Dead(q) /\ q # r
        BY <1>1, <1>3, <2>7, <3>3 DEF Dead
      <4>2. (networks \cap Labelled(id))' = networks \cap Labelled(id)
        BY <1>1, <2>1, <2>3, <3>3
      <4> QED BY <1>1, <1>2, <2>1, <2>7, <3>1, <4>1, <4>2 DEF Cleaned
    <3> QED BY <3>2, <3>3
  <2> QED BY <1>3, <2>2, <2>5, <2>6, <2>7 DEF OneLeft
<1> QED BY <1>4, <1>5, <1>6, <1>7, <1>8 DEF Inv, RunInv

\* A container found by its hash becomes the run's.
LEMMA ReapplyKeeps ==
  ASSUME Inv, NEW r \in Runs, Reapply(r)
  PROVE  Inv'
<1>0. UNCHANGED <<set, made, live, networks, found, destroy, target, handler, cancelled,
                  cleanupFailed, overlapped>>
  BY DEF Reapply, daemon, destroyVars, procVars
<1>1. CASE Goto(r, "done") /\ UNCHANGED cont
  BY <1>0, <1>1, MoveKeeps DEF Inv, Typed, Reapply
<1>2. CASE /\ found[r] \in live /\ cont' = [cont EXCEPT ![r] = found[r]] /\ Goto(r, "ready")
  <2>1. /\ pc[r] = "reapply" /\ pc'[r] = "ready" /\ pc' \in [Runs -> Places]
        /\ cont'[r] = found[r] /\ cont' \in [Runs -> Nat]
        /\ \A q \in Runs \ {r} : pc'[q] = pc[q] /\ cont'[q] = cont[q]
    BY <1>2 DEF Inv, Typed, Reapply, Places
  <2>2. /\ Destroys(r) /\ Owns(r) /\ live \subseteq Containers
        /\ UNCHANGED <<Containers, RemovesOwn(r), RunID(r), Cleans(r)>>
    BY <1>0 DEF Inv, Typed, RunInv, Containers, RemovesOwn, RunID, Cleans
  <2>3. Typed'
    BY <1>0, <2>1, <2>2 DEF Inv, Typed
  <2>4. MadeOnce'
    BY <1>0, <2>2 DEF Inv, MadeOnce
  <2>5. Destroys(r)'
    BY <1>0, <2>1, <2>2 DEF Destroys
  <2>6. Owns(r)'
    BY <1>0, <1>2, <2>1, <2>2 DEF Owns, Destroys
  <2>7. Keeps(r)' /\ Removes(r)'
    BY <1>0, <1>2, <2>1, <2>2 DEF Keeps, Removes
  <2>8. ASSUME NEW q \in Runs \ {r} PROVE (Destroys(q) /\ Owns(q) /\ Keeps(q) /\ Removes(q))'
    BY <1>0, <2>1, <2>8, Untouched
  <2>9. Leftovers'
    <3>1. Cleaned(r)' /\ (Active(r)' => Active(r))
      BY <2>1 DEF Cleaned, Active
    <3> QED BY <1>0, <2>1, <3>1, NoMoreLeft
  <2> QED BY <2>3, <2>4, <2>5, <2>6, <2>7, <2>8, <2>9 DEF Inv, RunInv
<1> QED BY <1>1, <1>2 DEF Reapply, Fail

LEMMA ReadyKeeps ==
  ASSUME Inv, NEW r \in Runs, Ready(r)
  PROVE  Inv'
<1>1. UNCHANGED <<set, made, live, networks, found, cont, destroy, target, cancelled,
                  cleanupFailed, overlapped>>
  BY DEF Ready, daemon, destroyVars, history
<1>2. /\ pc[r] = "ready" /\ pc'[r] = "exec" /\ pc' \in [Runs -> Places]
      /\ handler' \in [Runs -> Handlers]
      /\ handler'[r] = handler[r] \/ (~set[r].reuse /\ handler'[r] = "armed")
      /\ \A q \in Runs \ {r} : pc'[q] = pc[q] /\ handler'[q] = handler[q]
  BY DEF Inv, Typed, Ready, Places, Handlers
<1>3. /\ Destroys(r) /\ Owns(r) /\ Keeps(r)
      /\ UNCHANGED <<Containers, RemovesOwn(r), RunID(r), Cleans(r)>>
  BY <1>1 DEF Inv, RunInv, Containers, RemovesOwn, RunID, Cleans
<1>4. Typed'
  BY <1>1, <1>2, <1>3 DEF Inv, Typed
<1>5. MadeOnce'
  BY <1>1, <1>3 DEF Inv, MadeOnce
<1>6. Destroys(r)'
  BY <1>1, <1>2, <1>3 DEF Destroys, RunID
<1>7. Owns(r)'
  BY <1>1, <1>2, <1>3 DEF Owns, Destroys
<1>8. Keeps(r)' /\ Removes(r)'
  BY <1>1, <1>2, <1>3 DEF Keeps, Removes, RunID, Cleans, Destroys
<1>9. ASSUME NEW q \in Runs \ {r} PROVE (Destroys(q) /\ Owns(q) /\ Keeps(q) /\ Removes(q))'
  BY <1>1, <1>2, <1>9, Untouched
<1>10. Leftovers'
  <2>1. Cleaned(r)' /\ (Active(r)' => Active(r))
    BY <1>2 DEF Cleaned, Active
  <2> QED BY <1>1, <1>2, <2>1, NoMoreLeft
<1> QED BY <1>4, <1>5, <1>6, <1>7, <1>8, <1>9, <1>10 DEF Inv, RunInv
-----------------------------------------------------------------------------
LEMMA CleanupNetworksKeeps ==
  ASSUME Inv, NEW r \in Runs, NEW a \in Actors, CleanupNetworks(r, a)
  PROVE  Inv'
<1>1. /\ UNCHANGED <<set, made, live, pc, found, cont, target, handler, cancelled, overlapped>>
      /\ \/ networks' = networks \ Labelled(RunID(r)) /\ UNCHANGED cleanupFailed
         \/ cleanupFailed' = TRUE /\ UNCHANGED networks
      /\ networks' \subseteq networks /\ (cleanupFailed => cleanupFailed')
      /\ cleanupFailed' \in BOOLEAN
      /\ destroy[r][a] = "nets"
  BY DEF Inv, Typed, CleanupNetworks, runVars, procVars
<1>2. /\ destroy' \in [Runs -> [Actors -> Stages]] /\ destroy'[r][a] = "list"
      /\ \A b \in Actors \ {a} : destroy'[r][b] = destroy[r][b]
      /\ \A q \in Runs \ {r} : destroy'[q] = destroy[q]
  BY StageTyped DEF Inv, Typed, CleanupNetworks, Stages
<1>3. /\ Destroys(r) /\ Owns(r) /\ Keeps(r) /\ Removes(r)
      /\ UNCHANGED <<Containers, RemovesOwn(r), Alone(r), Proc(r), RunID(r), Cleans(r)>>
  BY <1>1 DEF Inv, RunInv, Containers, RemovesOwn, Alone, Proc, RunID, Cleans
<1>4. Typed'
  BY <1>1, <1>2, <1>3 DEF Inv, Typed
<1>5. MadeOnce'
  BY <1>1, <1>3 DEF Inv, MadeOnce
<1>6. Destroys(r)'
  BY <1>1, <1>2, <1>3 DEF Destroys, RunID
<1>7. Owns(r)' /\ Keeps(r)'
  BY <1>1, <1>3 DEF Owns, Keeps, RunID, Cleans
<1>8. Removes(r)'
  <2>1. CASE networks' = networks \ Labelled(RunID(r)) /\ UNCHANGED cleanupFailed
    <3>1. pc[r] = "closing" /\ RemovesOwn(r) => cont[r] \in Labelled(RunID(r))
      BY <1>3 DEF Owns, Labelled, RemovesOwn
    <3> QED BY <1>1, <1>2, <1>3, <2>1, <3>1 DEF Removes
  <2>2. CASE cleanupFailed' = TRUE
    BY <2>2 DEF Removes
  <2> QED BY <1>1, <2>1, <2>2
<1>9. ASSUME NEW q \in Runs \ {r} PROVE (Destroys(q) /\ Owns(q) /\ Keeps(q) /\ Removes(q))'
  BY <1>1, <1>2, <1>9, Untouched
<1>10. Leftovers'
  <2>1. ASSUME OneLeft(RunID(r)), ~cleanupFailed' PROVE Cleaned(r)'
    <3>1. Labelled(RunID(r))' = Labelled(RunID(r)) /\ Dead(r)' = Dead(r)
      BY <1>1, <1>3 DEF Labelled, RunID, Dead
    <3>2. Cleaned(r) /\ networks' \cap Labelled(RunID(r)) = {}
      BY <1>1, <2>1 DEF OneLeft
    <3> QED BY <1>1, <1>2, <1>3, <3>1, <3>2 DEF Cleaned
  <2>2. Active(r)' => Active(r)
    BY <1>1 DEF Active
  <2> QED BY <1>1, <1>2, <2>1, <2>2, NoMoreLeft
<1> QED BY <1>4, <1>5, <1>6, <1>7, <1>8, <1>9, <1>10 DEF Inv, RunInv

LEMMA ListContainersKeeps ==
  ASSUME Inv, NEW r \in Runs, NEW a \in Actors, ListContainers(r, a)
  PROVE  Inv'
<1> DEFINE C == live \cap Labelled(RunID(r))
<1>1. /\ UNCHANGED <<set, made, live, networks, pc, found, cont, handler, cancelled, overlapped>>
      /\ destroy[r][a] = "list"
      /\ \/ /\ ~Dead(r) /\ C # {}
            /\ target' = [target EXCEPT ![r][a] = Newest(C)]
            /\ destroy' = [destroy EXCEPT ![r][a] = "remove"] /\ UNCHANGED cleanupFailed
         \/ /\ Dead(r) \/ C = {}
            /\ destroy' = [destroy EXCEPT ![r][a] = "off"] /\ UNCHANGED <<target, cleanupFailed>>
         \/ /\ cleanupFailed' = TRUE
            /\ destroy' = [destroy EXCEPT ![r][a] = "off"] /\ UNCHANGED target
      /\ cleanupFailed' \in BOOLEAN /\ (cleanupFailed => cleanupFailed')
  BY DEF Inv, Typed, ListContainers, daemon, runVars, procVars
<1>2. PICK w \in {"remove", "off"} : destroy' = [destroy EXCEPT ![r][a] = w]
  BY <1>1
<1>3. /\ destroy' \in [Runs -> [Actors -> Stages]] /\ destroy'[r][a] = w
      /\ \A b \in Actors \ {a} : destroy'[r][b] = destroy[r][b]
      /\ \A q \in Runs \ {r} : destroy'[q] = destroy[q]
  BY <1>2, StageTyped DEF Inv, Typed, Stages
<1>4. C # {} => Newest(C) \in C /\ Newest(C) \in Nat
  <2>1. Len(made) \in Nat /\ live \subseteq 1..Len(made)
    BY DEF Inv, Typed, Containers
  <2>2. C \in SUBSET (1..Len(made))
    BY <2>1
  <2>3. ASSUME C # {} PROVE Newest(C) \in C
    BY <2>1, <2>2, <2>3, NewestIsOne
  <2>4. \A c \in 1..Len(made) : c \in Nat
    BY <2>1
  <2> HIDE DEF C
  <2> QED BY <2>2, <2>3, <2>4
<1> DEFINE t == Newest(C)
<1>5. /\ target' \in [Runs -> [Actors -> Nat]]
      /\ w = "remove" => C # {} /\ target'[r][a] = t
      /\ \A b \in Actors \ {a} : target'[r][b] = target[r][b]
      /\ \A q \in Runs \ {r} : target'[q] = target[q]
  <2>1. \/ target' = [target EXCEPT ![r][a] = t] /\ t \in Nat /\ C # {}
        \/ UNCHANGED target /\ destroy' = [destroy EXCEPT ![r][a] = "off"]
    BY <1>1, <1>4
  <2>2. target \in [Runs -> [Actors -> Nat]]
    BY DEF Inv, Typed
  <2>3. CASE target' = [target EXCEPT ![r][a] = t] /\ t \in Nat /\ C # {}
    <3> HIDE DEF t, C
    <3> QED BY <2>2, <2>3
  <2>4. CASE UNCHANGED target /\ destroy' = [destroy EXCEPT ![r][a] = "off"]
    <3>1. destroy'[r][a] = "off"
      BY <2>4, StageTyped DEF Inv, Typed, Stages
    <3> QED BY <1>3, <2>2, <2>4, <3>1
  <2> QED BY <2>1, <2>3, <2>4
<1>6. /\ Destroys(r) /\ Owns(r) /\ Keeps(r) /\ Removes(r) /\ live \subseteq Containers
      /\ UNCHANGED <<Containers, RemovesOwn(r), Alone(r), Proc(r), RunID(r), Cleans(r)>>
  BY <1>1 DEF Inv, Typed, RunInv, Containers, RemovesOwn, Alone, Proc, RunID, Cleans
<1>7. \A c \in C : c \in live /\ c \in Containers /\ RunID(made[c]) = RunID(r)
  BY <1>6 DEF Labelled
<1>8. w = "off" => Dead(r) \/ C = {} \/ cleanupFailed'
  BY <1>1, <1>3, StageTyped DEF Inv, Typed, Stages
<1>9. Typed'
  BY <1>1, <1>3, <1>5, <1>6 DEF Inv, Typed
<1>10. MadeOnce'
  BY <1>1, <1>6 DEF Inv, MadeOnce
<1>11. Destroys(r)'
  <2>1. \A c \in Containers : RunID(made[c])' = RunID(made[c])
    BY <1>1 DEF RunID
  <2>2. w = "remove" => t \in Containers /\ RunID(made[t]) = RunID(r)
    BY <1>4, <1>5, <1>7
  <2> HIDE DEF t, C
  <2> QED BY <1>1, <1>2, <1>3, <1>5, <1>6, <2>1, <2>2 DEF Destroys, RunID
<1>12. Owns(r)' /\ Keeps(r)'
  BY <1>1, <1>6 DEF Owns, Keeps, RunID, Cleans
<1>13. Removes(r)'
  <2> SUFFICES ASSUME RemovesOwn(r), Alone(r), ~cancelled[Proc(r)], ~cleanupFailed', Removes(r),
                      ~cleanupFailed
               PROVE  Removes(r)'
    BY <1>1, <1>6 DEF Removes
  <2>1. pc[r] = "closing" => cont[r] \in Labelled(RunID(r))
    BY <1>6 DEF Owns, Labelled, RemovesOwn
  <2>2. a = "main" /\ w = "off" /\ pc[r] = "closing" => cont[r] \notin live
    BY <1>8, <2>1 DEF Dead
  <2> HIDE DEF C, t
  <2> QED BY <1>1, <1>2, <1>3, <1>6, <2>2 DEF Removes
<1>14. ASSUME NEW q \in Runs \ {r} PROVE (Destroys(q) /\ Owns(q) /\ Keeps(q) /\ Removes(q))'
  BY <1>1, <1>3, <1>5, <1>14, Untouched
<1>15. Leftovers'
  <2>1. ASSUME OneLeft(RunID(r)), ~cleanupFailed' PROVE Cleaned(r)'
    <3>1. Labelled(RunID(r))' = Labelled(RunID(r)) /\ Dead(r)' = Dead(r)
      BY <1>1, <1>6 DEF Labelled, RunID, Dead
    <3>2. Cleaned(r) /\ \A c, d \in C : c = d
      BY <2>1 DEF OneLeft
    <3>3. w = "remove" => C \subseteq {t}
      BY <1>4, <1>5, <3>2
    <3>4. w = "off" => Dead(r) \/ C = {}
      BY <1>8, <2>1
    <3>5. C' = C /\ C = live \cap Labelled(RunID(r))
      BY <1>1, <1>6, <3>1
    <3> HIDE DEF t, C
    <3> QED BY <1>1, <1>2, <1>3, <1>5, <1>6, <3>1, <3>2, <3>3, <3>4, <3>5 DEF Cleaned
  <2>2. Active(r)' => Active(r)
    BY <1>1 DEF Active
  <2> HIDE DEF t, C
  <2> QED BY <1>1, <1>3, <1>5, <2>1, <2>2, NoMoreLeft
<1> QED BY <1>9, <1>10, <1>11, <1>12, <1>13, <1>14, <1>15 DEF Inv, RunInv

LEMMA RemoveContainerKeeps ==
  ASSUME Inv, NEW r \in Runs, NEW a \in Actors, RemoveContainer(r, a)
  PROVE  Inv'
<1> DEFINE t == target[r][a]
<1>1. /\ UNCHANGED <<set, made, networks, pc, found, cont, target, handler, cancelled, overlapped>>
      /\ destroy[r][a] = "remove"
      /\ live' = live \ {t} \/ (live' = live /\ cleanupFailed')
      /\ cleanupFailed' \in BOOLEAN /\ (cleanupFailed => cleanupFailed')
  BY DEF Inv, Typed, RemoveContainer, runVars, procVars
<1>2. /\ destroy' \in [Runs -> [Actors -> Stages]] /\ destroy'[r][a] = "off"
      /\ \A b \in Actors \ {a} : destroy'[r][b] = destroy[r][b]
      /\ \A q \in Runs \ {r} : destroy'[q] = destroy[q]
  BY StageTyped DEF Inv, Typed, RemoveContainer, Stages
<1>3. /\ Destroys(r) /\ Owns(r) /\ Removes(r) /\ live' \subseteq live
      /\ t \in Containers /\ RunID(made[t]) = RunID(r)
      /\ UNCHANGED <<Containers, RemovesOwn(r), Alone(r), Proc(r), RunID(r), Cleans(r)>>
  BY <1>1 DEF Inv, RunInv, Destroys, Containers, RemovesOwn, Alone, Proc, RunID, Cleans
<1> HIDE DEF t
<1>4. Typed'
  BY <1>1, <1>2, <1>3 DEF Inv, Typed
<1>5. MadeOnce'
  BY <1>1, <1>3 DEF Inv, MadeOnce
<1>6. Destroys(r)'
  BY <1>1, <1>2, <1>3 DEF Destroys, RunID
<1>7. Owns(r)'
  BY <1>1, <1>3 DEF Owns
<1>8. Removes(r)'
  <2> SUFFICES ASSUME RemovesOwn(r), Alone(r), ~cancelled[Proc(r)], ~cleanupFailed', Removes(r),
                      ~cleanupFailed
               PROVE  Removes(r)'
    BY <1>1, <1>3 DEF Removes
  <2>1. made[t] = r
    BY <1>3 DEF Alone, Inv, Typed, Containers
  <2>2. pc[r] = "closing" => t = cont[r]
    BY <1>3, <2>1 DEF Owns, RemovesOwn, Inv, MadeOnce
  <2> QED BY <1>1, <1>2, <1>3, <2>2 DEF Removes
<1>9. ASSUME NEW q \in Runs PROVE Keeps(q)'
  <2>1. /\ Keeps(q) /\ Destroys(q) /\ (handler[r] # "none" => Cleans(r))
        /\ destroy[r]["main"] # "off" => Cleans(r)
    BY DEF Inv, RunInv, Destroys, Cleans
  <2>2. Cleans(r)
    BY <1>1, <1>3, <2>1 DEF Destroys
  <2>3. CASE t # cont[q]
    BY <1>1, <2>1, <2>3 DEF Keeps, RunID, Cleans
  <2>4. CASE t = cont[q] /\ q # r
    BY <1>1, <1>3, <2>2, <2>4 DEF Keeps, RunID, Cleans
  <2>5. CASE t = cont[q] /\ q = r
    BY <1>1, <1>3, <2>5 DEF Keeps, RunID, Destroys
  <2> QED BY <2>3, <2>4, <2>5
<1>10. ASSUME NEW q \in Runs \ {r} PROVE (Destroys(q) /\ Owns(q) /\ Removes(q))'
  BY <1>1, <1>2, <1>3, <1>10, Untouched
<1>11. Leftovers'
  <2>1. ASSUME OneLeft(RunID(r)), ~cleanupFailed' PROVE Cleaned(r)'
    <3>1. Labelled(RunID(r))' = Labelled(RunID(r)) /\ Dead(r)' = Dead(r)
      BY <1>1, <1>3 DEF Labelled, RunID, Dead
    <3>2. Cleaned(r) /\ live' = live \ {t}
      BY <1>1, <2>1 DEF OneLeft
    <3>3. CASE a = "main"
      BY <1>1, <1>2, <1>3, <3>1, <3>2, <3>3 DEF Cleaned, t
    <3>4. CASE a # "main"
      BY <1>1, <1>2, <1>3, <3>1, <3>2, <3>4 DEF Cleaned
    <3> QED BY <3>3, <3>4
  <2>2. Active(r)' => Active(r)
    BY <1>1 DEF Active
  <2> QED BY <1>1, <1>2, <1>3, <2>1, <2>2, NoMoreLeft
<1> QED BY <1>4, <1>5, <1>6, <1>7, <1>8, <1>9, <1>10, <1>11 DEF Inv, RunInv
-----------------------------------------------------------------------------
LEMMA SignalKeeps ==
  ASSUME Inv, NEW p \in Procs, Signal(p)
  PROVE  Inv'
<1> DEFINE Woken == {r \in Runs : Proc(r) = p /\ handler[r] = "armed"}
<1>1. /\ UNCHANGED <<set, made, live, networks, pc, found, cont, target, cancelled,
                     cleanupFailed, overlapped>>
      /\ handler' = [r \in Runs |-> IF r \in Woken THEN "fired" ELSE handler[r]]
      /\ destroy' = [r \in Runs |-> IF r \in Woken THEN [destroy[r] EXCEPT !["signal"] = "nets"]
                                                   ELSE destroy[r]]
  BY DEF Signal, daemon, runVars, history
<1>2. ASSUME NEW q \in Runs
      PROVE  /\ handler'[q] \in Handlers /\ destroy'[q] \in [Actors -> Stages]
             /\ destroy'[q]["main"] = destroy[q]["main"]
             /\ handler'[q] = handler[q] \/ (handler[q] = "armed" /\ handler'[q] = "fired")
             /\ destroy'[q]["signal"] = destroy[q]["signal"] \/
                  (destroy'[q]["signal"] = "nets" /\ handler'[q] = "fired")
             /\ handler'[q] = "fired" \/ destroy'[q]["signal"] = destroy[q]["signal"]
  <2>1. destroy[q] \in [Actors -> Stages] /\ handler[q] \in Handlers
    BY DEF Inv, Typed
  <2>2. CASE q \in Woken
    BY <1>1, <2>1, <2>2 DEF Handlers, Stages
  <2>3. CASE q \notin Woken
    BY <1>1, <2>1, <2>3
  <2> QED BY <2>2, <2>3
<1>3. /\ handler' \in [Runs -> Handlers] /\ destroy' \in [Runs -> [Actors -> Stages]]
      /\ UNCHANGED Containers
  BY <1>1, <1>2 DEF Containers
<1> HIDE DEF Woken
<1>4. Typed'
  BY <1>1, <1>3 DEF Inv, Typed
<1>5. MadeOnce'
  BY <1>1, <1>3 DEF Inv, MadeOnce
<1>6. ASSUME NEW q \in Runs PROVE (Destroys(q) /\ Owns(q) /\ Keeps(q) /\ Removes(q))'
  <2>1. /\ Destroys(q) /\ Owns(q) /\ Keeps(q) /\ Removes(q)
        /\ UNCHANGED <<Containers, RemovesOwn(q), Alone(q), Proc(q), RunID(q), Cleans(q)>>
    BY <1>1 DEF Inv, RunInv, Containers, RemovesOwn, Alone, Proc, RunID, Cleans
  <2>2. Destroys(q)'
    BY <1>1, <1>2, <2>1 DEF Destroys, RunID
  <2>3. Owns(q)'
    BY <1>1, <1>2, <2>1 DEF Owns
  <2>4. Keeps(q)'
    BY <1>1, <1>2, <2>1 DEF Keeps, RunID, Cleans
  <2>5. Removes(q)'
    BY <1>1, <1>2, <2>1 DEF Removes
  <2> QED BY <2>2, <2>3, <2>4, <2>5
<1>7. Leftovers'
  <2>1. CASE \E r \in Runs : TRUE
    <3>1. PICK r \in Runs : TRUE
      BY <2>1
    <3>2. ASSUME OneLeft(RunID(r)) PROVE Cleaned(r)'
      <4>1. Cleaned(r)
        BY <3>2 DEF OneLeft
      <4> QED BY <1>1, <1>2, <1>3, <4>1 DEF Cleaned, Labelled, RunID, Dead, Proc
    <3>3. Active(r)' => Active(r)
      BY <1>1 DEF Active
    <3> QED BY <1>1, <1>2, <3>2, <3>3, NoMoreLeft
  <2>2. CASE Runs = {}
    BY <1>1, <1>3, <2>2 DEF Inv, Leftovers, AllClean, OneLeft, Labelled, RunID
  <2> QED BY <2>1, <2>2
<1> QED BY <1>4, <1>5, <1>6, <1>7 DEF Inv, RunInv

\* Cancelling only makes more conditions true.
LEMMA CancelContextKeeps ==
  ASSUME Inv, NEW p \in Procs, CancelContext(p)
  PROVE  Inv'
<1>1. /\ UNCHANGED <<set, made, live, networks, pc, found, cont, destroy, target, handler,
                     cleanupFailed, overlapped>>
      /\ cancelled' \in [Procs -> BOOLEAN] /\ \A x \in Procs : cancelled[x] => cancelled'[x]
  <2>1. /\ UNCHANGED <<set, made, live, networks, pc, found, cont, destroy, target, handler,
                       cleanupFailed, overlapped>>
        /\ cancelled' = [cancelled EXCEPT ![p] = TRUE]
    BY DEF CancelContext, daemon, runVars, destroyVars, history
  <2>2. cancelled \in [Procs -> BOOLEAN]
    BY DEF Inv, Typed
  <2> QED BY <2>1, <2>2
<1>2. Typed'
  BY <1>1 DEF Inv, Typed, Containers
<1>3. MadeOnce'
  BY <1>1 DEF Inv, MadeOnce, Containers
<1>4. ASSUME NEW q \in Runs PROVE (Destroys(q) /\ Owns(q) /\ Keeps(q) /\ Removes(q))'
  <2>1. Proc(q) \in Procs
    BY DEF Inv, Typed, Proc, Setting
  <2> QED BY <1>1, <2>1, Untouched
<1>5. Leftovers'
  <2>1. CASE Runs = {}
    BY <1>1, <2>1 DEF Inv, Leftovers, AllClean, OneLeft, Labelled, RunID, Containers
  <2>2. ASSUME NEW r \in Runs PROVE Leftovers'
    <3>1. ASSUME OneLeft(RunID(r)) PROVE Cleaned(r)'
      <4>1. Cleaned(r) /\ Proc(r) \in Procs /\ Proc(r)' = Proc(r)
        BY <1>1, <3>1 DEF OneLeft, Inv, Typed, Proc, Setting
      <4>2. (Dead(r) => Dead(r)') /\ Labelled(RunID(r))' = Labelled(RunID(r))
        BY <1>1, <4>1 DEF Dead, Labelled, RunID, Containers
      <4> QED BY <1>1, <4>1, <4>2 DEF Cleaned
    <3>2. Active(r)' => Active(r)
      BY <1>1 DEF Active
    <3> QED BY <1>1, <3>1, <3>2, NoMoreLeft
  <2> QED BY <2>1, <2>2
<1> QED BY <1>2, <1>3, <1>4, <1>5 DEF Inv, RunInv

\* When a process ends, none of its runs is in the middle of anything but a removal that
\* its signal handler has begun.
LEMMA ProcessExitsKeeps ==
  ASSUME Inv, NEW p \in Procs, ProcessExits(p)
  PROVE  Inv'
<1>1. /\ UNCHANGED <<set, made, live, networks, pc, found, cont, target, cancelled,
                     cleanupFailed, overlapped>>
      /\ handler' = [r \in Runs |-> IF Proc(r) = p /\ handler[r] # "none" THEN "gone"
                                                                          ELSE handler[r]]
      /\ destroy' = [r \in Runs |-> IF Proc(r) = p THEN [a \in Actors |-> "off"] ELSE destroy[r]]
      /\ \A r \in Runs : Proc(r) = p => pc[r] \in {"idle", "done"}
  BY DEF ProcessExits, daemon, runVars, history
<1>2. ASSUME NEW q \in Runs
      PROVE  \/ handler'[q] = handler[q] /\ destroy'[q] = destroy[q]
             \/ /\ pc[q] \in {"idle", "done"} /\ destroy'[q] = [a \in Actors |-> "off"]
                /\ \/ handler'[q] = handler[q] /\ handler[q] = "none"
                   \/ handler'[q] = "gone" /\ handler[q] # "none"
  BY <1>1
<1>3. /\ handler' \in [Runs -> Handlers] /\ destroy' \in [Runs -> [Actors -> Stages]]
      /\ UNCHANGED Containers
  BY <1>1 DEF Inv, Typed, Containers, Handlers, Stages
<1>4. Typed'
  BY <1>1, <1>3 DEF Inv, Typed
<1>5. MadeOnce'
  BY <1>1, <1>3 DEF Inv, MadeOnce
<1>6. ASSUME NEW q \in Runs PROVE (Destroys(q) /\ Owns(q) /\ Keeps(q) /\ Removes(q))'
  <2>1. CASE handler'[q] = handler[q] /\ destroy'[q] = destroy[q]
    BY <1>1, <2>1, Untouched
  <2>2. CASE /\ pc[q] \in {"idle", "done"} /\ destroy'[q] = [a \in Actors |-> "off"]
             /\ \/ handler'[q] = handler[q] /\ handler[q] = "none"
                \/ handler'[q] = "gone" /\ handler[q] # "none"
    <3>1. /\ Destroys(q) /\ Owns(q) /\ Removes(q)
          /\ UNCHANGED <<Containers, RemovesOwn(q), Alone(q), Proc(q), RunID(q), Cleans(q)>>
      BY <1>1 DEF Inv, RunInv, Containers, RemovesOwn, Alone, Proc, RunID, Cleans
    <3>2. Destroys(q)'
      BY <1>1, <2>2, <3>1 DEF Destroys
    <3>3. Owns(q)'
      BY <1>1, <2>2, <3>1 DEF Owns
    <3>4. Keeps(q)'
      BY <1>1, <2>2 DEF Keeps
    <3>5. Removes(q)'
      BY <1>1, <2>2, <3>1 DEF Removes
    <3> QED BY <3>2, <3>3, <3>4, <3>5
  <2> QED BY <1>2, <2>1, <2>2
<1>7. Leftovers'
  <2> SUFFICES ASSUME ~overlapped', ~cleanupFailed', NEW id \in RunIDs, AllClean(id)'
               PROVE  OneLeft(id)'
    BY DEF Leftovers
  <2>1. AllClean(id) /\ OneLeft(id) /\ Labelled(id)' = Labelled(id)
    BY <1>1, <1>3 DEF Inv, Leftovers, AllClean, Cleans, RunID, Labelled
  <2>2. ASSUME NEW q \in Runs, RunID(q) = id PROVE Cleaned(q)'
    <3>1. Cleaned(q)
      BY <2>1, <2>2 DEF OneLeft
    <3>2. pc[q] \in {"idle", "done"} \/ destroy'[q] = destroy[q]
      BY <1>2
    <3>3. Dead(q)' = Dead(q) /\ RunID(q)' = RunID(q)
      BY <1>1 DEF Dead, Proc, RunID
    <3> QED BY <1>1, <2>1, <2>2, <3>1, <3>2, <3>3 DEF Cleaned
  <2> QED BY <1>1, <2>1, <2>2 DEF OneLeft, Active, RunID
<1> QED BY <1>4, <1>5, <1>6, <1>7 DEF Inv, RunInv

LEMMA OtherKeeps ==
  ASSUME Inv, UNCHANGED <<set, made, live, networks, pc, found, cont, destroy, target, handler,
                          cancelled, cleanupFailed, overlapped>>
  PROVE  Inv'
<1>1. Typed'
  BY DEF Inv, Typed, Containers
<1>2. MadeOnce'
  BY DEF Inv, MadeOnce, Containers
<1>3. ASSUME NEW q \in Runs PROVE (Destroys(q) /\ Owns(q) /\ Keeps(q) /\ Removes(q))'
  BY Untouched
<1>4. Leftovers'
  <2>1. \A r \in Runs : Cleans(r)' = Cleans(r) /\ RunID(r)' = RunID(r) /\ Dead(r)' = Dead(r)
    BY DEF Cleans, RunID, Dead, Proc
  <2>2. \A id \in RunIDs : Labelled(id)' = Labelled(id) /\ AllClean(id)' = AllClean(id)
    BY <2>1 DEF Labelled, AllClean, Containers, RunID
  <2>3. \A r \in Runs : Cleaned(r)' = Cleaned(r) /\ Active(r)' = Active(r)
    BY <2>1 DEF Cleaned, Active, Labelled, Containers, RunID
  <2>4. \A id \in RunIDs : OneLeft(id)' = OneLeft(id)
    BY <2>1, <2>2, <2>3 DEF OneLeft
  <2> QED BY <2>2, <2>4 DEF Inv, Leftovers
<1> QED BY <1>1, <1>2, <1>3, <1>4 DEF Inv, RunInv
-----------------------------------------------------------------------------
LEMMA InitInv == Init => Inv
<1> SUFFICES ASSUME Init PROVE Inv
  OBVIOUS
<1>1. Typed
  <2>1. set \in [Runs -> Setting] /\ made \in Seq(Runs)
    BY DEF Init
  <2> QED BY <2>1 DEF Init, Typed, Containers, Places, Handlers, Stages
<1>2. MadeOnce
  BY DEF Init, MadeOnce, Containers
<1>3. RunInv
  BY DEF Init, RunInv, Destroys, Owns, Keeps, Removes, Containers
<1>4. Leftovers
  BY DEF Init, Leftovers, OneLeft, Active, Cleaned
<1> QED BY <1>1, <1>2, <1>3, <1>4 DEF Inv

LEMMA NextInv == Inv /\ [Next]_vars => Inv'
<1> SUFFICES ASSUME Inv, [Next]_vars PROVE Inv'
  OBVIOUS
<1>1. ASSUME NEW r \in Runs, RunStep(r) PROVE Inv'
  BY <1>1, BeginKeeps, LookUpKeeps, OrphansRemovedKeeps, CreateKeeps, StartContainerKeeps,
     PrepareKeeps, ExtraActionsKeeps, ReapplyKeeps, ReadyKeeps, ExecuteKeeps, ClosedKeeps
     DEF RunStep
<1>2. ASSUME NEW r \in Runs, NEW a \in Actors, Destroy(r, a) PROVE Inv'
  BY <1>2, CleanupNetworksKeeps, ListContainersKeeps, RemoveContainerKeeps DEF Destroy
<1>3. ASSUME NEW p \in Procs, Signal(p) \/ CancelContext(p) \/ ProcessExits(p) PROVE Inv'
  BY <1>3, SignalKeeps, CancelContextKeeps, ProcessExitsKeeps
<1>4. ASSUME NEW c \in running, ContainerStops(c) PROVE Inv'
  BY <1>4, OtherKeeps DEF ContainerStops, runVars, destroyVars, procVars
<1>5. CASE UNCHANGED vars
  BY <1>5, OtherKeeps DEF vars, daemon, runVars, destroyVars, procVars, history
<1> QED BY <1>1, <1>2, <1>3, <1>4, <1>5 DEF Next, Over

LEMMA Invariance == Spec => []Inv
<1>1. Inv /\ [Next]_vars => Inv'
  BY NextInv
<1> QED BY InitInv, <1>1, PTL DEF Spec

\* A container never vanishes under the commands of a run, unless another run cleans up under
\* the RunID it is labelled with, or the run's own signal handler does (Destroy in
\* docker_run.go removes by RunID only).
THEOREM NotRemoved == Spec => []NotRemovedUnderCommands
<1>1. Inv => NotRemovedUnderCommands
  BY DEF Inv, RunInv, Keeps, NotRemovedUnderCommands
<1> QED BY Invariance, <1>1, PTL

\* A run that is not to leave its container removes it and its network, whoever else works
\* with the daemon (the deferred Destroy of Run).
THEOREM OwnRemoved == Spec => []OwnContainerRemoved
<1>1. Inv => OwnContainerRemoved
  BY DEF Inv, RunInv, Removes, OwnContainerRemoved
<1> QED BY Invariance, <1>1, PTL

\* Runs that clean up first leave at most one container and one network, whatever fails but
\* the cleanup (PrepareContainer removes the orphans of its RunID).
THEOREM NoPileUp == Spec => []LeftoversDoNotPileUp
<1>1. ASSUME NEW S, \A c, d \in S : c = d PROVE Cardinality(S) <= 1
  <2>1. CASE S = {}
    BY <2>1, FS_EmptySet
  <2>2. CASE S # {}
    <3>1. PICK c \in S : S = {c}
      BY <1>1, <2>2
    <3> QED BY <3>1, FS_Singleton
  <2> QED BY <2>1, <2>2
<1>2. Inv => LeftoversDoNotPileUp
  BY <1>1 DEF Inv, Leftovers, AllClean, OneLeft, LeftoversDoNotPileUp
<1> QED BY Invariance, <1>2, PTL
=============================================================================
