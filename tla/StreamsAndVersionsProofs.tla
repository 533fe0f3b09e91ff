---------------------- MODULE StreamsAndVersionsProofs ----------------------
(***************************************************************************)
(* Proofs about two machines that share nothing, neither a variable nor a  *)
(* name.                                                                   *)
(*                                                                         *)
(* DockerStream, for every number of tags and every length of the answers: *)
(* type correctness, what holds when Listen has returned, and that it      *)
(* implements MessageFeed.                                                 *)
(*                                                                         *)
(* Versions, for every number of actors and every project: what an editor  *)
(* reports as written is read, welder.yaml is lost only for a reason, and  *)
(* nested resolutions stay within their limit.                             *)
(***************************************************************************)
EXTENDS DockerStream, Versions, FiniteSetTheorems, SequenceTheorems, FunctionTheorems, TLAPS

-----------------------------------------------------------------------------
(*                          MESSAGES OF THE DAEMON                         *)

\* TypeOK without the bounds on lengths and counts.
Typed ==
  /\ op \in Ops
  /\ answer \in [Tags -> Seq(Items)]
  /\ lost \subseteq Tags
  /\ reader \in [Tags -> {"none", "reading", "sending", "gone"}]
  /\ left \in [Tags -> Seq(Items)]
  /\ offer \in [Tags -> {"message", "error", EOF}]
  /\ got \in [Tags -> Seq(Items)]
  /\ listener \in {"open", "listen", "ok", "error"}
  /\ receivedEOFs \in Nat
  /\ digests \subseteq Tags

\* Items are handed on, never made: what was handled, what is in the goroutine's
\* hand and what it has yet to read fit into an answer.
InHand(t) == IF reader[t] = "sending" /\ offer[t] # EOF THEN 1 ELSE 0
Bounded ==
  \A t \in Tags : /\ Len(answer[t]) <= MaxItems
                  /\ Len(got[t]) + Len(left[t]) + InHand(t) <= MaxItems

\* Tags that are not used have neither a reader nor an answer.
Unused == \A t \in Tags \ Streams : reader[t] = "none" /\ left[t] = <<>>

\* A goroutine sends its end when nothing is left.
Drained ==
  \A t \in Tags :
    reader[t] = "gone" \/ (reader[t] = "sending" /\ offer[t] = EOF) => left[t] = <<>>

\* The ends that Next has counted are those of the goroutines that are gone.
Gone == {t \in Tags : reader[t] = "gone"}
EndsCounted ==
  /\ receivedEOFs = Cardinality(Gone)
  /\ listener = "ok" => receivedEOFs >= 1 /\ receivedEOFs >= expectedEOFs

\* As long as its connection holds, a goroutine has read a prefix of its answer,
\* and recorded the digests in it.
RecordedOf(t) ==
  /\ Len(left[t]) <= Len(answer[t])
  /\ \A i \in 1..Len(left[t]) : left[t][i] = answer[t][Len(answer[t]) - Len(left[t]) + i]
  /\ t \in digests <=>
       \E i \in 1..(Len(answer[t]) - Len(left[t])) : answer[t][i] = "digest"
Recorded == \A t \in Tags \ lost : RecordedOf(t)

\* No message is handled before Listen is called.
Quiet ==
  listener = "open" => \A t \in Tags : \A i \in 1..Len(got[t]) : got[t][i] # "message"

Inv == Typed /\ Bounded /\ Unused /\ Drained /\ EndsCounted /\ Recorded /\ Quiet
-----------------------------------------------------------------------------
USE ConstantsAssumption DEF call

\* Answers are the sequences of items of bounded length.
LEMMA AnswersAreSeqs == \A s : s \in Answers <=> s \in Seq(Items) /\ Len(s) <= MaxItems
<1>1. ASSUME NEW s \in Answers PROVE s \in Seq(Items) /\ Len(s) <= MaxItems
  BY DEF Answers
<1>2. ASSUME NEW s \in Seq(Items), Len(s) <= MaxItems PROVE s \in Answers
  <2>1. s \in [1..Len(s) -> Items] /\ Len(s) \in 0..MaxItems
    BY <1>2, LenProperties
  <2> QED
    BY <2>1 DEF Answers
<1> QED
  BY <1>1, <1>2

LEMMA Rest ==
  ASSUME NEW s \in Seq(Items), s # <<>>
  PROVE  /\ Len(s) \in Nat \ {0}
         /\ Head(s) = s[1] /\ Head(s) \in Items
         /\ Tail(s) \in Seq(Items)
         /\ Len(Tail(s)) = Len(s) - 1
         /\ \A i \in 1..Len(Tail(s)) : Tail(s)[i] = s[i + 1]
BY HeadTailProperties, LenProperties, EmptySeq

LEMMA OneMore ==
  ASSUME NEW s \in Seq(Items), NEW e \in Items
  PROVE  /\ Append(s, e) \in Seq(Items)
         /\ Len(Append(s, e)) = Len(s) + 1
         /\ \A i \in 1..Len(s) : Append(s, e)[i] = s[i]
         /\ Append(s, e)[Len(s) + 1] = e
BY AppendProperties

\* Streams that are all gone, if so many are gone as Listen waits for.
LEMMA AllGone ==
  ASSUME op \in Ops, NEW G \in SUBSET Streams,
         Cardinality(G) >= 1, Cardinality(G) >= expectedEOFs
  PROVE  G = Streams
<1>1. CASE op = "push"
  <2>1. Streams = 1..NumTags /\ expectedEOFs = NumTags
    BY <1>1 DEF Streams, expectedEOFs, Tags
  <2>2. IsFiniteSet(Streams) /\ Cardinality(Streams) = NumTags
    BY <2>1, FS_Interval
  <2>3. /\ Cardinality(G) <= Cardinality(Streams)
        /\ Cardinality(Streams) = Cardinality(G) => Streams = G
        /\ IsFiniteSet(G)
    BY <2>2, FS_Subset
  <2>4. Cardinality(G) \in Nat
    BY <2>3, FS_CardinalityType
  <2> QED
    BY <2>1, <2>2, <2>3, <2>4
<1>2. CASE op # "push"
  <2>1. Streams = {1}
    BY <1>2 DEF Streams
  <2>2. G # {}
    BY FS_EmptySet
  <2> QED
    BY <2>1, <2>2
<1> QED
  BY <1>1, <1>2

\* Nothing changes in a goroutine that neither receives nor sends.
LEMMA SameEnds ==
  ASSUME EndsCounted, receivedEOFs' = receivedEOFs, Gone' = Gone,
         listener' # "ok", op' = op
  PROVE  EndsCounted'
BY DEF EndsCounted
-----------------------------------------------------------------------------
LEMMA InvInit == Init => Inv
<1> SUFFICES ASSUME Init PROVE Inv
  OBVIOUS
<1>1. Typed
  BY AnswersAreSeqs DEF Init, Typed
<1>2. Bounded
  BY <1>1, AnswersAreSeqs, EmptySeq DEF Init, Typed, Bounded, InHand
<1>3. Unused
  BY DEF Init, Unused, Streams
<1>4. Drained
  BY DEF Init, Drained
<1>5. EndsCounted
  <2>1. Gone = {}
    BY DEF Init, Gone
  <2> QED
    BY <2>1, FS_EmptySet DEF Init, EndsCounted
<1>6. Recorded
  BY <1>1, LenProperties DEF Init, Typed, Recorded, RecordedOf
<1>7. Quiet
  BY EmptySeq DEF Init, Quiet
<1> QED
  BY <1>1, <1>2, <1>3, <1>4, <1>5, <1>6, <1>7 DEF Inv

LEMMA OpenInv ==
  ASSUME Inv, NEW t \in Tags, Open(t)
  PROVE  Inv'
<1>0. Typed
  BY DEF Inv
<1>1. Typed'
  BY <1>0 DEF Typed, Open
<1>2. Bounded'
  BY <1>0, <1>1 DEF Inv, Typed, Bounded, InHand, Open
<1>3. Unused'
  BY <1>0 DEF Inv, Typed, Unused, Streams, Open
<1>4. Drained'
  BY <1>0 DEF Inv, Typed, Drained, Open
<1>5. EndsCounted'
  <2>1. Gone' = Gone
    <3>1. reader[t] = "none" /\ reader' = [reader EXCEPT ![t] = "reading"]
      BY DEF Open, ToOpen
    <3> QED
      BY <1>0, <3>1 DEF Typed, Gone
  <2> QED
    BY <2>1, SameEnds DEF Inv, Open
<1>6. Recorded'
  BY <1>0 DEF Inv, Typed, Recorded, RecordedOf, Open
<1>7. Quiet'
  BY <1>0 DEF Inv, Typed, Quiet, Open
<1> QED
  BY <1>1, <1>2, <1>3, <1>4, <1>5, <1>6, <1>7 DEF Inv

LEMMA OpenFailsInv ==
  ASSUME Inv, OpenFails
  PROVE  Inv'
<1>0. Typed
  BY DEF Inv
<1>1. Typed'
  BY <1>0 DEF Typed, OpenFails
<1>2. Bounded'
  BY <1>0, <1>1 DEF Inv, Typed, Bounded, InHand, OpenFails
<1>3. Unused'
  BY <1>0 DEF Inv, Typed, Unused, Streams, OpenFails
<1>4. Drained'
  BY <1>0 DEF Inv, Typed, Drained, OpenFails
<1>5. EndsCounted'
  <2>1. Gone' = Gone /\ EndsCounted
    BY <1>0 DEF Inv, Typed, Gone, OpenFails
  <2> QED
    BY <2>1, SameEnds DEF OpenFails
<1>6. Recorded'
  BY <1>0 DEF Inv, Typed, Recorded, RecordedOf, OpenFails
<1>7. Quiet'
  BY <1>0 DEF Inv, Typed, Quiet, OpenFails
<1> QED
  BY <1>1, <1>2, <1>3, <1>4, <1>5, <1>6, <1>7 DEF Inv

LEMMA StartListeningInv ==
  ASSUME Inv, StartListening
  PROVE  Inv'
<1>0. Typed
  BY DEF Inv
<1>1. Typed'
  BY <1>0 DEF Typed, StartListening
<1>2. Bounded'
  BY <1>0, <1>1 DEF Inv, Typed, Bounded, InHand, StartListening
<1>3. Unused'
  BY <1>0 DEF Inv, Typed, Unused, Streams, StartListening
<1>4. Drained'
  BY <1>0 DEF Inv, Typed, Drained, StartListening
<1>5. EndsCounted'
  <2>1. Gone' = Gone /\ EndsCounted
    BY <1>0 DEF Inv, Typed, Gone, StartListening
  <2> QED
    BY <2>1, SameEnds DEF StartListening
<1>6. Recorded'
  BY <1>0 DEF Inv, Typed, Recorded, RecordedOf, StartListening
<1>7. Quiet'
  BY <1>0 DEF Inv, Typed, Quiet, StartListening
<1> QED
  BY <1>1, <1>2, <1>3, <1>4, <1>5, <1>6, <1>7 DEF Inv

LEMMA NextEOFInv ==
  ASSUME Inv, NEW t \in Tags, NextEOF(t)
  PROVE  Inv'
<1>0. Typed
  BY DEF Inv
<1>1. Typed'
  BY <1>0 DEF Typed, NextEOF
<1>2. Bounded'
  BY <1>0, <1>1 DEF Inv, Typed, Bounded, InHand, NextEOF
<1>3. Unused'
  BY <1>0 DEF Inv, Typed, Unused, Streams, NextEOF
<1>4. Drained'
  BY <1>0 DEF Inv, Typed, Drained, NextEOF
<1>5. EndsCounted'
  <2>1. Gone' = Gone \cup {t} /\ t \notin Gone
    BY <1>0 DEF Typed, Gone, NextEOF
  <2>2. IsFiniteSet(Gone)
    <3>1. IsFiniteSet(Tags) /\ Gone \in SUBSET Tags
      BY FS_Interval DEF Tags, Gone
    <3> QED
      BY <3>1, FS_Subset
  <2>3. Cardinality(Gone') = Cardinality(Gone) + 1
    BY <2>1, <2>2, FS_AddElement
  <2>4. expectedEOFs' = expectedEOFs /\ expectedEOFs \in Nat
    BY <1>0 DEF Typed, Ops, NextEOF, expectedEOFs
  <2> QED
    BY <1>0, <2>3, <2>4 DEF Inv, Typed, EndsCounted, NextEOF
<1>6. Recorded'
  BY <1>0 DEF Inv, Typed, Recorded, RecordedOf, NextEOF
<1>7. Quiet'
  BY <1>0 DEF Inv, Typed, Quiet, NextEOF
<1> QED
  BY <1>1, <1>2, <1>3, <1>4, <1>5, <1>6, <1>7 DEF Inv

LEMMA NextMessageInv ==
  ASSUME Inv, NEW t \in Tags, NextMessage(t)
  PROVE  Inv'
<1>0. Typed
  BY DEF Inv
<1>1. Typed'
  BY <1>0, OneMore DEF Typed, Items, NextMessage
<1>2. Bounded'
  <2>1. Len(Append(got[t], "message")) = Len(got[t]) + 1
    BY <1>0, OneMore DEF Typed, Items
  <2>2. \A u \in Tags : Len(got[u]) \in Nat /\ Len(left[u]) \in Nat
    BY <1>0, LenProperties DEF Typed
  <2>3. ASSUME NEW u \in Tags
        PROVE  Len(got'[u]) + Len(left'[u]) + InHand(u)' <= MaxItems
    <3>1. CASE u = t
      BY <1>0, <2>1, <2>2, <3>1 DEF Inv, Typed, Bounded, InHand, EOF, NextMessage
    <3>2. CASE u # t
      BY <1>0, <3>2 DEF Inv, Typed, Bounded, InHand, NextMessage
    <3> QED
      BY <3>1, <3>2
  <2> QED
    BY <1>0, <2>3 DEF Inv, Bounded, NextMessage
<1>3. Unused'
  BY <1>0 DEF Inv, Typed, Unused, Streams, NextMessage
<1>4. Drained'
  BY <1>0 DEF Inv, Typed, Drained, NextMessage
<1>5. EndsCounted'
  <2>1. Gone' = Gone /\ EndsCounted
    BY <1>0 DEF Inv, Typed, Gone, NextMessage
  <2> QED
    BY <2>1, SameEnds DEF NextMessage
<1>6. Recorded'
  BY <1>0 DEF Inv, Typed, Recorded, RecordedOf, NextMessage
<1>7. Quiet'
  BY <1>0 DEF Inv, Typed, Quiet, NextMessage
<1> QED
  BY <1>1, <1>2, <1>3, <1>4, <1>5, <1>6, <1>7 DEF Inv

LEMMA NextErrorInv ==
  ASSUME Inv, NEW t \in Tags, NextError(t)
  PROVE  Inv'
<1>0. Typed
  BY DEF Inv
<1>1. Typed'
  BY <1>0 DEF Typed, NextError
<1>2. Bounded'
  BY <1>0, LenProperties DEF Inv, Typed, Bounded, InHand, EOF, NextError
<1>3. Unused'
  BY <1>0 DEF Inv, Typed, Unused, Streams, NextError
<1>4. Drained'
  BY <1>0 DEF Inv, Typed, Drained, NextError
<1>5. EndsCounted'
  <2>1. Gone' = Gone /\ EndsCounted
    BY <1>0 DEF Inv, Typed, Gone, NextError
  <2> QED
    BY <2>1, SameEnds DEF NextError
<1>6. Recorded'
  BY <1>0 DEF Inv, Typed, Recorded, RecordedOf, NextError
<1>7. Quiet'
  BY <1>0 DEF Inv, Typed, Quiet, NextError
<1> QED
  BY <1>1, <1>2, <1>3, <1>4, <1>5, <1>6, <1>7 DEF Inv

LEMMA ScanEndsInv ==
  ASSUME Inv, NEW t \in Tags, ScanEnds(t)
  PROVE  Inv'
<1>0. Typed
  BY DEF Inv
<1>1. Typed'
  BY <1>0 DEF Typed, ScanEnds
<1>2. Bounded'
  BY <1>0, <1>1 DEF Inv, Typed, Bounded, InHand, ScanEnds
<1>3. Unused'
  BY <1>0 DEF Inv, Typed, Unused, Streams, ScanEnds
<1>4. Drained'
  BY <1>0 DEF Inv, Typed, Drained, ScanEnds
<1>5. EndsCounted'
  <2>1. Gone' = Gone
    BY <1>0 DEF Typed, Gone, ScanEnds
  <2> QED
    BY <2>1 DEF Inv, EndsCounted, ScanEnds, expectedEOFs
<1>6. Recorded'
  BY <1>0 DEF Inv, Typed, Recorded, RecordedOf, ScanEnds
<1>7. Quiet'
  BY <1>0 DEF Inv, Typed, Quiet, ScanEnds
<1> QED
  BY <1>1, <1>2, <1>3, <1>4, <1>5, <1>6, <1>7 DEF Inv

\* If l is the end of a, so is what comes after its head, which is the next item of a.
LEMMA NextItem ==
  ASSUME NEW a, NEW l, NEW r, Len(a) \in Nat, Len(l) \in Nat \ {0}, Len(r) = Len(l) - 1,
         \A i \in 1..Len(r) : r[i] = l[i + 1],
         Len(l) <= Len(a),
         \A i \in 1..Len(l) : l[i] = a[Len(a) - Len(l) + i]
  PROVE  /\ Len(r) <= Len(a)
         /\ \A i \in 1..Len(r) : r[i] = a[Len(a) - Len(r) + i]
         /\ l[1] = a[Len(a) - Len(r)]
         /\ 1..(Len(a) - Len(r)) = 1..(Len(a) - Len(l)) \cup {Len(a) - Len(r)}
<1>1. ASSUME NEW i \in 1..Len(r) PROVE r[i] = a[Len(a) - Len(r) + i]
  <2>1. i + 1 \in 1..Len(l) /\ Len(a) - Len(l) + (i + 1) = Len(a) - Len(r) + i
    OBVIOUS
  <2> QED
    BY <2>1
<1>2. 1 \in 1..Len(l) /\ Len(a) - Len(l) + 1 = Len(a) - Len(r)
  OBVIOUS
<1>3. l[1] = a[Len(a) - Len(r)]
  BY <1>2
<1>4. \A n, m, k \in Nat : m >= 1 /\ m <= n /\ k = m - 1 =>
        k <= n /\ 1..(n - k) = 1..(n - m) \cup {n - k}
  OBVIOUS
<1>5. Len(r) <= Len(a) /\ 1..(Len(a) - Len(r)) = 1..(Len(a) - Len(l)) \cup {Len(a) - Len(r)}
  <2>1. Len(l) >= 1 /\ Len(r) \in Nat
    OBVIOUS
  <2> QED
    BY <1>4, <2>1
<1> QED
  BY <1>1, <1>3, <1>5

\* An item that is read becomes part of the prefix that Recorded is about.
LEMMA ReadOn ==
  ASSUME Inv, NEW t \in Tags, left[t] # <<>>,
         left' = [left EXCEPT ![t] = Tail(@)],
         UNCHANGED <<answer, lost>>,
         \A u \in Tags : u \in digests' <=> u \in digests \/ (u = t /\ Head(left[t]) = "digest")
  PROVE  Recorded'
<1>0. Typed
  BY DEF Inv
<1>1. \A u \in Tags : Len(left[u]) \in Nat /\ Len(answer[u]) \in Nat
  BY <1>0, LenProperties DEF Typed
<1>2. /\ Len(left[t]) \in Nat \ {0}
      /\ Head(left[t]) = left[t][1]
      /\ Len(Tail(left[t])) = Len(left[t]) - 1
      /\ \A i \in 1..Len(Tail(left[t])) : Tail(left[t])[i] = left[t][i + 1]
  BY <1>0, Rest DEF Typed
<1> SUFFICES ASSUME NEW u \in Tags, u \notin lost PROVE RecordedOf(u)'
  BY DEF Recorded
<1>3. RecordedOf(u)
  BY DEF Inv, Recorded
<1>4. CASE u # t
  BY <1>0, <1>3, <1>4 DEF Typed, RecordedOf
<1>5. CASE u = t
  <2> DEFINE a == answer[t]  l == left[t]  r == Tail(left[t])
  <2>1. left'[t] = r
    BY <1>0 DEF Typed
  <2>2. /\ Len(l) <= Len(a)
        /\ \A i \in 1..Len(l) : l[i] = a[Len(a) - Len(l) + i]
        /\ t \in digests <=> \E i \in 1..(Len(a) - Len(l)) : a[i] = "digest"
    BY <1>3, <1>5 DEF RecordedOf
  <2>3. /\ Len(a) \in Nat /\ Len(l) \in Nat \ {0} /\ Len(r) = Len(l) - 1
        /\ \A i \in 1..Len(r) : r[i] = l[i + 1]
        /\ t \in digests' <=> t \in digests \/ l[1] = "digest"
    BY <1>1, <1>2
  <2> HIDE DEF a, l, r
  <2>4. /\ Len(r) <= Len(a)
        /\ \A i \in 1..Len(r) : r[i] = a[Len(a) - Len(r) + i]
        /\ l[1] = a[Len(a) - Len(r)]
        /\ 1..(Len(a) - Len(r)) = 1..(Len(a) - Len(l)) \cup {Len(a) - Len(r)}
    BY <2>2, <2>3, NextItem
  <2>5. t \in digests' <=> \E i \in 1..(Len(a) - Len(r)) : a[i] = "digest"
    BY <2>2, <2>3, <2>4
  <2> USE DEF a
  <2> QED
    BY <1>5, <2>1, <2>4, <2>5 DEF RecordedOf
<1> QED
  BY <1>4, <1>5

LEMMA ScanInv ==
  ASSUME Inv, NEW t \in Tags, Scan(t)
  PROVE  Inv'
<1> DEFINE item == Head(left[t])
<1>0. Typed
  BY DEF Inv
<1>1. /\ reader[t] = "reading"
      /\ left' = [left EXCEPT ![t] = Tail(@)]
      /\ UNCHANGED <<op, answer, lost, listener, receivedEOFs>>
  BY DEF Scan
<1>2. /\ left[t] \in Seq(Items) /\ left[t] # <<>>
      /\ Len(left[t]) \in Nat \ {0}
      /\ item = left[t][1] /\ item \in Items
      /\ Tail(left[t]) \in Seq(Items) /\ Len(Tail(left[t])) = Len(left[t]) - 1
      /\ \A i \in 1..Len(Tail(left[t])) : Tail(left[t])[i] = left[t][i + 1]
  BY <1>0, Rest DEF Typed, Scan
<1>3. \A u \in Tags : Len(got[u]) \in Nat /\ Len(left[u]) \in Nat /\ Len(answer[u]) \in Nat
  BY <1>0, LenProperties DEF Typed
<1>4. CASE Kept(item)
  <2>1. /\ got' = [got EXCEPT ![t] = Append(@, item)]
        /\ digests' = IF item = "digest" THEN digests \cup {t} ELSE digests
        /\ UNCHANGED <<reader, offer>>
    BY <1>4 DEF Scan
  <2>2. /\ Append(got[t], item) \in Seq(Items)
        /\ Len(Append(got[t], item)) = Len(got[t]) + 1
        /\ \A i \in 1..Len(got[t]) : Append(got[t], item)[i] = got[t][i]
        /\ Append(got[t], item)[Len(got[t]) + 1] = item
    BY <1>0, <1>2, OneMore DEF Typed
  <2>3. Typed'
    BY <1>0, <1>1, <1>2, <2>1, <2>2 DEF Typed
  <2>4. Bounded'
    <3>1. ASSUME NEW u \in Tags
          PROVE  Len(got'[u]) + Len(left'[u]) + InHand(u)' <= MaxItems
      <4>1. Len(got[u]) + Len(left[u]) + InHand(u) <= MaxItems
        BY DEF Inv, Bounded
      <4>2. CASE u = t
        BY <1>0, <1>1, <1>2, <1>3, <2>1, <2>2, <4>1, <4>2 DEF Typed, InHand
      <4>3. CASE u # t
        BY <1>0, <1>1, <2>1, <4>1, <4>3 DEF Typed, InHand
      <4> QED
        BY <4>2, <4>3
    <3> QED
      BY <1>1, <3>1 DEF Inv, Bounded
  <2>5. Unused' /\ Drained'
    BY <1>0, <1>1, <1>2, <2>1 DEF Inv, Typed, Unused, Drained, Streams
  <2>6. EndsCounted'
    BY <1>1, <2>1 DEF Inv, EndsCounted, Gone, expectedEOFs
  <2>7. Quiet'
    <3> SUFFICES ASSUME listener = "open", NEW u \in Tags, NEW i \in 1..Len(got'[u])
                 PROVE  got'[u][i] # "message"
      BY <1>1 DEF Quiet
    <3>1. CASE u = t
      <4>1. got'[t] = Append(got[t], item)
        BY <1>0, <2>1 DEF Typed
      <4>2. i \in 1..Len(got[t]) \/ i = Len(got[t]) + 1
        BY <1>3, <2>2, <3>1, <4>1
      <4> QED
        BY <1>4, <2>2, <3>1, <4>1, <4>2 DEF Inv, Quiet, Kept
    <3>2. CASE u # t
      BY <1>0, <2>1, <3>2 DEF Inv, Typed, Quiet
    <3> QED
      BY <3>1, <3>2
  <2>8. \A u \in Tags : u \in digests' <=> u \in digests \/ (u = t /\ item = "digest")
    BY <2>1
  <2> QED
    BY <1>0, <1>1, <1>2, <1>3, <2>3, <2>4, <2>5, <2>6, <2>7, <2>8, ReadOn DEF Inv
<1>5. CASE ~Kept(item)
  <2>1. /\ offer' = [offer EXCEPT ![t] = item]
        /\ reader' = [reader EXCEPT ![t] = "sending"]
        /\ UNCHANGED <<got, digests>>
    BY <1>5 DEF Scan
  <2>2. item \in {"message", "error"}
    BY <1>2, <1>5 DEF Kept, Items
  <2>3. Typed'
    BY <1>0, <1>1, <1>2, <2>1, <2>2 DEF Typed
  <2>4. Bounded'
    <3>1. ASSUME NEW u \in Tags
          PROVE  Len(got'[u]) + Len(left'[u]) + InHand(u)' <= MaxItems
      <4>1. Len(got[u]) + Len(left[u]) + InHand(u) <= MaxItems
        BY DEF Inv, Bounded
      <4>2. CASE u = t
        BY <1>0, <1>1, <1>2, <1>3, <2>1, <2>2, <4>1, <4>2 DEF Typed, InHand, EOF
      <4>3. CASE u # t
        BY <1>0, <1>1, <2>1, <4>1, <4>3 DEF Typed, InHand
      <4> QED
        BY <4>2, <4>3
    <3> QED
      BY <1>1, <3>1 DEF Inv, Bounded
  <2>5. Unused' /\ Drained'
    BY <1>0, <1>1, <1>2, <2>1, <2>2 DEF Inv, Typed, Unused, Drained, Streams, EOF
  <2>6. EndsCounted'
    <3>1. Gone' = Gone
      BY <1>0, <1>1, <2>1 DEF Typed, Gone
    <3> QED
      BY <1>1, <3>1 DEF Inv, EndsCounted, expectedEOFs
  <2>7. Quiet'
    BY <1>1, <2>1 DEF Inv, Quiet
  <2>8. \A u \in Tags : u \in digests' <=> u \in digests \/ (u = t /\ item = "digest")
    BY <2>1, <2>2
  <2> QED
    BY <1>0, <1>1, <1>2, <1>3, <2>3, <2>4, <2>5, <2>6, <2>7, <2>8, ReadOn DEF Inv
<1> QED
  BY <1>4, <1>5

LEMMA BreakInv ==
  ASSUME Inv, NEW t \in Tags, Break(t)
  PROVE  Inv'
<1>0. Typed
  BY DEF Inv
<1>1. PICK rest \in {<<>>, <<"error">>} : left' = [left EXCEPT ![t] = rest]
  BY DEF Break
<1>2. /\ lost' = lost \cup {t}
      /\ UNCHANGED <<op, answer, reader, offer, got, listener, receivedEOFs, digests>>
      /\ reader[t] = "reading" /\ left[t] # <<>>
  BY DEF Break
<1>3. /\ rest \in Seq(Items) /\ Len(rest) \in {0, 1}
      /\ Len(left[t]) \in Nat \ {0}
  <2>1. CASE rest = <<>>
    BY <1>0, <1>2, <2>1, Rest, EmptySeq DEF Typed
  <2>2. CASE rest = <<"error">>
    <3>1. <<"error">> \in Seq(Items) /\ Len(<<"error">>) = 1
      BY DEF Items
    <3> QED
      BY <1>0, <1>2, <2>2, <3>1, Rest DEF Typed
  <2> QED
    BY <2>1, <2>2
<1>4. Typed'
  BY <1>0, <1>1, <1>2, <1>3 DEF Typed
<1>5. Bounded'
  <2>1. \A u \in Tags : Len(got[u]) \in Nat /\ Len(left[u]) \in Nat
    BY <1>0, LenProperties DEF Typed
  <2>2. ASSUME NEW u \in Tags
        PROVE  Len(got'[u]) + Len(left'[u]) + InHand(u)' <= MaxItems
    <3>1. Len(got[u]) + Len(left[u]) + InHand(u) <= MaxItems
      BY DEF Inv, Bounded
    <3>2. CASE u = t
      BY <1>0, <1>1, <1>2, <1>3, <2>1, <3>1, <3>2 DEF Typed, InHand
    <3>3. CASE u # t
      BY <1>0, <1>1, <1>2, <3>1, <3>3 DEF Typed, InHand
    <3> QED
      BY <3>2, <3>3
  <2> QED
    BY <1>2, <2>2 DEF Inv, Bounded
<1>6. Unused' /\ Drained'
  BY <1>0, <1>1, <1>2 DEF Inv, Typed, Unused, Drained, Streams
<1>7. EndsCounted'
  BY <1>2 DEF Inv, EndsCounted, Gone, expectedEOFs
<1>8. Recorded'
  BY <1>0, <1>1, <1>2 DEF Inv, Typed, Recorded, RecordedOf
<1>9. Quiet'
  BY <1>2 DEF Inv, Quiet
<1> QED
  BY <1>4, <1>5, <1>6, <1>7, <1>8, <1>9 DEF Inv

LEMMA InvNext == Inv /\ [Next]_vars => Inv'
<1> SUFFICES ASSUME Inv, [Next]_vars PROVE Inv'
  OBVIOUS
<1>1. CASE Listener
  BY <1>1, OpenInv, NextEOFInv, NextMessageInv, NextErrorInv, StartListeningInv, OpenFailsInv
     DEF Listener
<1>2. CASE \E t \in Tags : Reader(t)
  BY <1>2, ScanInv, ScanEndsInv, BreakInv DEF Reader
<1>3. CASE UNCHANGED vars
  <2>1. Typed' /\ Bounded'
    BY <1>3 DEF Inv, Typed, Bounded, InHand, vars
  <2>2. Unused' /\ Drained'
    BY <1>3 DEF Inv, Unused, Drained, Streams, vars
  <2>3. EndsCounted'
    BY <1>3 DEF Inv, EndsCounted, Gone, expectedEOFs, vars
  <2>4. Recorded' /\ Quiet'
    BY <1>3 DEF Inv, Recorded, RecordedOf, Quiet, vars
  <2> QED
    BY <2>1, <2>2, <2>3, <2>4 DEF Inv
<1> QED
  BY <1>1, <1>2, <1>3 DEF Next, Finished
-----------------------------------------------------------------------------
\* The inductive invariant holds in every reachable state.
THEOREM InvInvariant == Spec => []Inv
<1>1. Init => Inv
  BY InvInit
<1>2. Inv /\ [Next]_vars => Inv'
  BY InvNext
<1> QED
  BY <1>1, <1>2, PTL DEF Spec

\* DockerStream is well typed; in particular nothing makes the items that were
\* handled more than the daemon sent, and no end is counted twice.
THEOREM TypeCorrect == Spec => []TypeOK
<1>1. ASSUME Inv PROVE TypeOK
  <2>0. Typed /\ Bounded /\ EndsCounted
    BY <1>1 DEF Inv
  <2>1. \A t \in Tags : /\ Len(got[t]) \in Nat /\ Len(left[t]) \in Nat /\ InHand(t) \in Nat
                        /\ Len(got[t]) + Len(left[t]) + InHand(t) <= MaxItems
    BY <2>0, LenProperties DEF Typed, Bounded, InHand
  <2>2. \A t \in Tags : got[t] \in Answers /\ left[t] \in Answers /\ answer[t] \in Answers
    BY <2>0, <2>1, AnswersAreSeqs DEF Typed, Bounded
  <2>3. /\ got \in [Tags -> Answers] /\ left \in [Tags -> Answers]
        /\ answer \in [Tags -> Answers]
    BY <2>0, <2>2 DEF Typed
  <2>4. receivedEOFs \in 0..NumTags
    <3>1. IsFiniteSet(Tags) /\ Cardinality(Tags) = NumTags /\ Gone \in SUBSET Tags
      BY FS_Interval DEF Tags, Gone
    <3>2. Cardinality(Gone) <= NumTags
      BY <3>1, FS_Subset
    <3> QED
      BY <2>0, <3>2 DEF Typed, EndsCounted
  <2> QED
    BY <2>0, <2>3, <2>4 DEF Typed, TypeOK
<1> QED
  BY <1>1, InvInvariant, PTL

\* If Listen counted the ends it waits for, the goroutines of all answers are gone.
LEMMA EnoughEnds ==
  ASSUME Typed, Unused, Cardinality(Gone) >= 1, Cardinality(Gone) >= expectedEOFs
  PROVE  \A t \in Streams : reader[t] = "gone"
<1>1. Gone \in SUBSET Streams
  BY DEF Gone, Unused
<1> QED
  BY <1>1, AllGone DEF Typed, Gone

\* When Listen returns nil no goroutine is left reading or blocked on the channel.
THEOREM NobodyIsLeft == Spec => []NobodyLeftBehind
<1>1. ASSUME Inv, listener = "ok", NEW t \in Tags PROVE reader[t] \in {"none", "gone"}
  <2>1. \A u \in Streams : reader[u] = "gone"
    BY <1>1, EnoughEnds DEF Inv, EndsCounted
  <2> QED
    BY <1>1, <2>1 DEF Inv, Unused
<1>2. Inv => NobodyLeftBehind
  BY <1>1 DEF NobodyLeftBehind
<1> QED
  BY <1>2, InvInvariant, PTL

\* The digests of a build or push are complete when Listen returns nil, whatever
\* the number of tags, for every answer whose connection did not break.
THEOREM DigestsAreComplete == Spec => []DigestsCompleteAfterListen
<1>1. ASSUME Inv, listener = "ok", NEW t \in Streams, t \notin lost
      PROVE  t \in digests <=> \E i \in DOMAIN answer[t] : answer[t][i] = "digest"
  <2>0. t \in Tags
    BY DEF Streams, Tags
  <2>1. reader[t] = "gone"
    BY <1>1, EnoughEnds DEF Inv, EndsCounted
  <2>2. left[t] = <<>>
    BY <1>1, <2>0, <2>1 DEF Inv, Drained
  <2>3. Len(left[t]) = 0 /\ Len(answer[t]) \in Nat /\ DOMAIN answer[t] = 1..Len(answer[t])
    BY <1>1, <2>0, <2>2, EmptySeq, LenProperties DEF Inv, Typed
  <2>4. RecordedOf(t)
    BY <1>1, <2>0 DEF Inv, Recorded
  <2> QED
    BY <2>3, <2>4 DEF RecordedOf
<1>2. Inv => DigestsCompleteAfterListen
  BY <1>1 DEF DigestsCompleteAfterListen
<1> QED
  BY <1>2, InvInvariant, PTL
-----------------------------------------------------------------------------
(* DockerStream implements MessageFeed.                                    *)

\* What a stream has yet to hand over, and the verdict: the mapping of Feed.
FeedLeft ==
  [t \in Tags |-> IF reader[t] = "sending" /\ offer[t] # EOF
                  THEN <<offer[t]>> \o left[t] ELSE left[t]]
Verdict == IF listener \in {"ok", "error"} THEN listener ELSE "open"

LEMMA Prepend ==
  ASSUME NEW e \in Items, NEW s \in Seq(Items)
  PROVE  /\ <<e>> \o s \in Seq(Items) /\ <<e>> \o s # <<>>
         /\ Head(<<e>> \o s) = e /\ Tail(<<e>> \o s) = s
  OBVIOUS

LEMMA HeadAndTail ==
  ASSUME NEW s \in Seq(Items), s # <<>>
  PROVE  <<Head(s)>> \o Tail(s) = s
  OBVIOUS

LEMMA FeedInit == Init => Feed!Init
<1> SUFFICES ASSUME Init PROVE Feed!Init
  OBVIOUS
<1>1. left \in [Tags -> Seq(Items)] /\ \A t \in Tags : reader[t] = "none"
  BY AnswersAreSeqs DEF Init
<1>2. FeedLeft \in [Tags -> Seq(Items)]
  BY <1>1 DEF FeedLeft
<1> QED
  BY <1>2 DEF Init, Feed!Init, FeedLeft

\* A step that leaves the mapped variables alone.
LEMMA FeedStutters ==
  ASSUME FeedLeft' = FeedLeft, got' = got, Verdict' = Verdict
  PROVE  UNCHANGED Feed!vars
BY DEF Feed!vars, FeedLeft, Verdict

\* An item is taken off a stream and handled.
LEMMA FeedHandles ==
  ASSUME NEW t \in Tags,
         FeedLeft[t] # <<>>, Head(FeedLeft[t]) # "error",
         Head(FeedLeft[t]) = "message" => Verdict = "open",
         got' = [got EXCEPT ![t] = Append(@, Head(FeedLeft[t]))],
         FeedLeft' = [FeedLeft EXCEPT ![t] = Tail(@)],
         Verdict' = Verdict
  PROVE  Feed!Handle(t)
BY DEF Feed!Handle, Feed!Error, Feed!Visible, FeedLeft, Verdict

LEMMA OpenFeeds ==
  ASSUME Inv, NEW t \in Tags, Open(t)
  PROVE  FeedLeft' = FeedLeft /\ got' = got /\ Verdict' = Verdict
BY DEF Inv, Typed, Open, ToOpen, FeedLeft, Verdict

LEMMA ScanEndsFeeds ==
  ASSUME Inv, NEW t \in Tags, ScanEnds(t)
  PROVE  FeedLeft' = FeedLeft /\ got' = got /\ Verdict' = Verdict
BY DEF Inv, Typed, ScanEnds, FeedLeft, Verdict

LEMMA ScanFeeds ==
  ASSUME Inv, NEW t \in Tags, Scan(t)
  PROVE  Feed!Next \/ UNCHANGED Feed!vars
<1>0. Typed
  BY DEF Inv
<1>1. left[t] \in Seq(Items) /\ left[t] # <<>> /\ Head(left[t]) \in Items
  BY <1>0, Rest DEF Typed, Scan
<1>2. CASE Kept(Head(left[t]))
  <2>1. FeedLeft[t] = left[t] /\ FeedLeft' = [FeedLeft EXCEPT ![t] = Tail(@)]
    BY <1>0, <1>2 DEF Typed, Scan, FeedLeft
  <2>2. /\ got' = [got EXCEPT ![t] = Append(@, Head(left[t]))]
        /\ Verdict' = Verdict
        /\ Head(left[t]) \notin {"error", "message"}
    BY <1>2 DEF Scan, Kept, Verdict
  <2>3. Feed!Handle(t)
    BY <1>1, <2>1, <2>2, FeedHandles
  <2> QED
    BY <2>3 DEF Feed!Next
<1>3. CASE ~Kept(Head(left[t]))
  <2>1. Head(left[t]) # EOF /\ <<Head(left[t])>> \o Tail(left[t]) = left[t]
    BY <1>1, HeadAndTail DEF Items, EOF
  <2>2. FeedLeft' = FeedLeft
    BY <1>0, <1>3, <2>1 DEF Typed, Scan, FeedLeft
  <2> QED
    BY <1>3, <2>2, FeedStutters DEF Scan, Verdict
<1> QED
  BY <1>2, <1>3

LEMMA NextMessageFeeds ==
  ASSUME Inv, NEW t \in Tags, NextMessage(t)
  PROVE  Feed!Next
<1>0. Typed
  BY DEF Inv
<1>1. left[t] \in Seq(Items) /\ "message" \in Items /\ "message" # EOF
  BY <1>0 DEF Typed, Items, EOF
<1>2. FeedLeft[t] = <<"message">> \o left[t]
  BY <1>1 DEF NextMessage, FeedLeft
<1>3. /\ FeedLeft[t] # <<>> /\ Head(FeedLeft[t]) = "message" /\ Tail(FeedLeft[t]) = left[t]
  BY <1>1, <1>2, Prepend
<1>4. FeedLeft' = [FeedLeft EXCEPT ![t] = left[t]]
  BY <1>0 DEF Typed, NextMessage, FeedLeft
<1>5. Verdict = "open" /\ Verdict' = "open"
  BY DEF NextMessage, Verdict
<1>6. Feed!Handle(t)
  BY <1>3, <1>4, <1>5, FeedHandles DEF NextMessage
<1> QED
  BY <1>6 DEF Feed!Next

LEMMA NextErrorFeeds ==
  ASSUME Inv, NEW t \in Tags, NextError(t)
  PROVE  Feed!Next
<1>0. Typed
  BY DEF Inv
<1>1. left[t] \in Seq(Items) /\ "error" \in Items /\ "error" # EOF
  BY <1>0 DEF Typed, Items, EOF
<1>2. FeedLeft[t] = <<"error">> \o left[t]
  BY <1>1 DEF NextError, FeedLeft
<1>3. FeedLeft[t] # <<>> /\ Head(FeedLeft[t]) = "error" /\ Tail(FeedLeft[t]) = left[t]
  BY <1>1, <1>2, Prepend
<1>4. FeedLeft' = [FeedLeft EXCEPT ![t] = Tail(@)]
  BY <1>0, <1>3 DEF Typed, NextError, FeedLeft
<1>5. Verdict = "open" /\ Verdict' = "error" /\ got' = got
  BY DEF NextError, Verdict
<1>6. Feed!Fail(t)
  BY <1>3, <1>4, <1>5 DEF Feed!Fail, Feed!Error, FeedLeft, Verdict
<1> QED
  BY <1>6 DEF Feed!Next

LEMMA BreakFeeds ==
  ASSUME Inv, NEW t \in Tags, Break(t)
  PROVE  Feed!Next
<1>0. Typed
  BY DEF Inv
<1>1. PICK rest \in {<<>>, <<"error">>} : left' = [left EXCEPT ![t] = rest]
  BY DEF Break
<1>2. FeedLeft' = [FeedLeft EXCEPT ![t] = rest]
  BY <1>0, <1>1 DEF Typed, Break, FeedLeft
<1>3. got' = got /\ Verdict' = Verdict
  BY DEF Break, Verdict
<1>4. Feed!Lose(t)
  BY <1>2, <1>3 DEF Feed!Lose, Feed!Error, FeedLeft, Verdict
<1> QED
  BY <1>4 DEF Feed!Next

\* The end that Listen waited for: every answer has been handled to its end.
LEMMA NextEOFFeeds ==
  ASSUME Inv, NEW t \in Tags, NextEOF(t)
  PROVE  Feed!Next \/ UNCHANGED Feed!vars
<1>0. Typed /\ Typed' /\ Unused' /\ Drained' /\ EndsCounted'
  BY NextEOFInv DEF Inv
<1>1. FeedLeft' = FeedLeft /\ got' = got
  BY <1>0 DEF Typed, NextEOF, FeedLeft
<1>2. CASE listener' = "ok"
  <2>1. Cardinality(Gone') >= 1 /\ Cardinality(Gone') >= expectedEOFs'
    BY <1>0, <1>2 DEF EndsCounted
  <2>2. Gone' \in SUBSET Streams' /\ op' \in Ops
    BY <1>0 DEF Typed, Gone, Unused
  <2>3. op' = op /\ Streams' = Streams /\ expectedEOFs' = expectedEOFs
    BY DEF NextEOF, Streams, expectedEOFs
  <2>4. Gone' = Streams
    BY <2>1, <2>2, <2>3, AllGone
  <2>5. ASSUME NEW u \in Tags PROVE FeedLeft'[u] = <<>>
    <3>1. CASE u \in Streams
      BY <1>0, <2>4, <3>1 DEF Gone, Drained, FeedLeft
    <3>2. CASE u \notin Streams
      BY <1>0, <2>3, <3>2 DEF Unused, FeedLeft
    <3> QED
      BY <3>1, <3>2
  <2>6. Verdict = "open" /\ Verdict' = "ok"
    BY <1>2 DEF NextEOF, Verdict
  <2>7. Feed!Complete
    BY <1>1, <2>5, <2>6 DEF Feed!Complete, FeedLeft, Verdict
  <2> QED
    BY <2>7 DEF Feed!Next
<1>3. CASE listener' # "ok"
  BY <1>1, <1>3, FeedStutters DEF NextEOF, Verdict
<1> QED
  BY <1>2, <1>3

LEMMA OpenFailsFeeds ==
  ASSUME Inv, OpenFails
  PROVE  Feed!Next
<1>1. /\ FeedLeft' = FeedLeft /\ got' = got
      /\ Verdict = "open" /\ Verdict' = "error"
  BY DEF OpenFails, FeedLeft, Verdict
<1>2. \A t \in Tags : \A i \in 1..Len(got[t]) : got[t][i] # "message"
  BY DEF Inv, Quiet, OpenFails
<1>3. Feed!Refuse
  BY <1>1, <1>2 DEF Feed!Refuse, Feed!Visible, FeedLeft, Verdict
<1> QED
  BY <1>3 DEF Feed!Next

LEMMA FeedNext == Inv /\ [Next]_vars => [Feed!Next]_Feed!vars
<1> SUFFICES ASSUME Inv, [Next]_vars PROVE Feed!Next \/ UNCHANGED Feed!vars
  OBVIOUS
<1>1. CASE \E t \in Tags : Open(t)
  BY <1>1, OpenFeeds, FeedStutters
<1>2. CASE StartListening
  <2>1. FeedLeft' = FeedLeft /\ got' = got /\ Verdict' = Verdict
    BY <1>2 DEF StartListening, FeedLeft, Verdict
  <2> QED
    BY <2>1, FeedStutters
<1>3. CASE UNCHANGED vars
  <2>1. FeedLeft' = FeedLeft /\ got' = got /\ Verdict' = Verdict
    BY <1>3 DEF vars, FeedLeft, Verdict
  <2> QED
    BY <2>1, FeedStutters
<1>4. CASE OpenFails \/ \E t \in Tags : NextEOF(t) \/ NextMessage(t) \/ NextError(t)
  BY <1>4, OpenFailsFeeds, NextEOFFeeds, NextMessageFeeds, NextErrorFeeds
<1>5. CASE \E t \in Tags : Reader(t)
  <2>1. ASSUME NEW t \in Tags, ScanEnds(t) PROVE UNCHANGED Feed!vars
    BY <2>1, ScanEndsFeeds, FeedStutters
  <2> QED
    BY <1>5, <2>1, ScanFeeds, BreakFeeds DEF Reader
<1> QED
  BY <1>1, <1>2, <1>3, <1>4, <1>5 DEF Next, Listener, Finished

\* DockerStream implements MessageFeed: for any number of tags, per answer nothing
\* is lost, repeated or out of order, no error is dropped, and nil means complete.
THEOREM ImplementsFeed == Spec => FeedSpec
<1>1. Init => Feed!Init
  BY FeedInit
<1>2. Inv /\ [Next]_vars => [Feed!Next]_Feed!vars
  BY FeedNext
<1> QED
  BY <1>1, <1>2, InvInvariant, PTL DEF Spec, FeedSpec, Feed!Spec
HIDE ConstantsAssumption DEF call
-----------------------------------------------------------------------------
(*                                VERSIONS                                 *)

\* The frames of a stack of calls.
Frames ==
  [kind : {"define"}, left : Int]
    \cup [kind : {"version"}, at : {"load", "increment", "test", "unload", "decrement"}]

\* A file that is whole has the modules it had in the beginning.
SameModules(f) == f.whole => Len(f.mods) = Len(scenario.doc.mods)

\* Type correctness, which needs that no editor changes the number of modules:
\* Where(a) is a module of every file that is read.
StateTyped ==
  /\ scenario \in Scenarios
  /\ file \in Contents
  /\ pc \in [Actors -> {"start", "open", "update", "replace", "copy", "resolve"} \cup Ended]
  /\ doc \in [Actors -> Contents] /\ value \in [Actors -> Nat]
  /\ temp \in [Actors -> Contents] /\ bad \in [Actors -> BOOLEAN]
  /\ meddled \in [Actors -> BOOLEAN] /\ causes \subseteq {"fault", "race", "crash"}
  /\ calls \in [Actors -> Seq(Frames)] /\ loaded \in [Actors -> Int]
  /\ depth \in [Actors -> Int] /\ outcome \in [Actors -> Seq({"resolved", "deep", "torn"})]
  /\ SameModules(file) /\ \A a \in Actors : SameModules(doc[a]) /\ SameModules(temp[a])

\* What an editor that nobody disturbs writes.
Editing(a) == pc[a] \in {"open", "update", "replace", "copy"}
Written(a) == Modify(doc[a], Target(doc[a], Where(a)), value[a])

-----------------------------------------------------------------------------
USE DEF Contents, None, Templated

\* In the beginning the file is the scenario's and nobody has read it.
LEMMA StartTyped == VersionsInit => StateTyped
<1> SUFFICES ASSUME VersionsInit PROVE StateTyped
  OBVIOUS
<1>1. scenario \in Scenarios /\ file = scenario.doc
  BY DEF VersionsInit
<1>2. file \in Contents
  BY <1>1, ScenariosAssumption
<1>3. pc \in [Actors -> {"start", "open", "update", "replace", "copy", "resolve"} \cup Ended]
  BY DEF VersionsInit, Ended
<1>4. Empty \in Contents
  BY DEF Empty
<1>. QED
  BY <1>1, <1>2, <1>3, <1>4 DEF VersionsInit, StateTyped, Frames, SameModules, Empty

\* Changing a version changes neither the modules nor whether the file is whole.
LEMMA ModifyIsContents ==
  ASSUME NEW d \in Contents, NEW t \in 0..Len(d.mods), NEW v \in Nat
  PROVE  /\ Modify(d, t, v) \in Contents
         /\ Modify(d, t, v).whole = d.whole
         /\ Len(Modify(d, t, v).mods) = Len(d.mods)
<1>1. CASE t = 0
  BY <1>1 DEF Modify
<1>2. CASE t # 0
  <2>1. [d.mods EXCEPT ![t] = v] \in Seq(Nat \cup {-1})
        /\ Len([d.mods EXCEPT ![t] = v]) = Len(d.mods)
    BY <1>2, ExceptSeq
  <2>. QED
    BY <1>2, <2>1 DEF Modify
<1>. QED
  BY <1>1, <1>2

\* The version that is written is the project's or that of the actor's module.
LEMMA TargetIsModule ==
  ASSUME NEW d, NEW m \in Nat
  PROVE  Target(d, m) \in {0, m}
BY DEF Target

\* What is written is what is read, unless the module's version hides the
\* project's.
LEMMA WrittenIsRead ==
  ASSUME NEW d \in Contents, NEW m \in 0..Len(d.mods), NEW v \in Nat \ {0},
         ~(m # 0 /\ Len(d.mods) = 1 /\ d.mods[m] # None /\ d.root # None)
  PROVE  Unresolved(Modify(d, Target(d, m), v), m) = v
<1>. DEFINE t == Target(d, m)
            w == Modify(d, t, v)
<1>1. CASE t = 0
  <2>1. w = [d EXCEPT !.root = v]
    BY <1>1 DEF Modify
  <2>2. w.root = v /\ w.mods = d.mods
    BY <2>1
  <2>3. m # 0 => d.mods[m] = None
    <3>0. d.mods \in Seq(Nat \cup {-1}) /\ Len(d.mods) \in Nat
      OBVIOUS
    <3>1. m # 0 => Len(d.mods) = 1
      <4>. SUFFICES ASSUME m # 0 PROVE Len(d.mods) = 1
        OBVIOUS
      <4>1. ~(Len(d.mods) > 1)
        BY <1>1 DEF Target
      <4>3. Len(d.mods) >= 1
        BY <3>0
      <4>2. \A n \in Nat : n >= 1 /\ ~(n > 1) => n = 1
        OBVIOUS
      <4>. QED
        BY <3>0, <4>1, <4>2, <4>3, Zenon
    <3>2. m # 0 /\ d.mods[m] # None => d.root # None
      BY <1>1, <3>1 DEF Target
    <3>. QED
      BY <3>1, <3>2
  <2>. QED
    BY <2>2, <2>3 DEF Unresolved
<1>2. CASE t # 0
  <2>1. t = m /\ m \in DOMAIN d.mods
    BY <1>2 DEF Target
  <2>2. w.mods = [d.mods EXCEPT ![m] = v]
    BY <1>2, <2>1 DEF Modify
  <2>3. w.mods[m] = v
    BY <2>1, <2>2
  <2>. QED
    BY <1>2, <2>1, <2>3 DEF Unresolved
<1>. QED
  BY <1>1, <1>2
-----------------------------------------------------------------------------
(* Stacks.                                                                 *)

\* Pushing an element.
LEMMA Push ==
  ASSUME NEW S, NEW x \in S, NEW s \in Seq(S)
  PROVE  /\ <<x>> \o s \in Seq(S) /\ Len(<<x>> \o s) = Len(s) + 1
         /\ <<x>> \o s # <<>>
         /\ Head(<<x>> \o s) = x
         /\ (<<x>> \o s)[1] = x
         /\ \A i \in 2..(Len(s) + 1) : (<<x>> \o s)[i] = s[i - 1]
<1>1. <<x>> \in Seq(S) /\ Len(<<x>>) = 1 /\ <<x>>[1] = x
  OBVIOUS
<1>2. /\ <<x>> \o s \in Seq(S) /\ Len(<<x>> \o s) = Len(s) + 1
      /\ (<<x>> \o s)[1] = x
      /\ \A i \in 2..(Len(s) + 1) : (<<x>> \o s)[i] = s[i - 1]
  BY <1>1, ConcatProperties
<1>3. <<x>> \o s # <<>>
  BY <1>2
<1>. QED
  BY <1>2, <1>3, HeadTailProperties

\* Taking one off.
LEMMA Pop ==
  ASSUME NEW S, NEW s \in Seq(S), s # <<>>
  PROVE  /\ Head(s) \in S /\ Head(s) = s[1]
         /\ Tail(s) \in Seq(S) /\ Len(Tail(s)) = Len(s) - 1 /\ Len(s) >= 1
         /\ \A i \in 1..(Len(s) - 1) : Tail(s)[i] = s[i + 1]
<1>1. Head(s) \in S /\ Tail(s) \in Seq(S) /\ Len(Tail(s)) = Len(s) - 1
      /\ \A i \in 1..Len(Tail(s)) : Tail(s)[i] = s[i + 1]
  BY HeadTailProperties
<1>2. Len(s) \in Nat /\ Len(s) # 0
  OBVIOUS
<1>. QED
  BY <1>1, <1>2

\* Exchanging the innermost one.
LEMMA Exchange ==
  ASSUME NEW S, NEW x \in S, NEW s \in Seq(S), s # <<>>
  PROVE  LET r == <<x>> \o Tail(s)
         IN  /\ r \in Seq(S) /\ Len(r) = Len(s) /\ r # <<>> /\ Head(r) = x /\ r[1] = x
             /\ \A i \in 2..Len(s) : r[i] = s[i]
<1>1. Tail(s) \in Seq(S) /\ Len(Tail(s)) = Len(s) - 1 /\ Len(s) \in Nat /\ Len(s) >= 1
      /\ \A i \in 1..(Len(s) - 1) : Tail(s)[i] = s[i + 1]
  BY Pop
<1>. DEFINE r == <<x>> \o Tail(s)
<1>2. /\ r \in Seq(S) /\ Len(r) = Len(s) /\ r # <<>> /\ Head(r) = x /\ r[1] = x
      /\ \A i \in 2..Len(s) : r[i] = Tail(s)[i - 1]
  BY <1>1, Push
<1>3. \A i \in 2..Len(s) : r[i] = s[i]
  BY <1>1, <1>2
<1>. QED
  BY <1>2, <1>3

\* What the scenarios are, of one actor.
LEMMA ScenarioTyped ==
  ASSUME StateTyped, NEW a \in Actors
  PROVE  /\ Where(a) \in 0..Len(scenario.doc.mods) /\ Process(a) \in Actors
         /\ Command(a) \in {"none", "print", "build", "bump", "set"}
         /\ Define \in Frames /\ Version \in Frames
         /\ Define.kind = "define" /\ Version.kind = "version" /\ Version.at = "load"
         /\ scenario.limit \in Nat /\ scenario.limit >= 1
<1>1. scenario \in Scenarios
  BY DEF StateTyped
<1>2. /\ scenario.command \in [Actors -> {"none", "print", "build", "bump", "set"}]
      /\ scenario.where \in [Actors -> 0..Len(scenario.doc.mods)]
      /\ scenario.process \in [Actors -> Actors]
      /\ scenario.refs \in Nat /\ scenario.limit \in Nat \ {0}
  BY <1>1, ScenariosAssumption
<1>. QED
  BY <1>2 DEF Where, Process, Command, Define, Version, Frames
-----------------------------------------------------------------------------
(* Type correctness.                                                       *)

\* The values of pc.
Steps == {"start", "open", "update", "replace", "copy", "resolve"} \cup Ended

\* Read is the only step that takes a file over into doc.
LEMMA ReadTyped ==
  ASSUME StateTyped, NEW a \in Actors, Read(a)
  PROVE  StateTyped'
<1>. USE DEF Steps
<1>1. /\ pc' \in [Actors -> Steps] /\ value' \in [Actors -> Nat]
      /\ calls' \in [Actors -> Seq(Frames)]
  <2>1. Define \in Frames /\ Version \in Frames
    BY ScenarioTyped
  <2>2. <<Define>> \in Seq(Frames) /\ <<Version>> \in Seq(Frames)
    BY <2>1
  <2>. DEFINE v == Unresolved(file, Where(a))
  <2>3. CASE ~file.whole
    BY <2>3 DEF StateTyped, Read, Goto, Ended
  <2>4. CASE file.whole /\ Command(a) = "print"
    <3>1. /\ pc' = [pc EXCEPT ![a] = IF Unresolved(file, Where(a)) = None THEN "failed" ELSE "resolve"]
          /\ value' = value /\ calls' = [calls EXCEPT ![a] = <<Version>>]
      BY <2>4 DEF Read, Goto
    <3>. QED
      BY <2>2, <3>1 DEF StateTyped, Ended, NewVersion
  <2>5. CASE file.whole /\ Command(a) = "build"
    <3>1. /\ pc' = [pc EXCEPT ![a] = "resolve"]
          /\ value' = value /\ calls' = [calls EXCEPT ![a] = <<Define>>]
      BY <2>5 DEF Read, Goto
    <3>. QED
      BY <2>2, <3>1 DEF StateTyped, Ended, NewVersion
  <2>6. CASE file.whole /\ Command(a) = "bump"
    <3>1. v + 1 \in Nat
      <4>1. Where(a) \in 0..Len(file.mods)
        BY <2>6, ScenarioTyped DEF StateTyped, SameModules
      <4>2. file.root \in Nat \cup {-1} /\ file.mods \in Seq(Nat \cup {-1})
        BY DEF StateTyped
      <4>3. Where(a) # 0 => file.mods[Where(a)] \in Nat \cup {-1}
        BY <4>1, <4>2
      <4>. QED
        BY <2>6, <4>2, <4>3 DEF Unresolved
    <3>2. /\ pc' = [pc EXCEPT ![a] = IF v \in {None, Templated} THEN "failed" ELSE "open"]
          /\ value' = [value EXCEPT ![a] = v + 1] /\ calls' = calls
      BY <2>6 DEF Read, Goto
    <3>. HIDE DEF v
    <3>. QED
      BY <3>1, <3>2 DEF StateTyped, Ended
  <2>7. CASE file.whole /\ Command(a) = "set"
    <3>1. /\ pc' = [pc EXCEPT ![a] = "open"]
          /\ value' = [value EXCEPT ![a] = NewVersion] /\ calls' = calls
      BY <2>7 DEF Read, Goto
    <3>. QED
      BY <2>2, <3>1 DEF StateTyped, Ended, NewVersion
  <2>. QED
    BY <2>3, <2>4, <2>5, <2>6, <2>7 DEF Read
<1>2. /\ scenario' = scenario /\ file' = file /\ temp' = temp /\ bad' = bad /\ loaded' = loaded
      /\ depth' = depth /\ outcome' = outcome /\ causes' = causes
      /\ doc' = [doc EXCEPT ![a] = file] /\ meddled' = [meddled EXCEPT ![a] = FALSE]
  BY DEF Read
<1>3. \A b \in Actors : doc'[b] = IF b = a THEN file ELSE doc[b]
  BY <1>2 DEF StateTyped
<1>4. doc' \in [Actors -> Contents] /\ meddled' \in [Actors -> BOOLEAN]
  BY <1>2 DEF StateTyped
<1>5. \A b \in Actors : SameModules(doc[b])' /\ SameModules(temp[b])'
  BY <1>2, <1>3 DEF StateTyped, SameModules
<1>6. SameModules(file)'
  BY <1>2 DEF StateTyped, SameModules
<1>. QED
  BY <1>1, <1>2, <1>4, <1>5, <1>6 DEF StateTyped, Frames

\* Editing leaves the resolving alone, and resolving the editing.
LEMMA StillTyped ==
  ASSUME StateTyped, NEW a \in Actors, UNCHANGED <<scenario, doc>>,
         file' \in Contents /\ SameModules(file)', pc' \in [Actors -> Steps],
         UNCHANGED resolving,
         value' \in [Actors -> Nat], bad' \in [Actors -> BOOLEAN], meddled' \in [Actors -> BOOLEAN],
         causes' \subseteq {"fault", "race", "crash"},
         NEW t \in Contents, temp' = [temp EXCEPT ![a] = t], SameModules(t)
  PROVE  StateTyped'
<1>1. temp' \in [Actors -> Contents]
  BY DEF StateTyped
<1>2. \A b \in Actors : temp'[b] = IF b = a THEN t ELSE temp[b]
  BY DEF StateTyped
<1>3. \A b \in Actors : SameModules(doc[b])' /\ SameModules(temp[b])'
  BY <1>2 DEF StateTyped, SameModules
<1>4. calls' = calls /\ loaded' = loaded /\ depth' = depth /\ outcome' = outcome
  BY DEF resolving
<1>. QED
  BY <1>1, <1>3, <1>4 DEF StateTyped, Steps, Frames

\* The steps of an editor keep the types.
LEMMA EditTyped ==
  ASSUME StateTyped, NEW a \in Actors,
         OpenTemp(a) \/ Update(a) \/ Replace(a) \/ CopyContents(a) \/ Crash(a)
  PROVE  StateTyped'
<1>. USE DEF Goto, Ended, Steps
<1>0. temp[a] \in Contents /\ SameModules(temp[a]) /\ temp = [temp EXCEPT ![a] = temp[a]]
  BY DEF StateTyped
<1>1. Empty \in Contents /\ SameModules(Empty)
  BY DEF Empty, SameModules
<1>2. CASE OpenTemp(a) \/ Crash(a)
  <2>1. /\ UNCHANGED <<scenario, doc, file, value, temp, bad, meddled, resolving>>
        /\ pc' \in [Actors -> Steps] /\ causes' \subseteq {"fault", "race", "crash"}
    BY <1>2 DEF OpenTemp, Crash, StateTyped, editing
  <2>2. file' \in Contents /\ SameModules(file)'
    BY <2>1 DEF StateTyped, SameModules
  <2>. QED
    BY <1>0, <2>1, <2>2, StillTyped DEF StateTyped
<1>3. CASE Update(a)
  <2>. DEFINE t == Target(doc[a], Where(a))
  <2>1. PICK fails \in BOOLEAN :
          /\ bad' = [bad EXCEPT ![a] = fails]
          /\ temp' = [temp EXCEPT ![a] =
               IF fails \/ ~file.whole THEN Empty ELSE Modify(file, t, value[a])]
          /\ causes' = causes \cup (IF fails THEN {"fault"} ELSE {})
                              \cup (IF file.whole THEN {} ELSE {"race"})
    BY <1>3 DEF Update
  <2>2. UNCHANGED <<scenario, file, doc, value, resolving, meddled>>
        /\ pc' = [pc EXCEPT ![a] = "replace"]
    BY <1>3 DEF Update
  <2>3. file.whole => Modify(file, t, value[a]) \in Contents /\ SameModules(Modify(file, t, value[a]))
    <3>1. Where(a) \in 0..Len(scenario.doc.mods) /\ file \in Contents /\ value[a] \in Nat
      BY ScenarioTyped DEF StateTyped
    <3>2. t \in 0..Len(scenario.doc.mods)
      BY <3>1, TargetIsModule
    <3>3. file.whole => t \in 0..Len(file.mods)
      BY <3>2 DEF StateTyped, SameModules
    <3>. HIDE DEF t
    <3>. QED
      BY <3>1, <3>3, ModifyIsContents DEF StateTyped, SameModules
  <2>. DEFINE new == IF fails \/ ~file.whole THEN Empty ELSE Modify(file, t, value[a])
  <2>4. new \in Contents /\ SameModules(new) /\ temp' = [temp EXCEPT ![a] = new]
    BY <1>1, <2>1, <2>3
  <2>5. pc' \in [Actors -> Steps] /\ value' \in [Actors -> Nat] /\ bad' \in [Actors -> BOOLEAN]
        /\ meddled' \in [Actors -> BOOLEAN] /\ causes' \subseteq {"fault", "race", "crash"}
        /\ file' \in Contents /\ SameModules(file)'
    BY <2>1, <2>2 DEF StateTyped, SameModules
  <2>. HIDE DEF new
  <2>. QED
    BY <2>2, <2>4, <2>5, StillTyped
<1>4. CASE Replace(a) \/ CopyContents(a)
  <2>1. /\ UNCHANGED <<scenario, doc, value, temp, bad, resolving>>
        /\ pc' \in [Actors -> Steps] /\ causes' \subseteq {"fault", "race", "crash"}
    BY <1>4 DEF Replace, CopyContents, StateTyped
  <2>2. \/ file' \in {temp[a], Empty} /\ meddled' \in [Actors -> BOOLEAN]
        \/ UNCHANGED <<file, meddled>>
    BY <1>4 DEF Replace, CopyContents, Replaced, StateTyped
  <2>3. file' \in Contents /\ SameModules(file)' /\ meddled' \in [Actors -> BOOLEAN]
    BY <1>0, <1>1, <2>1, <2>2 DEF StateTyped, SameModules
  <2>. QED
    BY <1>0, <2>1, <2>3, StillTyped DEF StateTyped
<1>. QED
  BY <1>2, <1>3, <1>4

\* The steps of a resolution.
Ats == {"load", "increment", "test", "unload", "decrement"}

\* A frame that goes on is a frame of the same kind.
LEMMA FrameUpdates ==
  ASSUME NEW f \in Frames, NEW at \in Ats
  PROVE  /\ [f EXCEPT !.left = @ - 1] \in Frames /\ [f EXCEPT !.left = @ - 1].kind = f.kind
         /\ [f EXCEPT !.at = at] \in Frames /\ [f EXCEPT !.at = at].kind = f.kind
         /\ f.kind = "version" => [f EXCEPT !.at = at].at = at
         /\ f.kind \in {"define", "version"}
<1>1. CASE f \in [kind : {"define"}, left : Int]
  <2>1. [f EXCEPT !.at = at] = f
    BY <1>1
  <2>. QED
    BY <1>1, <2>1 DEF Frames
<1>2. CASE f \in [kind : {"version"}, at : Ats]
  <2>1. [f EXCEPT !.left = @ - 1] = f
    BY <1>2
  <2>2. [f EXCEPT !.at = at] \in [kind : {"version"}, at : Ats] /\ [f EXCEPT !.at = at].at = at
    BY <1>2
  <2>. QED
    BY <1>2, <2>1, <2>2 DEF Frames, Ats
<1>. QED
  BY <1>1, <1>2 DEF Frames, Ats

\* What a step does to the kinds of the frames on a stack.
SameKinds(s, r) ==
  /\ r \in Seq(Frames) /\ r # <<>> /\ Len(r) = Len(s)
  /\ \A i \in 1..Len(s) : r[i].kind = s[i].kind

Deeper(s, r, kind) ==
  /\ r \in Seq(Frames) /\ r # <<>> /\ Len(r) = Len(s) + 1
  /\ r[1].kind = kind
  /\ \A i \in 2..(Len(s) + 1) : r[i].kind = s[i - 1].kind

Shallower(s, r) ==
  /\ r \in Seq(Frames) /\ Len(r) = Len(s) - 1
  /\ \A i \in 1..(Len(s) - 1) : r[i].kind = s[i + 1].kind

\* What exchanging, pushing and taking off do to the kinds.
LEMMA KindsKept ==
  ASSUME NEW s \in Seq(Frames), s # <<>>, NEW f \in Frames, f.kind = s[1].kind
  PROVE  SameKinds(s, <<f>> \o Tail(s)) /\ (<<f>> \o Tail(s))[1] = f
<1>. DEFINE r == <<f>> \o Tail(s)
<1>1. /\ r \in Seq(Frames) /\ Len(r) = Len(s) /\ r # <<>> /\ r[1] = f
      /\ \A i \in 2..Len(s) : r[i] = s[i]
  BY Exchange
<1>2. \A i \in 1..Len(s) : i = 1 \/ i \in 2..Len(s)
  OBVIOUS
<1>3. \A i \in 1..Len(s) : r[i].kind = s[i].kind
  BY <1>1, <1>2, Zenon
<1>. QED
  BY <1>1, <1>3, Zenon DEF SameKinds

\* A call.
LEMMA OneDeeper ==
  ASSUME NEW s \in Seq(Frames), NEW f \in Frames
  PROVE  Deeper(s, <<f>> \o s, f.kind) /\ (<<f>> \o s)[1] = f
<1>. DEFINE r == <<f>> \o s
<1>1. /\ r \in Seq(Frames) /\ Len(r) = Len(s) + 1 /\ r # <<>> /\ r[1] = f
      /\ \A i \in 2..(Len(s) + 1) : r[i] = s[i - 1]
  BY Push
<1>. QED
  BY <1>1, Zenon DEF Deeper

\* A return to the frame below, which is changed.
LEMMA OneShallower ==
  ASSUME NEW s \in Seq(Frames), s # <<>>, Tail(s) # <<>>,
         NEW f \in Frames, f.kind = s[2].kind
  PROVE  LET r == <<f>> \o Tail(Tail(s))
         IN  Shallower(s, r) /\ r # <<>> /\ r[1] = f
<1>. DEFINE r == <<f>> \o Tail(Tail(s))
            t == Tail(s)
<1>1. /\ t \in Seq(Frames) /\ Len(t) = Len(s) - 1 /\ Len(s) \in Nat
      /\ \A i \in 1..(Len(s) - 1) : t[i] = s[i + 1]
  BY Pop
<1>2. Len(t) >= 1
  BY <1>1, Pop
<1>3. t[1] = s[2]
  BY <1>1, <1>2
<1>4. SameKinds(t, r) /\ r[1] = f
  BY <1>1, <1>3, KindsKept
<1>5. \A i \in 1..(Len(s) - 1) : r[i].kind = s[i + 1].kind
  BY <1>1, <1>4 DEF SameKinds
<1>. QED
  BY <1>1, <1>4, <1>5 DEF SameKinds, Shallower

\* A stack of one frame.
LEMMA OnlyOne ==
  ASSUME NEW s \in Seq(Frames), s # <<>>
  PROVE  Tail(s) = <<>> <=> Len(s) = 1
<1>1. Tail(s) \in Seq(Frames) /\ Len(Tail(s)) = Len(s) - 1 /\ Len(s) \in Nat
  BY Pop
<1>2. Tail(s) = <<>> <=> Len(Tail(s)) = 0
  BY <1>1, EmptySeq
<1>. QED
  BY <1>1, <1>2

\* The frame below the innermost.
LEMMA Second ==
  ASSUME NEW s \in Seq(Frames), s # <<>>, Tail(s) # <<>>
  PROVE  s[2] \in Frames /\ Head(Tail(s)) = s[2] /\ Len(s) >= 2
<1>1. /\ Tail(s) \in Seq(Frames) /\ Len(Tail(s)) = Len(s) - 1 /\ Len(s) \in Nat
      /\ \A i \in 1..(Len(s) - 1) : Tail(s)[i] = s[i + 1]
  BY Pop
<1>2. Len(Tail(s)) >= 1 /\ Head(Tail(s)) \in Frames /\ Head(Tail(s)) = Tail(s)[1]
  BY <1>1, Pop
<1>. QED
  BY <1>1, <1>2

\* The stack after a call of Version has returned.
Popped(s) == IF Tail(s) = <<>> THEN Tail(s)
             ELSE <<[Head(Tail(s)) EXCEPT !.left = @ - 1]>> \o Tail(Tail(s))

\* It is shallower by one, and empty if the call was the command's.
LEMMA PoppedIs ==
  ASSUME NEW s \in Seq(Frames), s # <<>>
  PROVE  Shallower(s, Popped(s)) /\ (Popped(s) = <<>> <=> Len(s) = 1)
<1>1. /\ Tail(s) \in Seq(Frames) /\ Len(Tail(s)) = Len(s) - 1 /\ Len(s) \in Nat
      /\ \A i \in 1..(Len(s) - 1) : Tail(s)[i] = s[i + 1]
  BY Pop
<1>2. CASE Tail(s) = <<>>
  <2>1. Popped(s) = Tail(s) /\ Len(s) = 1
    BY <1>2, OnlyOne DEF Popped
  <2>2. Shallower(s, Tail(s))
    BY <1>1, <2>1 DEF Shallower
  <2>. QED
    BY <1>2, <2>1, <2>2
<1>3. CASE Tail(s) # <<>>
  <2>1. s[2] \in Frames /\ Head(Tail(s)) = s[2] /\ Len(s) >= 2
    BY <1>3, Second
  <2>. DEFINE f == [s[2] EXCEPT !.left = @ - 1]
  <2>2. f \in Frames /\ f.kind = s[2].kind
    BY <2>1, FrameUpdates DEF Ats
  <2>3. Popped(s) = <<f>> \o Tail(Tail(s))
    BY <1>3, <2>1 DEF Popped
  <2>. HIDE DEF f
  <2>4. Shallower(s, Popped(s)) /\ Popped(s) # <<>>
    BY <1>3, <2>2, <2>3, OneShallower
  <2>. QED
    BY <1>1, <2>1, <2>4
<1>. QED
  BY <1>2, <1>3

\* What Return does.
LEMMA ReturnIs ==
  ASSUME StateTyped, NEW a \in Actors, NEW result, Return(a, result), calls[a] # <<>>
  PROVE  /\ calls' = [calls EXCEPT ![a] = Popped(calls[a])]
         /\ outcome' = [outcome EXCEPT ![a] =
              IF Len(calls[a]) - 1 <= 1 /\ (Len(calls[a]) # 1 \/ Command(a) = "print")
              THEN Append(@, result) ELSE @]
         /\ pc' = IF Len(calls[a]) = 1 THEN [pc EXCEPT ![a] = "done"] ELSE pc
<1>1. calls[a] \in Seq(Frames)
  BY DEF StateTyped
<1>2. Len(Tail(calls[a])) = Len(calls[a]) - 1
  BY <1>1, Pop
<1>3. Tail(calls[a]) = <<>> <=> Len(calls[a]) = 1
  BY <1>1, OnlyOne
<1>. QED
  BY <1>2, <1>3 DEF Return, Popped, Goto
-----------------------------------------------------------------------------
(* The steps of a resolution.                                              *)

\* A step of a resolution.
Resolving(a) == Reference(a) \/ Load(a) \/ Increment(a) \/ Test(a) \/ Defined(a) \/ Decrement(a)

\* What they have in common.
LEMMA OfTheActorOnly ==
  ASSUME StateTyped, NEW a \in Actors, Resolving(a)
  PROVE  /\ UNCHANGED <<scenario, file, editing>> /\ pc[a] = "resolve"
         /\ \E r : calls' = [calls EXCEPT ![a] = r]
         /\ \E n : loaded' = [loaded EXCEPT ![a] = n]
         /\ \E n : depth' = [depth EXCEPT ![Process(a)] = n]
         /\ \E o : outcome' = [outcome EXCEPT ![a] = o]
         /\ pc' = pc \/ pc' = [pc EXCEPT ![a] = "done"]
<1>. USE DEF StateTyped, Step, Return, Goto, At, Defining
<1>1. /\ loaded = [loaded EXCEPT ![a] = loaded[a]] /\ outcome = [outcome EXCEPT ![a] = outcome[a]]
      /\ depth = [depth EXCEPT ![Process(a)] = depth[Process(a)]]
  OBVIOUS
<1>2. CASE Reference(a)
  BY <1>1, <1>2 DEF Reference
<1>3. CASE Load(a)
  BY <1>1, <1>3 DEF Load
<1>4. CASE Increment(a)
  BY <1>1, <1>4 DEF Increment
<1>5. CASE Test(a)
  BY <1>1, <1>5 DEF Test
<1>6. CASE Defined(a)
  BY <1>1, <1>6 DEF Defined
<1>7. CASE Decrement(a)
  BY <1>1, <1>7 DEF Decrement
<1>. QED
  BY <1>2, <1>3, <1>4, <1>5, <1>6, <1>7 DEF Resolving

\* The top of a stack.
LEMMA TopIs ==
  ASSUME StateTyped, NEW a \in Actors, calls[a] # <<>>
  PROVE  /\ calls[a] \in Seq(Frames) /\ Top(a) \in Frames /\ Top(a) = calls[a][1]
         /\ Len(calls[a]) \in Nat /\ Len(calls[a]) >= 1
<1>1. calls[a] \in Seq(Frames)
  BY DEF StateTyped
<1>. QED
  BY <1>1, Pop DEF Top

\* Step goes on with the innermost frame.
LEMMA StepIs ==
  ASSUME StateTyped, NEW a \in Actors, calls[a] # <<>>, NEW at \in Ats, Step(a, at),
         Top(a).kind = "version"
  PROVE  SameKinds(calls[a], calls'[a]) /\ calls'[a][1].at = at
<1>. DEFINE f == [calls[a][1] EXCEPT !.at = at]
<1>1. calls[a] \in Seq(Frames) /\ Top(a) \in Frames /\ Top(a) = calls[a][1]
  BY TopIs
<1>2. calls'[a] = <<f>> \o Tail(calls[a])
  BY <1>1 DEF Step, StateTyped, Top
<1>3. f \in Frames /\ f.kind = calls[a][1].kind /\ f.at = at
  BY <1>1, FrameUpdates
<1>. HIDE DEF f
<1>. QED
  BY <1>1, <1>2, <1>3, KindsKept

\* A reference starts a resolution, or is one less that is left.
LEMMA ReferenceIs ==
  ASSUME StateTyped, NEW a \in Actors, calls[a] # <<>>, Reference(a)
  PROVE  /\ Top(a).kind = "define" /\ UNCHANGED <<pc, depth, loaded>>
         /\ \/ Deeper(calls[a], calls'[a], "version") /\ calls'[a][1].at = "load"
               /\ outcome' = outcome
            \/ SameKinds(calls[a], calls'[a])
               /\ outcome'[a] = IF Len(calls[a]) = 1 THEN Append(outcome[a], "torn") ELSE outcome[a]
<1>1. calls[a] \in Seq(Frames) /\ Top(a) \in Frames /\ Top(a) = calls[a][1]
  BY TopIs
<1>2. Top(a).kind = "define" /\ UNCHANGED <<pc, depth, loaded>>
  BY DEF Reference, Defining
<1>3. CASE file.whole
  <2>1. calls'[a] = <<Version>> \o calls[a] /\ outcome' = outcome
    BY <1>3 DEF Reference, StateTyped
  <2>2. Version \in Frames /\ Version.kind = "version" /\ Version.at = "load"
    BY ScenarioTyped
  <2>. HIDE DEF Version
  <2>. QED
    BY <1>1, <1>2, <2>1, <2>2, OneDeeper
<1>4. CASE ~file.whole
  <2>. DEFINE f == [Top(a) EXCEPT !.left = @ - 1]
  <2>1. calls' = [calls EXCEPT ![a] = <<[Top(a) EXCEPT !.left = Top(a).left - 1]>> \o Tail(@)]
    BY <1>4 DEF Reference
  <2>2. calls'[a] = <<f>> \o Tail(calls[a])
    BY <2>1 DEF StateTyped
  <2>3. outcome'[a] = IF Len(calls[a]) = 1 THEN Append(outcome[a], "torn") ELSE outcome[a]
    BY <1>4 DEF Reference, StateTyped
  <2>5. f \in Frames /\ f.kind = Top(a).kind
    BY <1>1, FrameUpdates DEF Ats
  <2>. HIDE DEF f
  <2>6. SameKinds(calls[a], calls'[a])
    BY <1>1, <2>2, <2>5, KindsKept
  <2>. QED
    BY <1>2, <2>3, <2>6
<1>. QED
  BY <1>3, <1>4

\* The counter is read, at the beginning or at the end of a resolution.
LEMMA LoadIs ==
  ASSUME StateTyped, NEW a \in Actors, calls[a] # <<>>, Load(a)
  PROVE  /\ Top(a).kind = "version" /\ UNCHANGED <<pc, depth, outcome>>
         /\ loaded'[a] = depth[Process(a)]
         /\ SameKinds(calls[a], calls'[a])
         /\ \/ Top(a).at = "load" /\ calls'[a][1].at = "increment"
            \/ Top(a).at = "unload" /\ calls'[a][1].at = "decrement"
<1>1. Top(a).kind = "version" /\ UNCHANGED <<pc, depth, outcome>> /\ loaded'[a] = depth[Process(a)]
  BY DEF Load, At, StateTyped
<1>2. CASE At(a, "load")
  BY <1>1, <1>2, StepIs DEF Load, At, Ats
<1>3. CASE At(a, "unload")
  <2>1. Step(a, "decrement")
    BY <1>3 DEF Load, At
  <2>. QED
    BY <1>1, <1>3, <2>1, StepIs DEF At, Ats
<1>. QED
  BY <1>2, <1>3 DEF Load

\* The counter is written from what was read.
LEMMA IncrementIs ==
  ASSUME StateTyped, NEW a \in Actors, calls[a] # <<>>, Increment(a)
  PROVE  /\ Top(a).kind = "version" /\ Top(a).at = "increment" /\ UNCHANGED <<pc, loaded, outcome>>
         /\ depth'[Process(a)] = loaded[a] + 1
         /\ SameKinds(calls[a], calls'[a]) /\ calls'[a][1].at = "test"
<1>1. /\ Top(a).kind = "version" /\ Top(a).at = "increment" /\ UNCHANGED <<pc, loaded, outcome>>
      /\ depth'[Process(a)] = loaded[a] + 1 /\ Step(a, "test")
  BY ScenarioTyped DEF Increment, At, StateTyped
<1>. QED
  BY <1>1, StepIs DEF Ats

\* Test returns, uses the cache or calculates the definition.
LEMMA TestIs ==
  ASSUME StateTyped, NEW a \in Actors, calls[a] # <<>>, Test(a)
  PROVE  /\ Top(a).kind = "version" /\ Top(a).at = "test" /\ UNCHANGED <<depth, loaded>>
         /\ \/ /\ depth[Process(a)] > scenario.limit
               /\ Return(a, "deep")
            \/ /\ ~(depth[Process(a)] > scenario.limit) /\ UNCHANGED <<pc, outcome>>
               /\ SameKinds(calls[a], calls'[a]) /\ calls'[a][1].at = "unload"
            \/ /\ ~(depth[Process(a)] > scenario.limit) /\ UNCHANGED <<pc, outcome>>
               /\ Deeper(calls[a], calls'[a], "define")
<1>1. Top(a).kind = "version" /\ Top(a).at = "test" /\ UNCHANGED <<depth, loaded>>
  BY DEF Test, At
<1>2. CASE depth[Process(a)] > scenario.limit
  BY <1>1, <1>2 DEF Test
<1>3. CASE ~(depth[Process(a)] > scenario.limit) /\ a \in cached
  <2>1. Step(a, "unload") /\ UNCHANGED <<pc, outcome>>
    BY <1>3 DEF Test
  <2>. QED
    BY <1>1, <1>3, <2>1, StepIs DEF Ats
<1>4. CASE ~(depth[Process(a)] > scenario.limit) /\ a \notin cached
  <2>1. calls'[a] = <<Define>> \o calls[a] /\ UNCHANGED <<pc, outcome>>
    BY <1>4 DEF Test, StateTyped
  <2>2. calls[a] \in Seq(Frames) /\ Define \in Frames /\ Define.kind = "define"
    BY ScenarioTyped, TopIs
  <2>. HIDE DEF Define
  <2>. QED
    BY <1>1, <1>4, <2>1, <2>2, OneDeeper
<1>. QED
  BY <1>2, <1>3, <1>4

\* A calculated definition goes to whoever asked for it.
LEMMA DefinedIs ==
  ASSUME StateTyped, NEW a \in Actors, calls[a] # <<>>, Defined(a)
  PROVE  /\ Top(a).kind = "define" /\ UNCHANGED <<depth, loaded, outcome>>
         /\ \/ Len(calls[a]) = 1 /\ calls'[a] = <<>> /\ pc' = [pc EXCEPT ![a] = "done"]
            \/ /\ Len(calls[a]) >= 2 /\ Shallower(calls[a], calls'[a]) /\ calls'[a] # <<>>
               /\ calls'[a][1].kind = "version" => calls'[a][1].at = "unload"
               /\ pc' = pc
<1>1. calls[a] \in Seq(Frames) /\ Top(a) \in Frames /\ Top(a) = calls[a][1]
  BY TopIs
<1>2. Top(a).kind = "define" /\ UNCHANGED <<depth, loaded, outcome>>
  BY DEF Defined, Defining
<1>3. CASE Tail(calls[a]) = <<>>
  <2>1. calls'[a] = <<>> /\ pc' = [pc EXCEPT ![a] = "done"]
    BY <1>3 DEF Defined, Goto, StateTyped
  <2>. QED
    BY <1>1, <1>2, <1>3, <2>1, OnlyOne
<1>4. CASE Tail(calls[a]) # <<>>
  <2>. DEFINE f == [calls[a][2] EXCEPT !.at = "unload"]
  <2>1. calls'[a] = <<f>> \o Tail(Tail(calls[a])) /\ pc' = pc
    BY <1>4 DEF Defined, StateTyped
  <2>2. calls[a][2] \in Frames /\ Len(calls[a]) >= 2
    BY <1>1, <1>4, Second
  <2>3. f \in Frames /\ f.kind = calls[a][2].kind /\ (f.kind = "version" => f.at = "unload")
    BY <2>2, FrameUpdates DEF Ats
  <2>. HIDE DEF f
  <2>4. Shallower(calls[a], calls'[a]) /\ calls'[a] # <<>> /\ calls'[a][1] = f
    BY <1>1, <1>4, <2>1, <2>3, OneShallower
  <2>. QED
    BY <1>2, <2>1, <2>2, <2>3, <2>4
<1>. QED
  BY <1>3, <1>4

\* The counter is written back and the resolution returns.
LEMMA DecrementIs ==
  ASSUME StateTyped, NEW a \in Actors, calls[a] # <<>>, Decrement(a)
  PROVE  /\ Top(a).kind = "version" /\ Top(a).at = "decrement" /\ UNCHANGED loaded
         /\ depth'[Process(a)] = loaded[a] - 1
         /\ Return(a, "resolved")
BY ScenarioTyped DEF Decrement, At, StateTyped

\* The stack stays one of frames, the outcomes stay outcomes.
LEMMA ResolvingTyped ==
  ASSUME StateTyped, NEW a \in Actors, Resolving(a), calls[a] # <<>>
  PROVE  StateTyped'
<1>. USE DEF Steps
<1>1. /\ UNCHANGED <<scenario, file, editing>> /\ pc[a] = "resolve"
      /\ pc' = pc \/ pc' = [pc EXCEPT ![a] = "done"]
  BY OfTheActorOnly
<1>2. /\ file' = file /\ doc' = doc /\ value' = value /\ temp' = temp /\ bad' = bad
      /\ meddled' = meddled /\ causes' = causes /\ scenario' = scenario
  BY <1>1 DEF editing
<1>. DEFINE o == outcome[a]
<1>3. o \in Seq({"resolved", "deep", "torn"})
      /\ \A x \in {"resolved", "deep", "torn"} : Append(o, x) \in Seq({"resolved", "deep", "torn"})
  BY DEF StateTyped
<1>. DEFINE Sound == /\ calls'[a] \in Seq(Frames) /\ loaded'[a] \in Int /\ depth'[Process(a)] \in Int
                     /\ outcome'[a] \in Seq({"resolved", "deep", "torn"})
<1>4. /\ loaded[a] \in Int /\ depth[Process(a)] \in Int
      /\ loaded[a] + 1 \in Int /\ loaded[a] - 1 \in Int
  BY ScenarioTyped DEF StateTyped
<1>5. ASSUME NEW x \in {"resolved", "deep", "torn"}, Return(a, x)
      PROVE  calls'[a] \in Seq(Frames) /\ outcome'[a] \in {o, Append(o, x)}
  <2>1. calls' = [calls EXCEPT ![a] = Popped(calls[a])]
        /\ outcome' = [outcome EXCEPT ![a] =
              IF Len(calls[a]) - 1 <= 1 /\ (Len(calls[a]) # 1 \/ Command(a) = "print")
              THEN Append(@, x) ELSE @]
    BY <1>5, ReturnIs
  <2>2. Popped(calls[a]) \in Seq(Frames)
    BY PoppedIs, TopIs DEF Shallower
  <2>. QED
    BY <2>1, <2>2 DEF StateTyped
<1>6. ASSUME Reference(a) PROVE Sound
  <2>1. calls'[a] \in Seq(Frames) /\ outcome'[a] \in {o, Append(o, "torn")}
        /\ depth' = depth /\ loaded' = loaded
    BY <1>6, ReferenceIs DEF Deeper, SameKinds
  <2>. QED
    BY <1>3, <1>4, <2>1
<1>7. ASSUME Load(a) PROVE Sound
  <2>1. calls'[a] \in Seq(Frames) /\ outcome' = outcome /\ depth' = depth /\ loaded'[a] = depth[Process(a)]
    BY <1>7, LoadIs DEF SameKinds
  <2>. QED
    BY <1>3, <1>4, <2>1
<1>8. ASSUME Increment(a) PROVE Sound
  <2>1. calls'[a] \in Seq(Frames) /\ outcome' = outcome /\ loaded' = loaded
        /\ depth'[Process(a)] = loaded[a] + 1
    BY <1>8, IncrementIs DEF SameKinds
  <2>. QED
    BY <1>3, <1>4, <2>1
<1>9. ASSUME Test(a) PROVE Sound
  <2>1. depth' = depth /\ loaded' = loaded
    BY <1>9, TestIs
  <2>2. calls'[a] \in Seq(Frames) /\ outcome'[a] \in {o, Append(o, "deep")}
    BY <1>5, <1>9, TestIs DEF SameKinds, Deeper
  <2>. QED
    BY <1>3, <1>4, <2>1, <2>2
<1>10. ASSUME Defined(a) PROVE Sound
  <2>1. depth' = depth /\ loaded' = loaded /\ outcome' = outcome /\ calls'[a] \in Seq(Frames)
    BY <1>10, DefinedIs, EmptySeq DEF Shallower
  <2>. QED
    BY <1>3, <1>4, <2>1
<1>11. ASSUME Decrement(a) PROVE Sound
  <2>1. Return(a, "resolved") /\ loaded' = loaded /\ depth'[Process(a)] = loaded[a] - 1
    BY <1>11, DecrementIs
  <2>2. calls'[a] \in Seq(Frames) /\ outcome'[a] \in {o, Append(o, "resolved")}
    BY <1>5, <2>1
  <2>. QED
    BY <1>3, <1>4, <2>1, <2>2
<1>12. Sound
  BY <1>6, <1>7, <1>8, <1>9, <1>10, <1>11 DEF Resolving
<1>13. Process(a) \in Actors
  BY ScenarioTyped
<1>14. /\ calls' \in [Actors -> Seq(Frames)] /\ loaded' \in [Actors -> Int] /\ depth' \in [Actors -> Int]
       /\ outcome' \in [Actors -> Seq({"resolved", "deep", "torn"})]
  <2>1. PICK r : calls' = [calls EXCEPT ![a] = r]
    BY OfTheActorOnly
  <2>2. PICK n : loaded' = [loaded EXCEPT ![a] = n]
    BY OfTheActorOnly
  <2>3. PICK m : depth' = [depth EXCEPT ![Process(a)] = m]
    BY OfTheActorOnly
  <2>4. PICK p : outcome' = [outcome EXCEPT ![a] = p]
    BY OfTheActorOnly
  <2>5. /\ r \in Seq(Frames) /\ n \in Int /\ m \in Int
        /\ p \in Seq({"resolved", "deep", "torn"})
    BY <1>12, <1>13, <2>1, <2>2, <2>3, <2>4 DEF StateTyped
  <2>. QED
    BY <1>13, <2>1, <2>2, <2>3, <2>4, <2>5 DEF StateTyped
<1>15. pc' \in [Actors -> Steps]
  BY <1>1 DEF StateTyped, Ended
<1>16. SameModules(file)' /\ \A b \in Actors : SameModules(doc[b])' /\ SameModules(temp[b])'
  BY <1>2 DEF StateTyped, SameModules
<1>. QED
  BY <1>2, <1>14, <1>15, <1>16 DEF StateTyped, Frames
-----------------------------------------------------------------------------
(* What an actor is about.                                                 *)

\* An editor resolves nothing and a builder edits nothing, and whoever resolves
\* has something under way.
RoleOf(a) ==
  /\ Command(a) = "none" => pc[a] = "done"
  /\ Editing(a) => Command(a) \in {"bump", "set"}
  /\ calls[a] # <<>> => Command(a) \in {"print", "build"}
  /\ pc[a] = "resolve" => calls[a] # <<>>
  /\ pc[a] = "start" => calls[a] = <<>>

\* The inductive invariant that the other three rest on.
RoleInv == StateTyped /\ \A a \in Actors : RoleOf(a)

\* The steps of one actor do nothing to another but replace the file, which
\* the other is told, and change the counter of its process.
LEMMA OthersKeep ==
  ASSUME StateTyped, NEW a \in Actors, Work(a) \/ Crash(a), NEW b \in Actors, b # a
  PROVE  /\ scenario' = scenario
         /\ pc'[b] = pc[b] /\ doc'[b] = doc[b] /\ value'[b] = value[b] /\ temp'[b] = temp[b]
         /\ bad'[b] = bad[b] /\ calls'[b] = calls[b] /\ loaded'[b] = loaded[b]
         /\ outcome'[b] = outcome[b]
         /\ meddled'[b] \/ (meddled'[b] = meddled[b] /\ file' = file)
         /\ Process(b) # Process(a) => depth'[Process(b)] = depth[Process(b)]
<1>. USE DEF StateTyped
<1>1. CASE Read(a)
  <2>1. /\ scenario' = scenario /\ file' = file /\ temp' = temp /\ bad' = bad /\ loaded' = loaded
        /\ depth' = depth /\ outcome' = outcome
        /\ doc' = [doc EXCEPT ![a] = file] /\ meddled' = [meddled EXCEPT ![a] = FALSE]
    BY <1>1 DEF Read
  <2>2. pc'[b] = pc[b] /\ value'[b] = value[b] /\ calls'[b] = calls[b]
    BY <1>1 DEF Read, Goto
  <2>. QED
    BY <2>1, <2>2
<1>2. CASE OpenTemp(a) \/ Crash(a)
  BY <1>2 DEF OpenTemp, Crash, Goto, editing, resolving
<1>3. CASE Update(a)
  <2>1. UNCHANGED <<scenario, file, doc, value, resolving, meddled>> /\ pc'[b] = pc[b]
    BY <1>3 DEF Update, Goto
  <2>2. bad'[b] = bad[b] /\ temp'[b] = temp[b]
    BY <1>3 DEF Update
  <2>. QED
    BY <2>1, <2>2 DEF resolving
<1>4. CASE Replace(a)
  BY <1>4 DEF Replace, Replaced, Goto, resolving
<1>5. CASE CopyContents(a)
  BY <1>5 DEF CopyContents, Replaced, Goto, resolving
<1>. HIDE DEF StateTyped
<1>6. CASE Resolving(a)
  <2>1. /\ UNCHANGED <<scenario, file, editing>>
        /\ pc' = pc \/ pc' = [pc EXCEPT ![a] = "done"]
    BY <1>6, OfTheActorOnly
  <2>2. PICK r : calls' = [calls EXCEPT ![a] = r]
    BY <1>6, OfTheActorOnly
  <2>3. PICK n : loaded' = [loaded EXCEPT ![a] = n]
    BY <1>6, OfTheActorOnly
  <2>4. PICK m : depth' = [depth EXCEPT ![Process(a)] = m]
    BY <1>6, OfTheActorOnly
  <2>5. PICK o : outcome' = [outcome EXCEPT ![a] = o]
    BY <1>6, OfTheActorOnly
  <2>6. Process(b) \in Actors /\ Process(a) \in Actors
    BY ScenarioTyped
  <2>7. pc'[b] = pc[b] /\ calls'[b] = calls[b] /\ loaded'[b] = loaded[b] /\ outcome'[b] = outcome[b]
        /\ (Process(b) # Process(a) => depth'[Process(b)] = depth[Process(b)])
    BY <2>1, <2>2, <2>3, <2>4, <2>5, <2>6 DEF StateTyped
  <2>. QED
    BY <2>1, <2>7 DEF editing
<1>. QED
  BY <1>1, <1>2, <1>3, <1>4, <1>5, <1>6 DEF Work, Resolving

\* Every step keeps types and roles.
LEMMA RolesKept ==
  ASSUME RoleInv, NEW a \in Actors, Work(a) \/ Crash(a)
  PROVE  RoleInv'
<1>0. StateTyped /\ RoleOf(a) /\ \A b \in Actors : RoleOf(b)
  BY DEF RoleInv
<1>1. scenario' = scenario
  BY <1>0, OfTheActorOnly DEF Work, Crash, Read, OpenTemp, Update, Replace, CopyContents, Resolving
<1>2. Command(a)' = Command(a)
  BY <1>1 DEF Command
<1>3. Work(a) \/ Crash(a) => pc[a] # "done"
  BY <1>0, OfTheActorOnly DEF Work, Crash, Read, OpenTemp, Update, Replace, CopyContents, Resolving
<1>4. ASSUME OpenTemp(a) \/ Update(a) \/ Replace(a) \/ CopyContents(a) \/ Crash(a)
      PROVE  StateTyped' /\ RoleOf(a)'
  <2>1. StateTyped'
    BY <1>0, <1>4, EditTyped
  <2>2. calls' = calls
    BY <1>4 DEF OpenTemp, Update, Replace, CopyContents, Crash, resolving
  <2>3. Editing(a)
    BY <1>4 DEF OpenTemp, Update, Replace, CopyContents, Crash, Editing
  <2>4. pc'[a] \in {"update", "replace", "copy"} \cup Ended
    BY <1>0, <1>4 DEF OpenTemp, Update, Replace, CopyContents, Crash, Goto, StateTyped, Ended
  <2>. QED
    BY <1>0, <1>2, <2>1, <2>2, <2>3, <2>4 DEF RoleOf, Editing, Ended
<1>5. ASSUME Read(a)
      PROVE  StateTyped' /\ RoleOf(a)'
  <2>1. StateTyped'
    BY <1>0, <1>5, ReadTyped
  <2>2. calls[a] = <<>> /\ pc[a] = "start"
    BY <1>0, <1>5 DEF Read, RoleOf
  <2>3. <<Define>> # <<>> /\ <<Version>> # <<>>
    OBVIOUS
  <2>4. \/ pc'[a] = "failed" /\ calls'[a] = calls[a]
        \/ pc'[a] \in {"failed", "resolve"} /\ calls'[a] # <<>> /\ Command(a) \in {"print", "build"}
        \/ pc'[a] \in {"failed", "open"} /\ calls'[a] = calls[a] /\ Command(a) \in {"bump", "set"}
    BY <1>0, <1>5, <2>3, Zenon DEF Read, Goto, StateTyped
  <2>. QED
    BY <1>0, <1>2, <2>1, <2>2, <2>4 DEF RoleOf, Editing
<1>6. ASSUME Resolving(a)
      PROVE  StateTyped' /\ RoleOf(a)'
  <2>1. pc[a] = "resolve" /\ (pc' = pc \/ pc' = [pc EXCEPT ![a] = "done"])
    BY <1>0, <1>6, OfTheActorOnly
  <2>2. calls[a] # <<>>
    BY <1>0, <2>1 DEF RoleOf
  <2>3. StateTyped'
    BY <1>0, <1>6, <2>2, ResolvingTyped
  <2>4. pc' = pc => calls'[a] # <<>>
    <3>1. ASSUME NEW x, Return(a, x), pc' = pc PROVE calls'[a] # <<>>
      <4>1. pc' = IF Len(calls[a]) = 1 THEN [pc EXCEPT ![a] = "done"] ELSE pc
        BY <1>0, <2>2, <3>1, ReturnIs
      <4>2. Len(calls[a]) # 1
        BY <1>0, <2>1, <3>1, <4>1 DEF StateTyped
      <4>3. calls'[a] = Popped(calls[a])
        BY <1>0, <2>2, <3>1, ReturnIs DEF StateTyped
      <4>. QED
        BY <1>0, <2>2, <4>2, <4>3, PoppedIs DEF StateTyped
    <3>2. ASSUME Reference(a) PROVE calls'[a] # <<>>
      BY <1>0, <2>2, <3>2, ReferenceIs DEF Deeper, SameKinds
    <3>3. ASSUME Load(a) PROVE calls'[a] # <<>>
      BY <1>0, <2>2, <3>3, LoadIs DEF SameKinds
    <3>4. ASSUME Increment(a) PROVE calls'[a] # <<>>
      BY <1>0, <2>2, <3>4, IncrementIs DEF SameKinds
    <3>5. ASSUME Test(a), pc' = pc PROVE calls'[a] # <<>>
      BY <1>0, <2>2, <3>1, <3>5, TestIs DEF SameKinds, Deeper
    <3>6. ASSUME Defined(a), pc' = pc PROVE calls'[a] # <<>>
      <4>1. ~(pc' = [pc EXCEPT ![a] = "done"])
        BY <1>0, <2>1, <3>6 DEF StateTyped
      <4>. QED
        BY <1>0, <2>2, <3>6, <4>1, DefinedIs
    <3>7. ASSUME Decrement(a), pc' = pc PROVE calls'[a] # <<>>
      BY <1>0, <2>2, <3>1, <3>7, DecrementIs
    <3>. QED
      BY <1>6, <3>2, <3>3, <3>4, <3>5, <3>6, <3>7 DEF Resolving
  <2>5. pc'[a] \in {"resolve", "done"} /\ (pc'[a] = "resolve" => pc' = pc)
    BY <1>0, <2>1 DEF StateTyped
  <2>. QED
    BY <1>0, <1>2, <2>2, <2>3, <2>4, <2>5 DEF RoleOf, Editing
<1>7. ASSUME NEW b \in Actors, b # a
      PROVE  RoleOf(b)'
  <2>1. scenario' = scenario /\ pc'[b] = pc[b] /\ calls'[b] = calls[b]
    BY <1>0, <1>7, OthersKeep
  <2>. QED
    BY <1>0, <2>1 DEF RoleOf, Editing, Command
<1>. QED
  BY <1>4, <1>5, <1>6, <1>7 DEF RoleInv, Work, Resolving
-----------------------------------------------------------------------------
(* Changing the file.                                                      *)

\* As long as nobody else replaces the file an editor writes the file that it
\* has read, with its version changed.
EditOf(a) ==
  /\ Editing(a) \/ (pc[a] = "done" /\ Command(a) \in {"bump", "set"}) =>
       doc[a].whole /\ value[a] # None
  /\ ~meddled[a] /\ pc[a] \in {"open", "update"} => file = doc[a]
  /\ ~meddled[a] /\ ~bad[a] /\ pc[a] \in {"replace", "copy"} => temp[a] = Written(a)
  /\ ~meddled[a] /\ pc[a] = "done" /\ Command(a) \in {"bump", "set"} => file = Written(a)

\* BumpIsSeen is not inductive: the last step of an editor needs to know what is
\* in its temporary file, and that what its file was when it read it.
EditInv == RoleInv /\ \A a \in Actors : EditOf(a)

\* Every step keeps what editors write.
LEMMA EditsKept ==
  ASSUME EditInv, NEW a \in Actors, Work(a) \/ Crash(a)
  PROVE  EditInv'
<1>0. StateTyped /\ RoleInv /\ RoleOf(a) /\ EditOf(a) /\ RoleInv'
  BY RolesKept DEF EditInv, RoleInv
<1>1. ASSUME NEW b \in Actors, b # a PROVE EditOf(b)'
  <2>1. EditOf(b)
    BY DEF EditInv
  <2>2. /\ scenario' = scenario
        /\ pc'[b] = pc[b] /\ doc'[b] = doc[b] /\ value'[b] = value[b] /\ temp'[b] = temp[b]
        /\ bad'[b] = bad[b]
        /\ meddled'[b] \/ (meddled'[b] = meddled[b] /\ file' = file)
    BY <1>0, <1>1, OthersKeep
  <2>3. Command(b)' = Command(b) /\ Where(b)' = Where(b)
    BY <2>2 DEF Command, Where
  <2>4. Written(b)' = Written(b)
    BY <2>2, <2>3 DEF Written
  <2>. QED
    BY <2>1, <2>2, <2>3, <2>4 DEF EditOf, Editing
<1>2. ASSUME Read(a) PROVE EditOf(a)'
  <2>1. scenario' = scenario /\ file' = file /\ doc'[a] = file /\ Command(a)' = Command(a)
    BY <1>0, <1>2 DEF Read, StateTyped, Command
  <2>2. \/ pc'[a] \in {"failed", "resolve"}
        \/ pc'[a] = "open" /\ file.whole /\ value'[a] # None
    <3>2. file.whole => Unresolved(file, Where(a)) \in Nat \cup {-1}
      <4>. SUFFICES ASSUME file.whole PROVE Unresolved(file, Where(a)) \in Nat \cup {-1}
        OBVIOUS
      <4>1. Where(a) \in 0..Len(file.mods)
        BY <1>0, ScenarioTyped DEF StateTyped, SameModules
      <4>2. file.root \in Nat \cup {-1} /\ file.mods \in Seq(Nat \cup {-1})
        BY <1>0 DEF StateTyped
      <4>3. Where(a) # 0 => file.mods[Where(a)] \in Nat \cup {-1}
        BY <4>1, <4>2
      <4>. QED
        BY <4>2, <4>3 DEF Unresolved
    <3>3. \A v \in Nat \cup {-1} : v \notin {None, Templated} => v + 1 # None
      OBVIOUS
    <3>4. NewVersion # None
      BY DEF NewVersion
    <3>. HIDE DEF NewVersion, None, Templated
    <3>. QED
      BY <1>0, <1>2, <3>2, <3>3, <3>4, Zenon DEF Read, Goto, StateTyped
  <2>. QED
    BY <2>1, <2>2 DEF EditOf, Editing
<1>3. ASSUME OpenTemp(a) PROVE EditOf(a)'
  <2>1. pc[a] = "open" /\ pc'[a] \in {"update", "failed"}
        /\ UNCHANGED <<scenario, file, editing, resolving>>
    BY <1>0, <1>3 DEF OpenTemp, Goto, StateTyped
  <2>. QED
    BY <1>0, <2>1 DEF EditOf, Editing, editing, Written, Command, Where
<1>4. ASSUME Update(a) PROVE EditOf(a)'
  <2>1. pc[a] = "update" /\ pc'[a] = "replace"
        /\ UNCHANGED <<scenario, file, doc, value, resolving, meddled>>
    BY <1>0, <1>4 DEF Update, Goto, StateTyped
  <2>2. Editing(a) /\ doc[a].whole /\ value[a] # None /\ (~meddled[a] => file = doc[a])
    BY <1>0, <2>1 DEF EditOf, Editing
  <2>3. ~bad'[a] /\ file.whole => temp'[a] = Modify(file, Target(doc[a], Where(a)), value[a])
    BY <1>0, <1>4 DEF Update, StateTyped
  <2>4. Written(a)' = Written(a)
    BY <2>1 DEF Written, Where
  <2>5. ~meddled[a] /\ ~bad'[a] => temp'[a] = Written(a)
    BY <2>2, <2>3 DEF Written
  <2>. QED
    BY <2>1, <2>2, <2>4, <2>5 DEF EditOf, Editing
<1>5. ASSUME Replace(a) \/ CopyContents(a) PROVE EditOf(a)'
  <2>1. /\ pc[a] \in {"replace", "copy"} /\ pc'[a] \in {"copy", "failed", "done"}
        /\ UNCHANGED <<scenario, doc, value, temp, bad>>
        /\ meddled'[a] = meddled[a]
        /\ pc'[a] = "done" => file' = temp[a] /\ ~bad[a]
    BY <1>0, <1>5 DEF Replace, CopyContents, Replaced, Goto, StateTyped
  <2>2. Written(a)' = Written(a) /\ Command(a)' = Command(a)
    BY <2>1 DEF Written, Where, Command
  <2>. QED
    BY <1>0, <2>1, <2>2 DEF EditOf, Editing
<1>6. ASSUME Crash(a) PROVE EditOf(a)'
  <2>1. pc'[a] = "crashed"
    BY <1>0, <1>6 DEF Crash, Goto, StateTyped
  <2>. QED
    BY <2>1 DEF EditOf, Editing
<1>7. ASSUME Resolving(a) PROVE EditOf(a)'
  <2>1. pc[a] = "resolve" /\ (pc' = pc \/ pc' = [pc EXCEPT ![a] = "done"])
        /\ UNCHANGED <<scenario, file, editing>>
    BY <1>0, <1>7, OfTheActorOnly
  <2>2. Command(a)' \in {"print", "build"}
    BY <1>0, <2>1 DEF RoleOf, Command
  <2>3. pc'[a] \in {"resolve", "done"}
    BY <1>0, <2>1 DEF StateTyped
  <2>. QED
    BY <2>2, <2>3 DEF EditOf, Editing
<1>8. EditOf(a)'
  BY <1>2, <1>3, <1>4, <1>5, <1>6, <1>7 DEF Work, Resolving
<1>. QED
  BY <1>0, <1>1, <1>8 DEF EditInv

\* A version that is reported as written is read by the next command.
LEMMA WrittenIsSeen == EditInv => BumpIsSeen
<1>. SUFFICES ASSUME EditInv, NEW a \in Actors,
                     pc[a] = "done" /\ Command(a) \in {"bump", "set"} /\ ~meddled[a] /\ ~Shadowed(a)
              PROVE  Unresolved(file, Where(a)) = value[a]
  BY DEF BumpIsSeen
<1>1. StateTyped /\ EditOf(a)
  BY DEF EditInv, RoleInv
<1>2. file = Written(a) /\ doc[a].whole /\ value[a] # None
  BY <1>1 DEF EditOf
<1>3. Where(a) \in 0..Len(doc[a].mods) /\ doc[a] \in Contents /\ value[a] \in Nat \ {0}
  BY <1>1, <1>2, ScenarioTyped DEF StateTyped, SameModules
<1>4. ~(Where(a) # 0 /\ Len(doc[a].mods) = 1 /\ doc[a].mods[Where(a)] # None /\ doc[a].root # None)
  BY DEF Shadowed
<1>. QED
  BY <1>2, <1>3, <1>4, WrittenIsRead DEF Written

\* What is damaged has a cause.
DamageOf(a) ==
  /\ pc[a] = "copy" => ~scenario.rename
  /\ pc[a] \in {"replace", "copy"} /\ ~temp[a].whole =>
       causes # {} /\ (scenario.rename => "fault" \in causes)

\* ConfigSurvives is not inductive: a temporary file that is not whole must have
\* its cause before it replaces welder.yaml.
ConfigInv == RoleInv /\ (\A a \in Actors : DamageOf(a)) /\ ConfigSurvives

\* Every step keeps the causes of damage known.
LEMMA ConfigKept ==
  ASSUME ConfigInv, NEW a \in Actors, Work(a) \/ Crash(a)
  PROVE  ConfigInv'
<1>0. StateTyped /\ RoleInv /\ RoleOf(a) /\ DamageOf(a) /\ RoleInv' /\ ConfigSurvives
  BY RolesKept DEF ConfigInv, RoleInv
<1>1. scenario' = scenario /\ causes \subseteq causes'
  <2>1. ASSUME Resolving(a) PROVE scenario' = scenario /\ causes' = causes
    BY <1>0, <2>1, OfTheActorOnly DEF editing
  <2>. QED
    BY <2>1 DEF Work, Resolving, Crash, Read, OpenTemp, Update, Replace, CopyContents, editing
<1>2. ASSUME NEW b \in Actors, b # a PROVE DamageOf(b)'
  <2>1. DamageOf(b)
    BY DEF ConfigInv
  <2>2. pc'[b] = pc[b] /\ temp'[b] = temp[b]
    BY <1>0, <1>2, OthersKeep
  <2>. QED
    BY <1>1, <2>1, <2>2 DEF DamageOf
\* Without a change of the file and without the end of a copy nothing is lost.
<1>3. ASSUME file' = file, pc[a] # "copy" \/ causes' # {}
      PROVE  ConfigSurvives'
  <2>1. ~file.whole => causes' # {} \/ \E b \in Actors : pc'[b] = "copy"
    <3>1. ASSUME NEW b \in Actors, pc[b] = "copy", causes' = {} PROVE pc'[b] = "copy"
      BY <1>0, <1>3, <3>1, OthersKeep
    <3>. QED
      BY <1>0, <1>1, <3>1 DEF ConfigSurvives
  <2>. QED
    BY <1>0, <1>1, <1>3, <2>1 DEF ConfigSurvives
<1>4. ASSUME Read(a) PROVE ConfigSurvives' /\ DamageOf(a)'
  <2>1. file' = file /\ pc[a] = "start"
    BY <1>4 DEF Read
  <2>2. pc'[a] \in {"failed", "resolve", "open"}
    BY <1>0, <1>4 DEF Read, Goto, StateTyped
  <2>. QED
    BY <1>3, <2>1, <2>2 DEF DamageOf
<1>5. ASSUME OpenTemp(a) PROVE ConfigSurvives' /\ DamageOf(a)'
  <2>1. file' = file /\ pc[a] = "open" /\ pc'[a] \in {"update", "failed"}
    BY <1>0, <1>5 DEF OpenTemp, Goto, StateTyped
  <2>. QED
    BY <1>3, <2>1 DEF DamageOf
<1>6. ASSUME Update(a) PROVE ConfigSurvives' /\ DamageOf(a)'
  <2>1. file' = file /\ pc[a] = "update" /\ pc'[a] = "replace"
    BY <1>0, <1>6 DEF Update, Goto, StateTyped
  <2>2. PICK fails \in BOOLEAN :
          /\ temp'[a] = IF fails \/ ~file.whole THEN Empty
                        ELSE Modify(file, Target(doc[a], Where(a)), value[a])
          /\ causes' = causes \cup (IF fails THEN {"fault"} ELSE {})
                              \cup (IF file.whole THEN {} ELSE {"race"})
    BY <1>0, <1>6 DEF Update, StateTyped
  <2>3. file.whole => Modify(file, Target(doc[a], Where(a)), value[a]).whole
    BY <1>0 DEF Modify, StateTyped
  <2>4. ~temp'[a].whole => fails \/ ~file.whole
    BY <2>2, <2>3
  <2>5. ~temp'[a].whole => causes' # {} /\ (scenario.rename => "fault" \in causes')
    BY <1>0, <2>2, <2>4 DEF ConfigSurvives
  <2>. QED
    BY <1>1, <1>3, <2>1, <2>5 DEF DamageOf
<1>7. ASSUME Replace(a) PROVE ConfigSurvives' /\ DamageOf(a)'
  <2>1. /\ pc[a] = "replace" /\ temp' = temp /\ causes' = causes
        /\ file' = IF scenario.rename THEN temp[a] ELSE Empty
        /\ IF scenario.rename THEN pc'[a] \in {"failed", "done"} ELSE pc'[a] = "copy"
    BY <1>0, <1>7 DEF Replace, Replaced, Goto, StateTyped
  <2>2. DamageOf(a)'
    BY <1>0, <1>1, <2>1 DEF DamageOf
  <2>3. ~file'.whole => causes' # {} \/ pc'[a] = "copy"
    BY <1>0, <2>1 DEF DamageOf
  <2>4. ~file'.whole /\ scenario.rename => "fault" \in causes'
    BY <1>0, <2>1 DEF DamageOf
  <2>. QED
    BY <1>1, <2>2, <2>3, <2>4 DEF ConfigSurvives
<1>8. ASSUME CopyContents(a) PROVE ConfigSurvives' /\ DamageOf(a)'
  <2>1. pc[a] = "copy" /\ pc'[a] \in {"failed", "done"}
    BY <1>0, <1>8 DEF CopyContents, Goto, StateTyped
  <2>2. \/ file' = temp[a] /\ causes' = causes
        \/ file' = file /\ causes' # {}
    BY <1>8 DEF CopyContents, Replaced
  <2>3. ~scenario.rename /\ (~temp[a].whole => causes # {})
    BY <1>0, <2>1 DEF DamageOf
  <2>4. ASSUME file' = temp[a], causes' = causes PROVE ConfigSurvives'
    BY <1>1, <2>3, <2>4 DEF ConfigSurvives
  <2>. QED
    BY <1>3, <2>1, <2>2, <2>4 DEF DamageOf
<1>9. ASSUME Crash(a) PROVE ConfigSurvives' /\ DamageOf(a)'
  <2>1. file' = file /\ pc'[a] = "crashed" /\ (pc[a] # "copy" \/ causes' # {})
    BY <1>0, <1>9 DEF Crash, Goto, StateTyped
  <2>. QED
    BY <1>3, <2>1 DEF DamageOf
<1>10. ASSUME Resolving(a) PROVE ConfigSurvives' /\ DamageOf(a)'
  <2>1. pc[a] = "resolve" /\ (pc' = pc \/ pc' = [pc EXCEPT ![a] = "done"])
        /\ UNCHANGED <<scenario, file, editing>>
    BY <1>0, <1>10, OfTheActorOnly
  <2>2. pc'[a] \in {"resolve", "done"} /\ file' = file
    BY <1>0, <2>1 DEF StateTyped
  <2>. QED
    BY <1>3, <2>1, <2>2 DEF DamageOf
<1>11. ConfigSurvives' /\ DamageOf(a)'
  BY <1>4, <1>5, <1>6, <1>7, <1>8, <1>9, <1>10 DEF Work, Resolving
<1>. QED
  BY <1>0, <1>2, <1>11 DEF ConfigInv
-----------------------------------------------------------------------------
(* Resolving the version.                                                  *)

\* What is under way when a version is resolved: by turns calculations and
\* resolutions, first (as the last of the stack) a calculation for a build, a
\* resolution for a command.
Base(a) == IF Command(a) = "build" THEN 1 ELSE 0

Alternating(s, b) ==
  \A i \in 1..Len(s) : s[i].kind = "version" <=> \E k \in Nat : Len(s) - i = 2 * k + b

\* Everything that is under way is counted, and it was within the limit.
Nesting(s, n, counter, read, limit) ==
  /\ s[1].kind = "define" => n <= 2 * limit /\ n <= 2 * counter
  /\ s[1].kind = "version" =>
       /\ n - 1 <= 2 * limit
       /\ s[1].at \in {"load", "increment"} => n - 1 <= 2 * counter
       /\ s[1].at \in {"test", "unload", "decrement"} => n + 1 <= 2 * counter
       /\ s[1].at \in {"increment", "decrement"} => read = counter

\* Until the first reference has its result nothing else is counted.
First(s, n, counter) ==
  /\ n = 0 => counter = 0
  /\ n = 1 /\ s[1].kind = "version" =>
       /\ s[1].at \in {"load", "increment"} => counter = 0
       /\ s[1].at = "test" => counter = 1

\* What an actor that is alone in its process has counted.
CountOf(a, n, counter) ==
  /\ pc[a] = "start" => counter = 0
  /\ calls[a] # <<>> => Nesting(calls[a], n, counter, loaded[a], scenario.limit)
  /\ calls[a] # <<>> /\ outcome[a] = <<>> => First(calls[a], n, counter)
  /\ outcome[a] # <<>> => outcome[a][1] # "deep"

\* The stack of an actor; alone in its process it is the one who counts.
LimitOf(a) ==
  /\ pc[a] = "start" => outcome[a] = <<>>
  /\ Alternating(calls[a], Base(a))
  /\ Alone(a) => CountOf(a, Len(calls[a]) - Base(a), depth[Process(a)])

\* ResolvedWithinLimit is not inductive: the counter has to be tied to the stack.
LimitInv == RoleInv /\ \A a \in Actors : LimitOf(a)

\* Of two numbers in a row one is even.
LEMMA Parity ==
  ASSUME NEW n \in Nat, NEW b \in {0, 1}
  PROVE  n >= 1 => ((\E k \in Nat : n = 2 * k + b) <=> ~(\E k \in Nat : n - 1 = 2 * k + b))
<1>1. PICK q \in Nat : n = 2 * q \/ n = 2 * q + 1
  <2>1. n \div 2 \in Nat /\ (n = 2 * (n \div 2) \/ n = 2 * (n \div 2) + 1)
    OBVIOUS
  <2>. QED
    BY <2>1
<1>. SUFFICES ASSUME n >= 1
              PROVE  (\E k \in Nat : n = 2 * k + b) <=> ~(\E k \in Nat : n - 1 = 2 * k + b)
  OBVIOUS
<1>2. CASE n = 2 * q + b
  BY <1>2
<1>3. CASE n = 2 * q + 1 /\ b = 0
  <2>1. n - 1 = 2 * q + b
    BY <1>3
  <2>2. \A k \in Nat : n # 2 * k + b
    BY <1>3
  <2>. QED
    BY <2>1, <2>2
<1>4. CASE n = 2 * q /\ b = 1
  <2>1. q - 1 \in Nat /\ n - 1 = 2 * (q - 1) + b
    BY <1>4
  <2>2. \A k \in Nat : n # 2 * k + b
    BY <1>4
  <2>. QED
    BY <2>1, <2>2
<1>. QED
  BY <1>1, <1>2, <1>3, <1>4

\* What is on top, by the number of frames.
LEMMA TopByParity ==
  ASSUME NEW s \in Seq(Frames), Len(s) >= 1, NEW b \in {0, 1}, Alternating(s, b)
  PROVE  /\ s[1].kind \in {"define", "version"}
         /\ s[1].kind = "version" <=> \E k \in Nat : Len(s) - b = 2 * k + 1
         /\ s[1].kind = "define" <=> \E k \in Nat : Len(s) - b = 2 * k
<1>1. Len(s) \in Nat /\ 1 \in 1..Len(s) /\ s[1] \in Frames
  OBVIOUS
<1>2. s[1].kind \in {"define", "version"}
  BY <1>1 DEF Frames
<1>3. s[1].kind = "version" <=> \E k \in Nat : Len(s) - 1 = 2 * k + b
  BY <1>1 DEF Alternating
<1>4. (\E k \in Nat : Len(s) - 1 = 2 * k + b) <=> \E k \in Nat : Len(s) - b = 2 * k + 1
  BY <1>1
<1>5. (\E k \in Nat : Len(s) = 2 * k + b) <=> \E k \in Nat : Len(s) - b = 2 * k
  BY <1>1
<1>6. s[1].kind = "define" <=> \E k \in Nat : Len(s) = 2 * k + b
  BY <1>1, <1>2, <1>3, Parity
<1>. QED
  BY <1>2, <1>3, <1>4, <1>5, <1>6

\* Calls, returns and what leaves the kinds alone keep the alternation.
LEMMA AlternationKept ==
  ASSUME NEW s \in Seq(Frames), Len(s) >= 1, NEW r, NEW b \in {0, 1}, Alternating(s, b)
  PROVE  /\ SameKinds(s, r) => Alternating(r, b)
         /\ Shallower(s, r) => Alternating(r, b)
         /\ \A kind \in {"define", "version"} :
              Deeper(s, r, kind) /\ kind # s[1].kind => Alternating(r, b)
<1>0. Len(s) \in Nat
  OBVIOUS
<1>1. SameKinds(s, r) => Alternating(r, b)
  BY <1>0 DEF SameKinds, Alternating
<1>2. ASSUME Shallower(s, r) PROVE Alternating(r, b)
  <2>. SUFFICES ASSUME NEW i \in 1..Len(r)
                PROVE  r[i].kind = "version" <=> \E k \in Nat : Len(r) - i = 2 * k + b
    BY DEF Alternating
  <2>1. i + 1 \in 1..Len(s) /\ i \in 1..(Len(s) - 1) /\ Len(r) - i = Len(s) - (i + 1)
    BY <1>0, <1>2 DEF Shallower
  <2>2. s[i + 1].kind = "version" <=> \E k \in Nat : Len(s) - (i + 1) = 2 * k + b
    BY <2>1 DEF Alternating
  <2>. QED
    BY <1>2, <2>1, <2>2 DEF Shallower
<1>3. ASSUME NEW kind \in {"define", "version"}, Deeper(s, r, kind), kind # s[1].kind
      PROVE  Alternating(r, b)
  <2>. SUFFICES ASSUME NEW i \in 1..Len(r)
                PROVE  r[i].kind = "version" <=> \E k \in Nat : Len(r) - i = 2 * k + b
    BY DEF Alternating
  <2>1. CASE i = 1
    <3>1. s[1].kind = "version" <=> \E k \in Nat : Len(s) - 1 = 2 * k + b
      BY <1>0 DEF Alternating
    <3>2. s[1].kind \in {"define", "version"}
      BY TopByParity
    <3>3. (\E k \in Nat : Len(s) = 2 * k + b) <=> ~(\E k \in Nat : Len(s) - 1 = 2 * k + b)
      BY <1>0, Parity
    <3>4. r[1].kind = "version" <=> \E k \in Nat : Len(s) = 2 * k + b
      BY <1>3, <3>1, <3>2, <3>3 DEF Deeper
    <3>5. Len(r) - 1 = Len(s)
      BY <1>0, <1>3 DEF Deeper
    <3>. QED
      BY <2>1, <3>4, <3>5
  <2>2. CASE i # 1
    <3>1. i - 1 \in 1..Len(s) /\ i \in 2..(Len(s) + 1) /\ Len(r) - i = Len(s) - (i - 1)
      BY <1>0, <1>3, <2>2 DEF Deeper
    <3>2. s[i - 1].kind = "version" <=> \E k \in Nat : Len(s) - (i - 1) = 2 * k + b
      BY <3>1 DEF Alternating
    <3>. QED
      BY <1>3, <3>1, <3>2 DEF Deeper
  <2>. QED
    BY <2>1, <2>2
<1>. QED
  BY <1>1, <1>2, <1>3

\* Returning from a resolution: what was under it is under way again, and an
\* outcome is noted if nothing else is.
LEMMA ReturnLeaves ==
  ASSUME StateTyped, NEW a \in Actors, calls[a] # <<>>, Alternating(calls[a], Base(a)),
         calls[a][1].kind = "version", NEW x \in {"resolved", "deep"}, Return(a, x),
         Command(a) \in {"print", "build"}
  PROVE  LET n == Len(calls[a]) - Base(a)
         IN  /\ Shallower(calls[a], calls'[a])
             /\ calls'[a] # <<>> => Len(calls'[a]) >= 1
             /\ n \in Nat /\ n >= 1
             /\ n = 1 => outcome'[a] = Append(outcome[a], x)
             /\ n # 1 => n >= 3 /\ outcome'[a] = outcome[a]
             /\ calls'[a] # <<>> => calls'[a][1].kind = "define"
<1>. DEFINE b == Base(a)
            n == Len(calls[a]) - b
<1>1. b \in {0, 1} /\ (b = 0 <=> Command(a) = "print")
  BY DEF Base
<1>2. calls[a] \in Seq(Frames) /\ Len(calls[a]) \in Nat /\ Len(calls[a]) >= 1
  BY TopIs
<1>3. PICK k \in Nat : n = 2 * k + 1
  BY <1>1, <1>2, TopByParity
<1>4. n \in Nat /\ n >= 1 /\ (n # 1 => n >= 3)
  BY <1>3
<1>9. /\ calls' = [calls EXCEPT ![a] = Popped(calls[a])]
      /\ outcome' = [outcome EXCEPT ![a] =
              IF Len(calls[a]) - 1 <= 1 /\ (Len(calls[a]) # 1 \/ Command(a) = "print")
              THEN Append(@, x) ELSE @]
  BY ReturnIs
<1>5. calls'[a] = Popped(calls[a])
      /\ outcome'[a] = IF Len(calls[a]) - 1 <= 1 /\ (Len(calls[a]) # 1 \/ Command(a) = "print")
                       THEN Append(outcome[a], x) ELSE outcome[a]
  BY <1>9 DEF StateTyped
<1>6. n = 1 <=> Len(calls[a]) - 1 <= 1 /\ (Len(calls[a]) # 1 \/ Command(a) = "print")
  <2>. DEFINE m == Len(calls[a])
  <2>1. m \in Nat /\ m >= 1 /\ n = m - b
    BY <1>2
  <2>. HIDE DEF m, n, b
  <2>2. b = 0 /\ Command(a) = "print" => (n = 1 <=> m - 1 <= 1)
    BY <1>4, <2>1
  <2>3. b = 1 /\ Command(a) # "print" => (n = 1 <=> m - 1 <= 1 /\ m # 1)
    BY <1>4, <2>1
  <2>4. n = 1 <=> m - 1 <= 1 /\ (m # 1 \/ Command(a) = "print")
    BY <1>1, <2>2, <2>3
  <2>. QED
    BY <2>4 DEF m
<1>7. Shallower(calls[a], calls'[a])
  BY <1>2, <1>5, PoppedIs
<1>8. calls'[a] # <<>> => Len(calls'[a]) >= 1 /\ calls'[a][1].kind = "define"
  <2>. SUFFICES ASSUME calls'[a] # <<>>
                PROVE  Len(calls'[a]) >= 1 /\ calls'[a][1].kind = "define"
    OBVIOUS
  <2>1. calls'[a] \in Seq(Frames) /\ Len(calls'[a]) = Len(calls[a]) - 1
    BY <1>7 DEF Shallower
  <2>2. Len(calls'[a]) >= 1
    BY <2>1, EmptySeq
  <2>3. Alternating(calls'[a], b)
    BY <1>1, <1>2, <1>7, AlternationKept
  <2>4. Len(calls'[a]) - b = 2 * k
    BY <1>1, <1>2, <1>3, <2>1
  <2>. QED
    BY <1>1, <2>1, <2>2, <2>3, <2>4, TopByParity
<1>. QED
  BY <1>4, <1>5, <1>6, <1>7, <1>8

\* What is noted first stays the first.
LEMMA FirstOfAppended ==
  ASSUME StateTyped, NEW a \in Actors, NEW x \in {"resolved", "deep", "torn"}
  PROVE  /\ Append(outcome[a], x) # <<>>
         /\ outcome[a] = <<>> => Append(outcome[a], x)[1] = x
         /\ outcome[a] # <<>> => Append(outcome[a], x)[1] = outcome[a][1]
<1>. DEFINE o == outcome[a]
<1>1. o \in Seq({"resolved", "deep", "torn"})
  BY DEF StateTyped
<1>. HIDE DEF o
<1>2. /\ Append(o, x) \in Seq({"resolved", "deep", "torn"}) /\ Len(Append(o, x)) = Len(o) + 1
      /\ \A i \in 1..Len(o) : Append(o, x)[i] = o[i]
      /\ Append(o, x)[Len(o) + 1] = x
  BY <1>1, AppendProperties
<1>3. Append(o, x) # <<>>
  BY <1>1, <1>2
<1>4. o = <<>> => Append(o, x)[1] = x
  BY <1>1, <1>2
<1>5. o # <<>> => Append(o, x)[1] = o[1]
  BY <1>1, <1>2, EmptySeq
<1>. QED
  BY <1>3, <1>4, <1>5 DEF o

\* When what is under way is counted, by what is on top.
LEMMA NestingIs ==
  ASSUME NEW r, NEW n \in Int, NEW c \in Int, NEW l \in Int, NEW lim \in Nat
  PROVE  /\ r[1].kind = "define" /\ n <= 2 * lim /\ n <= 2 * c => Nesting(r, n, c, l, lim)
         /\ r[1].kind = "version" /\ r[1].at \in {"test", "unload"} /\ n - 1 <= 2 * lim /\ n + 1 <= 2 * c =>
              Nesting(r, n, c, l, lim)
BY DEF Nesting

\* A step of an actor keeps the count of what it has under way.
LEMMA LimitOfActor ==
  ASSUME RoleInv, NEW a \in Actors, LimitOf(a), Resolving(a)
  PROVE  LimitOf(a)'
<1>0. StateTyped /\ RoleOf(a)
  BY DEF RoleInv
<1>1. /\ UNCHANGED scenario /\ pc[a] = "resolve" /\ pc'[a] \in {"resolve", "done"}
  BY <1>0, OfTheActorOnly DEF StateTyped
<1>2. calls[a] # <<>> /\ Command(a) \in {"print", "build"}
  BY <1>0, <1>1 DEF RoleOf
<1>. DEFINE s == calls[a]
            r == calls'[a]
            b == Base(a)
            n == Len(s) - b
            c == depth[Process(a)]
            d == depth'[Process(a)]
            lim == scenario.limit
<1>3. /\ s \in Seq(Frames) /\ Top(a) = s[1] /\ s[1] \in Frames /\ Len(s) \in Nat /\ Len(s) >= 1
      /\ b \in {0, 1} /\ Alternating(s, b)
  BY <1>0, <1>2, TopIs DEF Base, LimitOf
<1>4. s[1].kind \in {"define", "version"}
      /\ (s[1].kind = "version" => s[1].at \in Ats)
  BY <1>3 DEF Frames, Ats
<1>5. lim \in Nat /\ lim >= 1 /\ c \in Int /\ loaded[a] \in Int /\ n \in Nat
  <2>1. Process(a) \in Actors /\ lim \in Nat /\ lim >= 1
    BY <1>0, ScenarioTyped
  <2>. QED
    BY <1>0, <1>3, <2>1 DEF StateTyped
<1>6. /\ Base(a)' = b /\ Process(a)' = Process(a) /\ Alone(a)' = Alone(a) /\ Command(a)' = Command(a)
  BY <1>1 DEF Base, Process, Alone, Command
\* What is left to show of a step.
<1>. DEFINE Fits == /\ Alternating(r, b)
                    /\ Alone(a) =>
                         /\ r # <<>> => Nesting(r, Len(r) - b, d, loaded'[a], lim)
                         /\ r # <<>> /\ outcome'[a] = <<>> => First(r, Len(r) - b, d)
                         /\ outcome'[a] # <<>> => outcome'[a][1] # "deep"
<1>7. Fits => LimitOf(a)'
  BY <1>1, <1>6 DEF LimitOf, CountOf
<1>8. Alone(a) => Nesting(s, n, c, loaded[a], lim) /\ (outcome[a] = <<>> => First(s, n, c))
                  /\ (outcome[a] # <<>> => outcome[a][1] # "deep")
  BY <1>2 DEF LimitOf, CountOf
<1>9. ASSUME Reference(a) PROVE Fits
  <2>1. s[1].kind = "define" /\ loaded' = loaded /\ d = c
    BY <1>0, <1>2, <1>3, <1>9, ReferenceIs
  <2>2. CASE Deeper(s, r, "version") /\ r[1].at = "load" /\ outcome' = outcome
    <3>1. r[1].kind = "version" /\ Len(r) - b = n + 1
      BY <1>3, <2>2 DEF Deeper
    <3>2. Alternating(r, b)
      BY <1>3, <2>1, <2>2, AlternationKept
    <3>3. Alone(a) => Nesting(r, Len(r) - b, d, loaded'[a], lim)
      BY <1>1, <1>5, <1>8, <2>1, <2>2, <3>1 DEF Nesting
    <3>4. Alone(a) /\ outcome[a] = <<>> => First(r, Len(r) - b, d)
      BY <1>5, <1>8, <2>1, <2>2, <3>1 DEF First
    <3>. QED
      BY <1>8, <2>2, <3>2, <3>3, <3>4
  <2>3. CASE /\ SameKinds(s, r)
             /\ outcome'[a] = IF Len(s) = 1 THEN Append(outcome[a], "torn") ELSE outcome[a]
    <3>1. r[1].kind = "define" /\ Len(r) - b = n
      BY <1>3, <2>1, <2>3 DEF SameKinds
    <3>2. Alternating(r, b)
      BY <1>3, <2>3, AlternationKept
    <3>3. Alone(a) => Nesting(r, Len(r) - b, d, loaded'[a], lim)
      BY <1>1, <1>5, <1>8, <2>1, <3>1 DEF Nesting
    <3>4. Append(outcome[a], "torn") # <<>>
          /\ (outcome[a] = <<>> => Append(outcome[a], "torn")[1] = "torn")
          /\ (outcome[a] # <<>> => Append(outcome[a], "torn")[1] = outcome[a][1])
      BY <1>0, FirstOfAppended
    <3>5. Alone(a) /\ outcome'[a] = <<>> => First(r, Len(r) - b, d)
      BY <1>5, <1>8, <2>1, <2>3, <3>1, <3>4 DEF First
    <3>6. Alone(a) /\ outcome'[a] # <<>> => outcome'[a][1] # "deep"
      BY <1>8, <2>3, <3>4
    <3>. QED
      BY <3>2, <3>3, <3>5, <3>6
  <2>. QED
    BY <1>0, <1>2, <1>9, <2>2, <2>3, ReferenceIs
<1>10. ASSUME Load(a) PROVE Fits
  <2>1. /\ s[1].kind = "version" /\ d = c /\ outcome' = outcome /\ loaded'[a] = c /\ SameKinds(s, r)
        /\ \/ s[1].at = "load" /\ r[1].at = "increment"
           \/ s[1].at = "unload" /\ r[1].at = "decrement"
    BY <1>0, <1>2, <1>3, <1>10, LoadIs
  <2>2. r[1].kind = "version" /\ Len(r) - b = n /\ Alternating(r, b)
    <3>1. Alternating(r, b)
      BY <1>3, <2>1, AlternationKept
    <3>. QED
      BY <1>3, <2>1, <3>1 DEF SameKinds
  <2>3. Alone(a) => Nesting(r, Len(r) - b, d, loaded'[a], lim)
    BY <1>1, <1>5, <1>8, <2>1, <2>2 DEF Nesting
  <2>4. Alone(a) /\ outcome[a] = <<>> => First(r, Len(r) - b, d)
    BY <1>5, <1>8, <2>1, <2>2 DEF First
  <2>. QED
    BY <1>8, <2>1, <2>2, <2>3, <2>4
<1>11. ASSUME Increment(a) PROVE Fits
  <2>1. /\ s[1].kind = "version" /\ s[1].at = "increment" /\ outcome' = outcome /\ loaded' = loaded
        /\ d = loaded[a] + 1 /\ SameKinds(s, r) /\ r[1].at = "test"
    BY <1>0, <1>2, <1>3, <1>11, IncrementIs
  <2>2. r[1].kind = "version" /\ Len(r) - b = n /\ Alternating(r, b)
    <3>1. Alternating(r, b)
      BY <1>3, <2>1, AlternationKept
    <3>. QED
      BY <1>3, <2>1, <3>1 DEF SameKinds
  <2>3. Alone(a) => Nesting(r, Len(r) - b, d, loaded'[a], lim)
    <3>1. Alone(a) => n - 1 <= 2 * lim /\ n - 1 <= 2 * c /\ loaded[a] = c
      BY <1>8, <2>1 DEF Nesting
    <3>2. d \in Int /\ loaded'[a] = loaded[a] /\ (Alone(a) => n + 1 <= 2 * d)
      BY <1>5, <2>1, <3>1
    <3>3. Alone(a) => Nesting(r, n, d, loaded'[a], lim)
      <4>1. n \in Int /\ lim \in Nat /\ loaded'[a] \in Int
            /\ r[1].kind = "version" /\ r[1].at \in {"test", "unload"}
        BY <1>5, <2>1, <2>2, <3>2
      <4>. QED
        BY <3>1, <3>2, <4>1, NestingIs
    <3>. QED
      BY <2>2, <3>3
  <2>4. n # 0
    BY <1>3, <2>1, TopByParity
  <2>5. Alone(a) /\ outcome[a] = <<>> => First(r, Len(r) - b, d)
    BY <1>5, <1>8, <2>1, <2>2, <2>4 DEF First, Nesting
  <2>. QED
    BY <1>8, <2>1, <2>2, <2>3, <2>5
<1>12. ASSUME Test(a) PROVE Fits
  <2>1. s[1].kind = "version" /\ s[1].at = "test" /\ d = c /\ loaded' = loaded
    BY <1>0, <1>2, <1>3, <1>12, TestIs
  <2>2. CASE c > lim /\ Return(a, "deep")
    <3>1. /\ Shallower(s, r) /\ n \in Nat /\ n >= 1
          /\ n = 1 => outcome'[a] = Append(outcome[a], "deep")
          /\ n # 1 => n >= 3 /\ outcome'[a] = outcome[a]
          /\ r # <<>> => r[1].kind = "define"
      BY <1>0, <1>2, <1>3, <2>1, <2>2, ReturnLeaves
    <3>2. Alternating(r, b) /\ Len(r) - b = n - 1
      <4>1. Alternating(r, b)
        BY <1>3, <3>1, AlternationKept
      <4>. QED
        BY <1>3, <3>1, <4>1, EmptySeq DEF Shallower
    <3>3. Alone(a) /\ r # <<>> => Nesting(r, Len(r) - b, d, loaded'[a], lim)
      <4>1. Alone(a) => n - 1 <= 2 * lim /\ n + 1 <= 2 * c
        BY <1>8, <2>1 DEF Nesting
      <4>2. /\ n - 1 \in Int /\ d \in Int /\ loaded'[a] = loaded[a]
            /\ Alone(a) => n - 1 <= 2 * lim /\ n - 1 <= 2 * d
        BY <1>5, <2>1, <4>1
      <4>3. Alone(a) /\ r # <<>> => Nesting(r, n - 1, d, loaded'[a], lim)
        BY <1>5, <3>1, <4>2, NestingIs
      <4>. QED
        BY <3>2, <4>3
    <3>4. Alone(a) /\ n = 1 => outcome[a] # <<>>
      BY <1>5, <1>8, <2>1, <2>2 DEF First
    <3>5. Append(outcome[a], "deep") # <<>>
          /\ (outcome[a] # <<>> => Append(outcome[a], "deep")[1] = outcome[a][1])
      BY <1>0, FirstOfAppended
    <3>6. Alone(a) /\ outcome'[a] = <<>> => First(r, Len(r) - b, d)
      BY <3>1, <3>2, <3>5 DEF First
    <3>7. Alone(a) /\ outcome'[a] # <<>> => outcome'[a][1] # "deep"
      BY <1>8, <3>1, <3>4, <3>5
    <3>. QED
      BY <3>2, <3>3, <3>6, <3>7
  <2>3. CASE ~(c > lim) /\ outcome' = outcome /\ SameKinds(s, r) /\ r[1].at = "unload"
    <3>1. r[1].kind = "version" /\ Len(r) - b = n /\ Alternating(r, b)
      <4>1. Alternating(r, b)
        BY <1>3, <2>1, <2>3, AlternationKept
      <4>. QED
        BY <1>3, <2>1, <2>3, <4>1 DEF SameKinds
    <3>2. Alone(a) => Nesting(r, Len(r) - b, d, loaded'[a], lim)
      BY <1>1, <1>5, <1>8, <2>1, <2>3, <3>1 DEF Nesting
    <3>3. n # 0
      BY <1>3, <2>1, TopByParity
    <3>4. Alone(a) /\ outcome[a] = <<>> => First(r, Len(r) - b, d)
      BY <1>5, <2>3, <3>1, <3>3 DEF First
    <3>. QED
      BY <1>8, <2>3, <3>1, <3>2, <3>4
  <2>4. CASE ~(c > lim) /\ outcome' = outcome /\ Deeper(s, r, "define")
    <3>1. r[1].kind = "define" /\ Len(r) - b = n + 1
      BY <1>3, <2>4 DEF Deeper
    <3>2. Alternating(r, b)
      BY <1>3, <2>1, <2>4, AlternationKept
    <3>3. Alone(a) => Nesting(r, Len(r) - b, d, loaded'[a], lim)
      BY <1>1, <1>5, <1>8, <2>1, <2>4, <3>1 DEF Nesting
    <3>4. n >= 1
      BY <1>3, <2>1, TopByParity
    <3>5. Alone(a) /\ outcome[a] = <<>> => First(r, Len(r) - b, d)
      BY <1>5, <3>1, <3>4 DEF First
    <3>. QED
      BY <1>8, <2>4, <3>2, <3>3, <3>5
  <2>. QED
    BY <1>0, <1>2, <1>12, <2>2, <2>3, <2>4, TestIs
<1>13. ASSUME Defined(a) PROVE Fits
  <2>1. s[1].kind = "define" /\ d = c /\ loaded' = loaded /\ outcome' = outcome
    BY <1>0, <1>2, <1>3, <1>13, DefinedIs
  <2>2. CASE r = <<>>
    <3>1. Alternating(r, b)
      BY <2>2 DEF Alternating
    <3>. QED
      BY <1>8, <2>1, <2>2, <3>1
  <2>3. CASE /\ Len(s) >= 2 /\ Shallower(s, r) /\ r # <<>>
             /\ r[1].kind = "version" => r[1].at = "unload"
    <3>1. Alternating(r, b) /\ Len(r) - b = n - 1 /\ r \in Seq(Frames) /\ Len(r) >= 1
      <4>1. Alternating(r, b)
        BY <1>3, <2>3, AlternationKept
      <4>. QED
        BY <1>3, <2>3, <4>1, EmptySeq DEF Shallower
    <3>2. PICK k \in Nat : n = 2 * k
      BY <1>3, <2>1, TopByParity
    <3>3. n >= 2
      <4>1. n # 0 /\ n # 1
        BY <1>3, <2>3, <3>2
      <4>. QED
        BY <3>2, <4>1
    <3>4. r[1].kind = "version"
      <4>1. k - 1 \in Nat /\ Len(r) - b = 2 * (k - 1) + 1
        BY <3>1, <3>2, <3>3
      <4>. QED
        BY <1>3, <3>1, <4>1, TopByParity
    <3>5. Alone(a) => Nesting(r, Len(r) - b, d, loaded'[a], lim)
      <4>1. Alone(a) => n <= 2 * lim /\ n <= 2 * c
        BY <1>8, <2>1 DEF Nesting
      <4>2. /\ n - 1 \in Int /\ d \in Int /\ loaded'[a] = loaded[a]
            /\ Alone(a) => (n - 1) - 1 <= 2 * lim /\ (n - 1) + 1 <= 2 * d
        BY <1>5, <2>1, <4>1
      <4>3. Alone(a) => Nesting(r, n - 1, d, loaded'[a], lim)
        BY <1>5, <2>3, <3>4, <4>2, NestingIs
      <4>. QED
        BY <3>1, <4>3
    <3>6. Alone(a) /\ outcome[a] = <<>> => First(r, Len(r) - b, d)
      BY <1>5, <2>3, <3>1, <3>3, <3>4 DEF First
    <3>. QED
      BY <1>8, <2>1, <3>1, <3>5, <3>6
  <2>. QED
    BY <1>0, <1>2, <1>13, <2>2, <2>3, DefinedIs
<1>14. ASSUME Decrement(a) PROVE Fits
  <2>1. /\ s[1].kind = "version" /\ s[1].at = "decrement" /\ loaded' = loaded
        /\ d = loaded[a] - 1 /\ Return(a, "resolved")
    BY <1>0, <1>2, <1>3, <1>14, DecrementIs
  <2>2. /\ Shallower(s, r) /\ n \in Nat /\ n >= 1
        /\ n = 1 => outcome'[a] = Append(outcome[a], "resolved")
        /\ n # 1 => n >= 3 /\ outcome'[a] = outcome[a]
        /\ r # <<>> => r[1].kind = "define"
    BY <1>0, <1>2, <1>3, <2>1, ReturnLeaves
  <2>3. Alternating(r, b) /\ Len(r) - b = n - 1
    <3>1. Alternating(r, b)
      BY <1>3, <2>2, AlternationKept
    <3>. QED
      BY <1>3, <2>2, <3>1, EmptySeq DEF Shallower
  <2>4. Alone(a) /\ r # <<>> => Nesting(r, Len(r) - b, d, loaded'[a], lim)
    <3>1. Alone(a) => n - 1 <= 2 * lim /\ n + 1 <= 2 * c /\ loaded[a] = c
      BY <1>8, <2>1 DEF Nesting
    <3>2. /\ n - 1 \in Int /\ d \in Int /\ loaded'[a] = loaded[a]
          /\ Alone(a) => n - 1 <= 2 * lim /\ n - 1 <= 2 * d
      BY <1>5, <2>1, <3>1
    <3>3. Alone(a) /\ r # <<>> => Nesting(r, n - 1, d, loaded'[a], lim)
      BY <1>5, <2>2, <3>2, NestingIs
    <3>. QED
      BY <2>3, <3>3
  <2>5. Append(outcome[a], "resolved") # <<>>
        /\ (outcome[a] = <<>> => Append(outcome[a], "resolved")[1] = "resolved")
        /\ (outcome[a] # <<>> => Append(outcome[a], "resolved")[1] = outcome[a][1])
    BY <1>0, FirstOfAppended
  <2>6. Alone(a) /\ outcome'[a] = <<>> => First(r, Len(r) - b, d)
    BY <2>2, <2>3, <2>5 DEF First
  <2>7. Alone(a) /\ outcome'[a] # <<>> => outcome'[a][1] # "deep"
    BY <1>8, <2>2, <2>5
  <2>. QED
    BY <2>3, <2>4, <2>6, <2>7
<1>. QED
  BY <1>7, <1>9, <1>10, <1>11, <1>12, <1>13, <1>14 DEF Resolving

\* Every step keeps the counts.
LEMMA LimitKept ==
  ASSUME LimitInv, NEW a \in Actors, Work(a) \/ Crash(a)
  PROVE  LimitInv'
<1>0. StateTyped /\ RoleInv /\ RoleOf(a) /\ LimitOf(a) /\ RoleInv'
  BY RolesKept DEF LimitInv, RoleInv
<1>1. pc[a] # "done"
  <2>1. Resolving(a) => pc[a] = "resolve"
    BY <1>0, OfTheActorOnly
  <2>. QED
    BY <2>1 DEF Work, Resolving, Crash, Read, OpenTemp, Update, Replace, CopyContents
<1>2. ASSUME NEW b \in Actors, b # a PROVE LimitOf(b)'
  <2>1. LimitOf(b)
    BY DEF LimitInv
  <2>2. /\ scenario' = scenario /\ pc'[b] = pc[b] /\ calls'[b] = calls[b] /\ loaded'[b] = loaded[b]
        /\ outcome'[b] = outcome[b]
        /\ Process(b) # Process(a) => depth'[Process(b)] = depth[Process(b)]
    BY <1>0, <1>2, OthersKeep
  <2>3. /\ Base(b)' = Base(b) /\ Process(b)' = Process(b) /\ Alone(b)' = Alone(b)
    BY <2>2 DEF Base, Process, Alone, Command
  <2>4. Alone(b) => Process(b) # Process(a)
    BY <1>0, <1>1, <1>2 DEF Alone, RoleOf
  <2>. QED
    BY <2>1, <2>2, <2>3, <2>4 DEF LimitOf, CountOf
<1>3. ASSUME Resolving(a) PROVE LimitOf(a)'
  BY <1>0, <1>3, LimitOfActor
<1>4. ASSUME OpenTemp(a) \/ Update(a) \/ Replace(a) \/ CopyContents(a) \/ Crash(a)
      PROVE  LimitOf(a)'
  <2>1. UNCHANGED <<scenario, resolving>>
    BY <1>4 DEF OpenTemp, Update, Replace, CopyContents, Crash, editing
  <2>2. pc'[a] # "start"
    BY <1>0, <1>4 DEF OpenTemp, Update, Replace, CopyContents, Crash, Goto, StateTyped
  <2>3. /\ Base(a)' = Base(a) /\ Process(a)' = Process(a) /\ Alone(a)' = Alone(a)
        /\ calls' = calls /\ depth' = depth /\ loaded' = loaded /\ outcome' = outcome
    BY <2>1 DEF Base, Process, Alone, Command, resolving
  <2>. QED
    BY <1>0, <2>1, <2>2, <2>3 DEF LimitOf, CountOf
<1>5. ASSUME Read(a) PROVE LimitOf(a)'
  <2>1. /\ pc[a] = "start" /\ scenario' = scenario /\ depth' = depth /\ loaded' = loaded
        /\ outcome' = outcome
    BY <1>5 DEF Read
  <2>2. pc'[a] # "start"
    BY <1>0, <1>5 DEF Read, Goto, StateTyped
  <2>3. /\ Base(a)' = Base(a) /\ Process(a)' = Process(a) /\ Alone(a)' = Alone(a)
    BY <2>1 DEF Base, Process, Alone, Command
  <2>4. calls[a] = <<>> /\ outcome[a] = <<>> /\ (Alone(a) => depth[Process(a)] = 0)
    BY <1>0, <2>1 DEF RoleOf, LimitOf, CountOf
  <2>5. \/ calls'[a] = <<>>
        \/ calls'[a] = <<Version>> /\ Command(a) = "print"
        \/ calls'[a] = <<Define>> /\ Command(a) = "build"
    BY <1>0, <1>5, <2>4, Zenon DEF Read, StateTyped
  <2>6. /\ Define.kind = "define" /\ Version.kind = "version" /\ Version.at = "load"
        /\ scenario.limit \in Nat
    BY <1>0, ScenarioTyped
  <2>. DEFINE r == calls'[a]
  <2>7. CASE r = <<>>
    BY <2>1, <2>2, <2>3, <2>4, <2>7 DEF LimitOf, CountOf, Alternating
  <2>8. CASE r = <<Version>> /\ Command(a) = "print"
    <3>. HIDE DEF Version
    <3>1. Len(r) = 1 /\ r[1] = Version /\ Base(a) = 0
      BY <2>8 DEF Base
    <3>2. Alternating(r, 0)
      BY <2>6, <3>1 DEF Alternating
    <3>3. Nesting(r, 1, 0, loaded[a], scenario.limit) /\ First(r, 1, 0)
      BY <2>6, <3>1 DEF Nesting, First
    <3>. QED
      BY <2>1, <2>2, <2>3, <2>4, <3>1, <3>2, <3>3 DEF LimitOf, CountOf
  <2>9. CASE r = <<Define>> /\ Command(a) = "build"
    <3>. HIDE DEF Define
    <3>1. Len(r) = 1 /\ r[1] = Define /\ Base(a) = 1
      BY <2>9 DEF Base
    <3>2. Alternating(r, 1)
      BY <2>6, <3>1 DEF Alternating
    <3>3. Nesting(r, 0, 0, loaded[a], scenario.limit) /\ First(r, 0, 0)
      BY <2>6, <3>1 DEF Nesting, First
    <3>. QED
      BY <2>1, <2>2, <2>3, <2>4, <3>1, <3>2, <3>3 DEF LimitOf, CountOf
  <2>. QED
    BY <2>5, <2>7, <2>8, <2>9
<1>6. LimitOf(a)'
  BY <1>3, <1>4, <1>5 DEF Work, Resolving
<1>. QED
  BY <1>0, <1>2, <1>6 DEF LimitInv

\* Resolutions on a stack are every second frame, so the length of the stack
\* bounds their number.
LEMMA ResolutionsBounded ==
  ASSUME NEW s \in Seq(Frames), NEW b \in {0, 1}, Alternating(s, b),
         NEW limit \in Nat, s # <<>> => Len(s) - b - 1 <= 2 * limit
  PROVE  Cardinality({i \in DOMAIN s : s[i].kind = "version"}) <= limit + 1
<1>. DEFINE K == 0..limit
            V == {i \in DOMAIN s : s[i].kind = "version"}
            f == [i \in V |-> CHOOSE k \in Nat : Len(s) - i = 2 * k + b]
<1>1. Len(s) \in Nat /\ DOMAIN s = 1..Len(s)
  OBVIOUS
<1>2. \A i \in V : f[i] \in K /\ i = Len(s) - 2 * f[i] - b
  <2>. SUFFICES ASSUME NEW i \in V PROVE f[i] \in K /\ i = Len(s) - 2 * f[i] - b
    OBVIOUS
  <2>1. i \in 1..Len(s) /\ s[i].kind = "version" /\ s # <<>>
    BY <1>1
  <2>2. \E k \in Nat : Len(s) - i = 2 * k + b
    BY <2>1 DEF Alternating
  <2>3. f[i] \in Nat /\ Len(s) - i = 2 * f[i] + b
    BY <2>2
  <2>4. Len(s) - b - 1 <= 2 * limit
    BY <2>1
  <2>. HIDE DEF f
  <2>. QED
    BY <1>1, <2>1, <2>3, <2>4
<1>3. IsFiniteSet(K) /\ Cardinality(K) = limit + 1
  <2>1. 0 \in Int /\ limit \in Int /\ ~(0 > limit) /\ limit - 0 + 1 = limit + 1
    OBVIOUS
  <2>. QED
    BY <2>1, FS_Interval, Zenon
<1>4. f \in Injection(V, K)
  <2>1. f \in [V -> K]
    BY <1>2
  <2>2. ASSUME NEW i \in V, NEW j \in V, f[i] = f[j] PROVE i = j
    BY <1>2, <2>2
  <2>. QED
    BY <2>1, <2>2, Fun_IsInj
<1>5. Cardinality(V) <= Cardinality(K)
  BY <1>3, <1>4, FS_Injection
<1>. QED
  BY <1>3, <1>5

\* What the counts say of the resolutions that are under way.
LEMMA LimitHolds == LimitInv => ResolvedWithinLimit
<1>. SUFFICES ASSUME LimitInv, NEW a \in Actors, Alone(a)
              PROVE  /\ Cardinality({i \in DOMAIN calls[a] : calls[a][i].kind = "version"})
                          <= scenario.limit + 1
                     /\ outcome[a] # <<>> => outcome[a][1] # "deep"
  BY DEF ResolvedWithinLimit
<1>1. StateTyped /\ LimitOf(a)
  BY DEF LimitInv, RoleInv
<1>2. calls[a] \in Seq(Frames) /\ Base(a) \in {0, 1} /\ Alternating(calls[a], Base(a))
  BY <1>1 DEF StateTyped, LimitOf, Base
<1>3. scenario.limit \in Nat
  BY <1>1, ScenarioTyped
<1>4. calls[a] # <<>> => Len(calls[a]) - Base(a) - 1 <= 2 * scenario.limit
  <2>. SUFFICES ASSUME calls[a] # <<>> PROVE Len(calls[a]) - Base(a) - 1 <= 2 * scenario.limit
    OBVIOUS
  <2>1. Nesting(calls[a], Len(calls[a]) - Base(a), depth[Process(a)], loaded[a], scenario.limit)
    BY <1>1 DEF LimitOf, CountOf
  <2>2. calls[a][1].kind \in {"define", "version"} /\ Len(calls[a]) \in Nat
    <3>1. calls[a][1] \in Frames /\ Len(calls[a]) \in Nat
      BY <1>1, TopIs
    <3>. QED
      BY <3>1 DEF Frames
  <2>. QED
    BY <1>2, <1>3, <2>1, <2>2 DEF Nesting
<1>5. outcome[a] # <<>> => outcome[a][1] # "deep"
  BY <1>1 DEF LimitOf, CountOf
<1>. QED
  BY <1>2, <1>3, <1>4, <1>5, ResolutionsBounded
-----------------------------------------------------------------------------
(* The theorems.                                                           *)

\* The invariants hold in the beginning.
LEMMA FromTheStart == VersionsInit => EditInv /\ ConfigInv /\ LimitInv
<1>. SUFFICES ASSUME VersionsInit PROVE EditInv /\ ConfigInv /\ LimitInv
  OBVIOUS
<1>1. StateTyped
  BY StartTyped
<1>2. /\ scenario \in Scenarios /\ file = scenario.doc /\ scenario.doc.whole /\ causes = {}
      /\ \A a \in Actors : /\ pc[a] = IF Command(a) = "none" THEN "done" ELSE "start"
                           /\ calls[a] = <<>> /\ depth[a] = 0 /\ outcome[a] = <<>>
  BY ScenariosAssumption DEF VersionsInit
<1>3. RoleInv
  BY <1>1, <1>2 DEF RoleInv, RoleOf, Editing
<1>4. EditInv
  BY <1>2, <1>3 DEF EditInv, EditOf, Editing
<1>5. ConfigInv
  BY <1>2, <1>3 DEF ConfigInv, DamageOf, ConfigSurvives
<1>6. ASSUME NEW a \in Actors PROVE LimitOf(a)
  <2>1. Process(a) \in Actors
    BY <1>1, ScenarioTyped
  <2>2. Alternating(calls[a], Base(a))
    BY <1>2 DEF Alternating
  <2>. QED
    BY <1>2, <2>1, <2>2 DEF LimitOf, CountOf
<1>. QED
  BY <1>3, <1>4, <1>5, <1>6 DEF LimitInv

\* What stays the same keeps them.
LEMMA Stutter ==
  ASSUME UNCHANGED versionsVars
  PROVE  (EditInv => EditInv') /\ (ConfigInv => ConfigInv') /\ (LimitInv => LimitInv')
<1>. USE DEF versionsVars, editing, resolving, Command, Where, Process
<1>1. StateTyped => StateTyped'
  BY DEF StateTyped, SameModules
<1>2. \A a \in Actors : RoleOf(a)' = RoleOf(a)
  BY DEF RoleOf, Editing
<1>3. RoleInv => RoleInv'
  BY <1>1, <1>2 DEF RoleInv
<1>4. \A a \in Actors : EditOf(a)' = EditOf(a)
  BY DEF EditOf, Editing, Written
<1>5. \A a \in Actors : DamageOf(a)' = DamageOf(a)
  BY DEF DamageOf
<1>6. ConfigSurvives' = ConfigSurvives
  BY DEF ConfigSurvives
<1>7. \A a \in Actors : LimitOf(a)' = LimitOf(a)
  BY DEF LimitOf, CountOf, Alone, Base
<1>. QED
  BY <1>3, <1>4, <1>5, <1>6, <1>7 DEF EditInv, ConfigInv, LimitInv

\* Every state is typed: welder.yaml, where it is whole, keeps its modules, so that
\* no command looks for a module that is not there.
THEOREM VersionsTyped == VersionsSpec => []StateTyped
<1>1. VersionsInit => EditInv
  BY FromTheStart
<1>2. EditInv /\ [VersionsNext]_versionsVars => EditInv'
  BY EditsKept, Stutter DEF VersionsNext
<1>3. EditInv => StateTyped
  BY DEF EditInv, RoleInv
<1>. QED
  BY <1>1, <1>2, <1>3, PTL DEF VersionsSpec

\* `welder version` reports a version only if the next command reads it from
\* welder.yaml: for any number of editors and builds, in any order of their steps,
\* and any file, unless another replaced the file since the editor read it or the
\* module's version hides the project's.
THEOREM WhatIsWrittenIsRead == VersionsSpec => []BumpIsSeen
<1>1. VersionsInit => EditInv
  BY FromTheStart
<1>2. EditInv /\ [VersionsNext]_versionsVars => EditInv'
  BY EditsKept, Stutter DEF VersionsNext
<1>3. EditInv => BumpIsSeen
  BY WrittenIsSeen
<1>. QED
  BY <1>1, <1>2, <1>3, PTL DEF VersionsSpec

\* welder.yaml is never left empty or cut off but during a copy, or after a fault, a
\* crash during a copy or a second editor during one; where it can be renamed only
\* after a fault: for any number of editors that may be killed at any time.
THEOREM TheFileSurvives == VersionsSpec => []ConfigSurvives
<1>1. VersionsInit => ConfigInv
  BY FromTheStart
<1>2. ConfigInv /\ [VersionsNext]_versionsVars => ConfigInv'
  BY ConfigKept, Stutter DEF VersionsNext
<1>3. ConfigInv => ConfigSurvives
  BY DEF ConfigInv
<1>. QED
  BY <1>1, <1>2, <1>3, PTL DEF VersionsSpec

\* A definition that refers to the version that is resolved by calculating it is
\* calculated within itself up to the limit and no further, and its first reference
\* gets the resolved version: for every limit and any number of references, in a
\* process that builds one module or prints the version, whatever happens to the
\* file and in other processes.
THEOREM NestingIsLimited == VersionsSpec => []ResolvedWithinLimit
<1>1. VersionsInit => LimitInv
  BY FromTheStart
<1>2. LimitInv /\ [VersionsNext]_versionsVars => LimitInv'
  BY LimitKept, Stutter DEF VersionsNext
<1>3. LimitInv => ResolvedWithinLimit
  BY LimitHolds
<1>. QED
  BY <1>1, <1>2, <1>3, PTL DEF VersionsSpec
=============================================================================
