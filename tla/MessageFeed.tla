---------------------------- MODULE MessageFeed -----------------------------
(***************************************************************************)
(* What a MsgReader promises to who calls Listen, without the goroutines   *)
(* and the channel of DockerStream: the answers of the Docker daemon are   *)
(* handled stream by stream in order, whatever the interleaving; Listen    *)
(* returns an error only for one the daemon (or the reading of its answer) *)
(* reported, and nil only when nothing is left to be handled.              *)
(***************************************************************************)
EXTENDS Naturals, Sequences

CONSTANTS Streams, Items

Error == "error"     \* an item that reports a failure
Visible == "message" \* an item for the callback of Listen

VARIABLES
  left,   \* what each stream has yet to hand over
  got,    \* what has been handled of each stream
  verdict \* "open" until Listen, or the call that opens the streams, returns

vars == <<left, got, verdict>>

Init ==
  /\ left \in [Streams -> Seq(Items)]
  /\ got = [s \in Streams |-> <<>>]
  /\ verdict = "open"

\* The callback is not called once Listen has returned; other items may still be
\* recorded by a reader that is left behind.
Handle(s) ==
  /\ left[s] # <<>>
  /\ Head(left[s]) # Error
  /\ Head(left[s]) = Visible => verdict = "open"
  /\ got' = [got EXCEPT ![s] = Append(@, Head(left[s]))]
  /\ left' = [left EXCEPT ![s] = Tail(@)]
  /\ UNCHANGED verdict

\* the connection breaks; whether that is noticed is left open
Lose(s) ==
  /\ \E rest \in {<<>>, <<Error>>} : left' = [left EXCEPT ![s] = rest]
  /\ UNCHANGED <<got, verdict>>

Fail(s) ==
  /\ verdict = "open"
  /\ left[s] # <<>> /\ Head(left[s]) = Error
  /\ left' = [left EXCEPT ![s] = Tail(@)]
  /\ verdict' = "error"
  /\ UNCHANGED got

\* the streams cannot be opened: then nothing was shown of them
Refuse ==
  /\ verdict = "open"
  /\ \A s \in Streams : \A i \in 1..Len(got[s]) : got[s][i] # Visible
  /\ verdict' = "error"
  /\ UNCHANGED <<left, got>>

Complete ==
  /\ verdict = "open"
  /\ \A s \in Streams : left[s] = <<>>
  /\ verdict' = "ok"
  /\ UNCHANGED <<left, got>>

Next == (\E s \in Streams : Handle(s) \/ Lose(s) \/ Fail(s)) \/ Refuse \/ Complete

Spec == Init /\ [][Next]_vars
=============================================================================
