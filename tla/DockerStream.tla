---------------------------- MODULE DockerStream ----------------------------
(***************************************************************************)
(* How welder reads what the Docker daemon answers to a build, a push or a *)
(* pull: a goroutine per answer (streamMessagesToChannel) turns its lines   *)
(* into messages on an unbuffered channel, chanMsgReader.Listen takes them  *)
(* off it until it has seen as many ends as it expects, or an error.       *)
(*                                                                         *)
(* A push opens one answer per tag, one after the other, while the readers *)
(* of the earlier ones already run.  A line is an item of its stream:      *)
(* "message" is shown to the callback of Listen, "digest" and "id" are kept *)
(* in the Dockerfile object by the goroutine itself, "error" is an error of *)
(* the daemon or a line that cannot be parsed.                             *)
(***************************************************************************)
EXTENDS Naturals, Sequences

CONSTANTS
  NumTags,  \* bound: tags of one push
  MaxItems  \* bound: items of one answer

ASSUME ConstantsAssumption == NumTags \in Nat \ {0} /\ MaxItems \in Nat

Tags  == 1..NumTags
Items == {"message", "digest", "id", "error"}
EOF   == "eof"
Ops   == {"build", "push", "pull"}

Answers == UNION {[1..n -> Items] : n \in 0..MaxItems}
\* a pull passes on whatever is not an error
PullAnswers == UNION {[1..n -> {"message", "error"}] : n \in 0..MaxItems}

VARIABLES
  op,           \* which of Dockerfile.Build, Dockerfile.Push, pullImageForPlatformAndWait
  answer,       \* what the daemon has to say per tag; only one is used but for a push
  lost,         \* the answers whose connection broke
  reader,       \* where the goroutine of each answer is
  left,         \* the items it has yet to read
  offer,        \* what it is sending
  got,          \* what has been handled of each answer
  listener,     \* where the caller is
  receivedEOFs, \* ends seen by Next
  digests       \* keys of TagDigests

vars == <<op, answer, lost, reader, left, offer, got, listener, receivedEOFs, digests>>
call == <<op, answer>>

\* as Build, Push and pullImageForPlatformAndWait create their chanMsgReader
expectedEOFs == CASE op = "build" -> 1 [] op = "push" -> NumTags [] op = "pull" -> 0
Streams == IF op = "push" THEN Tags ELSE {1}

TypeOK ==
  /\ op \in Ops
  /\ answer \in [Tags -> Answers]
  /\ lost \subseteq Tags
  /\ reader \in [Tags -> {"none", "reading", "sending", "gone"}]
  /\ left \in [Tags -> Answers \cup {<<"error">>}]
  /\ offer \in [Tags -> {"message", "error", EOF}]
  /\ got \in [Tags -> Answers]
  /\ listener \in {"open", "listen", "ok", "error"}
  /\ receivedEOFs \in 0..NumTags
  /\ digests \subseteq Tags

Init ==
  /\ op \in Ops
  /\ answer \in [Tags -> Answers]
  /\ \A t \in Tags \ Streams : answer[t] = <<>>
  /\ op = "pull" => answer[1] \in PullAnswers
  /\ lost = {}
  /\ reader = [t \in Tags |-> "none"]
  /\ left = answer
  /\ offer = [t \in Tags |-> EOF]
  /\ got = [t \in Tags |-> <<>>]
  /\ listener = "open"
  /\ receivedEOFs = 0
  /\ digests = {}
-----------------------------------------------------------------------------
(* The caller.                                                             *)

\* the first answer that is not open yet
ToOpen(t) == reader[t] = "none" /\ \A u \in Streams : u < t => reader[u] # "none"

\* ImageBuild, ImagePush or ImagePull is accepted: a goroutine reads the answer.
Open(t) ==
  /\ listener = "open"
  /\ t \in Streams /\ ToOpen(t)
  /\ reader' = [reader EXCEPT ![t] = "reading"]
  /\ UNCHANGED <<call, lost, left, offer, got, listener, receivedEOFs, digests>>

\* It, or finding the registry of the tag, fails: no reader is returned.
OpenFails ==
  /\ listener = "open"
  /\ \E t \in Streams : ToOpen(t)
  /\ listener' = "error"
  /\ UNCHANGED <<call, lost, reader, left, offer, got, receivedEOFs, digests>>

StartListening ==
  /\ listener = "open"
  /\ \A t \in Streams : reader[t] # "none"
  /\ listener' = "listen"
  /\ UNCHANGED <<call, lost, reader, left, offer, got, receivedEOFs, digests>>

\* Mutant: the end of any answer is taken for the end of all.
NextAnyEOF(t) ==
  /\ listener = "listen"
  /\ reader[t] = "sending" /\ offer[t] = EOF
  /\ receivedEOFs' = receivedEOFs + 1
  /\ listener' = "ok"
  /\ reader' = [reader EXCEPT ![t] = "gone"]
  /\ UNCHANGED <<call, lost, left, offer, got, digests>>

\* Mutant: waits for one end more than there are answers.
NextOneMore(t) ==
  /\ listener = "listen"
  /\ reader[t] = "sending" /\ offer[t] = EOF
  /\ receivedEOFs' = receivedEOFs + 1
  /\ listener' = IF receivedEOFs' > expectedEOFs THEN "ok" ELSE "listen"
  /\ reader' = [reader EXCEPT ![t] = "gone"]
  /\ UNCHANGED <<call, lost, left, offer, got, digests>>

\* Next takes the end of an answer off the channel; the last one ends Listen.
NextEOF(t) ==
  /\ listener = "listen"
  /\ reader[t] = "sending" /\ offer[t] = EOF
  /\ receivedEOFs' = receivedEOFs + 1
  /\ listener' = IF receivedEOFs' >= expectedEOFs THEN "ok" ELSE "listen"
  /\ reader' = [reader EXCEPT ![t] = "gone"]
  /\ UNCHANGED <<call, lost, left, offer, got, digests>>

\* Next takes a message off the channel, Listen hands it to the callback.
NextMessage(t) ==
  /\ listener = "listen"
  /\ reader[t] = "sending" /\ offer[t] = "message"
  /\ got' = [got EXCEPT ![t] = Append(@, "message")]
  /\ reader' = [reader EXCEPT ![t] = "reading"]
  /\ UNCHANGED <<call, lost, left, offer, listener, receivedEOFs, digests>>

\* Next takes an error off the channel: Listen returns it at once, whatever
\* the other goroutines have still to send.
NextError(t) ==
  /\ listener = "listen"
  /\ reader[t] = "sending" /\ offer[t] = "error"
  /\ listener' = "error"
  /\ reader' = [reader EXCEPT ![t] = "reading"]
  /\ UNCHANGED <<call, lost, left, offer, got, receivedEOFs, digests>>
-----------------------------------------------------------------------------
(* The goroutine of an answer.                                             *)

\* what processDockerResponseMsg keeps instead of sending it
Kept(item) == item \in {"digest", "id"}

\* Mutant: errors of the daemon are kept from the caller.
ScanDropsError(t) ==
  /\ reader[t] = "reading" /\ left[t] # <<>>
  /\ left' = [left EXCEPT ![t] = Tail(@)]
  /\ IF Head(left[t]) # "message"
     THEN /\ got' = [got EXCEPT ![t] = Append(@, Head(left[t]))]
          /\ digests' = IF Head(left[t]) = "digest" THEN digests \cup {t} ELSE digests
          /\ UNCHANGED <<reader, offer>>
     ELSE /\ offer' = [offer EXCEPT ![t] = Head(left[t])]
          /\ reader' = [reader EXCEPT ![t] = "sending"]
          /\ UNCHANGED <<got, digests>>
  /\ UNCHANGED <<call, lost, listener, receivedEOFs>>

\* Mutant: a digest replaces those of the other tags.
ScanKeepsOneDigest(t) ==
  /\ reader[t] = "reading" /\ left[t] # <<>>
  /\ left' = [left EXCEPT ![t] = Tail(@)]
  /\ IF Kept(Head(left[t]))
     THEN /\ got' = [got EXCEPT ![t] = Append(@, Head(left[t]))]
          /\ digests' = IF Head(left[t]) = "digest" THEN {t} ELSE digests
          /\ UNCHANGED <<reader, offer>>
     ELSE /\ offer' = [offer EXCEPT ![t] = Head(left[t])]
          /\ reader' = [reader EXCEPT ![t] = "sending"]
          /\ UNCHANGED <<got, digests>>
  /\ UNCHANGED <<call, lost, listener, receivedEOFs>>

\* A line is read: what it says is kept, or offered to the channel.
Scan(t) ==
  /\ reader[t] = "reading" /\ left[t] # <<>>
  /\ left' = [left EXCEPT ![t] = Tail(@)]
  /\ IF Kept(Head(left[t]))
     THEN /\ got' = [got EXCEPT ![t] = Append(@, Head(left[t]))]
          /\ digests' = IF Head(left[t]) = "digest" THEN digests \cup {t} ELSE digests
          /\ UNCHANGED <<reader, offer>>
     ELSE /\ offer' = [offer EXCEPT ![t] = Head(left[t])]
          /\ reader' = [reader EXCEPT ![t] = "sending"]
          /\ UNCHANGED <<got, digests>>
  /\ UNCHANGED <<call, lost, listener, receivedEOFs>>

\* Scan returns false: the end of the answer, or an error nobody asks for.
ScanEnds(t) ==
  /\ reader[t] = "reading" /\ left[t] = <<>>
  /\ offer' = [offer EXCEPT ![t] = EOF]
  /\ reader' = [reader EXCEPT ![t] = "sending"]
  /\ UNCHANGED <<call, lost, left, got, listener, receivedEOFs, digests>>

\* The connection breaks, or the Go context is cancelled.  Between two lines that
\* looks like the end; within a line scanner.Err is seen and reported.
Break(t) ==
  /\ reader[t] = "reading" /\ left[t] # <<>> /\ t \notin lost
  /\ lost' = lost \cup {t}
  /\ \E rest \in {<<>>, <<"error">>} : left' = [left EXCEPT ![t] = rest]
  /\ UNCHANGED <<call, reader, offer, got, listener, receivedEOFs, digests>>
-----------------------------------------------------------------------------
\* Who called Listen goes on; a goroutine may be left behind, sending.
Finished == listener \in {"ok", "error"} /\ UNCHANGED vars

Listener ==
  \/ \E t \in Tags : Open(t) \/ NextEOF(t) \/ NextMessage(t) \/ NextError(t)
  \/ StartListening \/ OpenFails
Reader(t) == Scan(t) \/ ScanEnds(t) \/ Break(t)

Next == Listener \/ (\E t \in Tags : Reader(t)) \/ Finished

\* The daemon's answers end, and goroutines are scheduled.
Fairness == WF_vars(Listener) /\ \A t \in Tags : WF_vars(Reader(t))

Spec == Init /\ [][Next]_vars /\ Fairness
-----------------------------------------------------------------------------
(* Properties.                                                             *)

\* PushDocker reads TagDigests right after Listen (welder/build_docker.go:126):
\* by then every digest the daemon told is there, and the writers have stopped.
DigestsCompleteAfterListen ==
  listener = "ok" /\ op # "pull" =>
    \A t \in Streams : \/ t \in lost
                       \/ t \in digests <=> \E i \in DOMAIN answer[t] : answer[t][i] = "digest"

\* Listen leaves no goroutine behind when it returns nil: none is still reading
\* or blocked on the channel nobody will take from any more.
NobodyLeftBehind ==
  listener = "ok" => \A t \in Tags : reader[t] \in {"none", "gone"}

\* Listen and the call before it always return.
ListenReturns == <>(listener \in {"ok", "error"})

Feed == INSTANCE MessageFeed WITH
  Streams <- Tags,
  left <- [t \in Tags |-> IF reader[t] = "sending" /\ offer[t] # EOF
                          THEN <<offer[t]>> \o left[t] ELSE left[t]],
  verdict <- IF listener \in {"ok", "error"} THEN listener ELSE "open"

\* The goroutines and the channel implement MessageFeed: per answer nothing is
\* lost, repeated or out of order, no error is dropped, nil means complete.
FeedSpec == Feed!Spec
=============================================================================
