--------------------------- MODULE VolumeSyncProofs ---------------------------
(***************************************************************************)
(* Proofs about VolumeSync for any number of processes, names and volumes: *)
(* commands see their volumes, sessions live as long as they are used and  *)
(* no longer, and what was written has reached the host.                   *)
(***************************************************************************)
EXTENDS VolumeSync, SequenceTheorems, TLAPS

States == {"scanning", "watching", "gone"}
Places == {"start", "create", "poll", "look", "wait", "commands", "list", "waitListed",
           "terminate", "monitor", "unmonitor", "readers", "end", "ended"}
Session == [owner : Actors, name : ProjectIDs \X Paths]

Typed ==
  /\ set \in Settings
  /\ sessions \in Seq(Session) /\ state \in Seq(States) /\ Len(state) = Len(sessions)
  /\ pc \in [Actors -> Places]
  /\ mine \in [Actors -> Seq(Nat)] /\ waiting \in [Actors -> SUBSET Nat]
  /\ listed \in [Actors -> SUBSET (Nat \X Nat)] /\ waitErr \in [Actors -> BOOLEAN]
  /\ outcome \in [Actors -> {"ok", "error"}] /\ result \in [Actors -> {"none", "ok", "error"}]

\* A session that watches has been in sync and is, and one without a far side lost it.
Told(id) ==
  /\ state[id] = "watching" => id \in synced /\ id \notin pending
  /\ Alive(id) => id \in connected \/ id \in dropped

\* A session is named after a volume of its owner, who knows it.
Named(a) ==
  /\ \A id \in Owned(a) : \E i \in DOMAIN set[a].vols :
       sessions[id].name = <<set[a].prefix, set[a].vols[i]>>
  /\ Owned(a) = {mine[a][k] : k \in DOMAIN mine[a]}

\* How many sessions there are, and of what kind the actor is, where it is.
AtPlace(a) ==
  /\ pc[a] = "start" => Len(mine[a]) = 0
  /\ pc[a] = "create" => Len(mine[a]) < Len(set[a].vols)
  /\ pc[a] \in {"poll", "look", "monitor", "unmonitor"} =>
       Len(mine[a]) > 0 /\ Len(mine[a]) <= Len(set[a].vols)
  /\ pc[a] \in {"monitor", "unmonitor"} => Kind(a) = "watch"
  /\ pc[a] \in {"poll", "look"} => Kind(a) # "watch"
  /\ pc[a] \in {"wait", "commands", "list", "waitListed", "terminate"} =>
       Kind(a) = "build" /\ Len(mine[a]) = Len(set[a].vols)
  /\ pc[a] = "readers" => Kind(a) = "sync"
  /\ result[a] = IF pc[a] = "ended" THEN outcome[a] ELSE "none"
  /\ a \in handler => /\ a \in cancelled /\ Kind(a) = "watch"
                      /\ Len(mine[a]) > 0 /\ Len(mine[a]) <= Len(set[a].vols)

\* Goroutines wait for each session until it is in sync or has lost its far side.
Awaited(a) ==
  /\ pc[a] = "wait" /\ ~waitErr[a] =>
       \A id \in Owned(a) : id \in waiting[a] \/ id \in synced \/ id \in dropped
  /\ pc[a] = "commands" => \A id \in Owned(a) : id \in synced \/ id \in dropped

\* Nobody terminates a session before its owner does, but for a namesake or a signal.
Kept(a) ==
  /\ pc[a] \in {"create", "poll", "look", "wait", "commands", "list", "waitListed", "monitor"}
  /\ Undisturbed(a) /\ ~(a \in cancelled /\ Kind(a) = "watch")
  => \A id \in Owned(a) : Alive(id)

\* What is listed has a name of this actor.
Listed(a) ==
  \A m \in listed[a] : m[1] \in Ids /\ m[2] \in DOMAIN set[a].vols
                       /\ sessions[m[1]].name = <<set[a].prefix, set[a].vols[m[2]]>>

EndedWell(a) == pc[a] \in {"end", "ended"} /\ outcome[a] = "ok"

\* A session of its own is terminated or will be.
Terminated(a) ==
  /\ pc[a] \in {"waitListed", "terminate"} =>
       \A id \in Owned(a) : ~Alive(id) \/ \E m \in listed[a] : m[1] = id
  /\ EndedWell(a) => \A id \in Owned(a) : ~Alive(id)
  /\ pc[a] \in {"end", "ended"} /\ Kind(a) = "watch" => \A id \in Owned(a) : ~Alive(id)

\* What the commands wrote is waited for, or has arrived.
Carried(a) ==
  Undisturbed(a) =>
    /\ pc[a] = "waitListed" /\ ~waitErr[a] =>
         \A id \in Owned(a) : id \in waiting[a] \/ id \notin pending \/ id \in dropped
    /\ pc[a] = "terminate" \/ EndedWell(a) =>
         \A id \in Owned(a) : id \notin pending \/ id \in dropped

ActorInv(a) ==
  /\ Named(a) /\ AtPlace(a) /\ Awaited(a) /\ Kept(a) /\ Listed(a) /\ Terminated(a)
  /\ Carried(a)

\* Those who have a container, or are about to.
Working(a) == pc[a] \notin {"start", "end", "ended"}

\* Whoever works next to one with a name of its own has been noticed.
Met ==
  \A a, b \in Actors : a # b /\ Working(a) /\ Working(b) /\ Names(a) \cap Names(b) # {}
                         => a \in overlapped

Inv ==
  Typed /\ (\A id \in Ids : Told(id)) /\ (\A a \in Actors : ActorInv(a)) /\ Met
-----------------------------------------------------------------------------
USE ConstantsAssumption DEF Kind, Undisturbed

LEMMA SettingFacts ==
  ASSUME Typed, NEW a \in Actors
  PROVE  /\ set[a] \in Setting /\ set[a].vols \in Seq(Paths)
         /\ Len(set[a].vols) \in Nat /\ Len(set[a].vols) > 0
         /\ DOMAIN set[a].vols = 1..Len(set[a].vols)
         /\ Kind(a) # "build" => Len(set[a].vols) = 1
<1>1. set[a] \in Setting /\ set[a].vols # <<>> /\ (Kind(a) # "build" => Len(set[a].vols) = 1)
  BY DEF Typed
<1>2. set[a].vols \in Seq(Paths)
  BY <1>1 DEF Setting
<1> QED BY <1>1, <1>2, EmptySeq, LenProperties

LEMMA IdFacts ==
  ASSUME Typed
  PROVE  /\ Len(sessions) \in Nat /\ Ids = 1..Len(sessions)
         /\ DOMAIN state = Ids /\ \A id \in Ids : state[id] \in States
         /\ \A id \in Ids : sessions[id] \in Session
BY DEF Typed, Ids

LEMMA MineFacts ==
  ASSUME Typed, NEW a \in Actors
  PROVE  /\ mine[a] \in Seq(Nat) /\ Len(mine[a]) \in Nat /\ DOMAIN mine[a] = 1..Len(mine[a])
BY DEF Typed

\* The places where a session is in use, or yet to be.
Using == {"create", "poll", "look", "wait", "commands", "list", "waitListed", "monitor"}

\* What an actor keeps while others are at work, the tool included.
LEMMA OthersKeep ==
  ASSUME NEW b \in Actors, ActorInv(b), set' = set, Owned(b)' = Owned(b),
         \A id \in Ids : id \in Ids' /\ sessions'[id] = sessions[id],
         pc'[b] = pc[b], mine'[b] = mine[b], waiting'[b] = waiting[b],
         listed'[b] = listed[b], waitErr'[b] = waitErr[b], outcome'[b] = outcome[b],
         result'[b] = result[b],
         synced \subseteq synced', dropped \subseteq dropped', overlapped \subseteq overlapped',
         cancelled \subseteq cancelled',
         b \in handler' =>
           b \in handler \/ (b \in cancelled' /\ pc[b] \in {"monitor", "unmonitor"}),
         \A id \in Owned(b) : Alive(id)' => Alive(id),
         \A id \in Owned(b) : Alive(id) =>
           \/ Alive(id)' \/ b \in overlapped \/ (b \in cancelled /\ Kind(b) = "watch")
           \/ pc[b] \notin Using,
         \A id \in Owned(b) : id \in pending' => id \in pending \/ pc[b] = "commands"
  PROVE  ActorInv(b)'
<1>1. Owned(b) \subseteq Ids
  BY DEF Owned
<1>2. Named(b)'
  <2>1. Named(b)
    BY DEF ActorInv
  <2>2. {mine[b][k] : k \in DOMAIN mine[b]}' = {mine[b][k] : k \in DOMAIN mine[b]}
    OBVIOUS
  <2>3. \A id \in Owned(b) : sessions'[id] = sessions[id]
    BY <1>1
  <2> QED BY <2>1, <2>2, <2>3 DEF Named
<1>3. AtPlace(b)'
  BY DEF AtPlace, ActorInv
<1>4. Awaited(b)'
  BY DEF Awaited, ActorInv
<1>5. Kept(b)'
  BY DEF Kept, ActorInv, Using
<1>6. Listed(b)'
  <2>1. Listed(b)
    BY DEF ActorInv
  <2>2. ASSUME NEW m \in listed[b]
        PROVE  m[1] \in Ids' /\ m[2] \in DOMAIN set'[b].vols
               /\ sessions'[m[1]].name = <<set'[b].prefix, set'[b].vols[m[2]]>>
    BY <2>1 DEF Listed
  <2> QED BY <2>2 DEF Listed
<1>7. Terminated(b)'
  BY DEF Terminated, ActorInv, EndedWell
<1>8. Carried(b)'
  BY DEF Carried, ActorInv, EndedWell
<1> QED BY <1>2, <1>3, <1>4, <1>5, <1>6, <1>7, <1>8 DEF ActorInv

LEMMA MetKeeps ==
  ASSUME Met, set' = set, overlapped \subseteq overlapped',
         \A b \in Actors : Working(b)' => Working(b)
  PROVE  Met'
<1> SUFFICES ASSUME NEW a \in Actors, NEW b \in Actors, a # b, Working(a)', Working(b)',
                    (Names(a) \cap Names(b) # {})'
             PROVE  a \in overlapped'
  BY DEF Met
<1>1. Names(a)' = Names(a) /\ Names(b)' = Names(b)
  BY DEF Names
<1> QED BY <1>1 DEF Met

\* A step of one actor that does nothing to the sessions.
LEMMA QuietStep ==
  ASSUME Inv, NEW a \in Actors, Typed', UNCHANGED <<set, tool, synced, dropped, signals>>,
         overlapped \subseteq overlapped',
         \A b \in Actors \ {a} :
           /\ pc'[b] = pc[b] /\ mine'[b] = mine[b] /\ waiting'[b] = waiting[b]
           /\ listed'[b] = listed[b] /\ waitErr'[b] = waitErr[b] /\ outcome'[b] = outcome[b]
           /\ result'[b] = result[b],
         ActorInv(a)', Working(a)' => Working(a) \/ Met'
  PROVE  Inv'
<1>1. Ids' = Ids /\ sessions' = sessions /\ \A id : Alive(id)' = Alive(id)
  BY DEF tool, Ids, Alive
<1>2. \A b \in Actors : Owned(b)' = Owned(b)
  BY <1>1 DEF Owned
<1>3. \A id \in Ids' : Told(id)'
  BY <1>1 DEF Inv, Told, tool
<1>4. ASSUME NEW b \in Actors, b # a PROVE ActorInv(b)'
  <2>1. ActorInv(b)
    BY DEF Inv
  <2> HIDE DEF Inv
  <2> QED BY <1>1, <1>2, <1>4, <2>1, OthersKeep DEF tool, signals
<1>5. Met'
  <2>1. CASE Met'
    BY <2>1
  <2>2. CASE ~Met'
    <3>1. \A b \in Actors : Working(b)' => Working(b)
      BY <2>2 DEF Working
    <3> QED BY <3>1, MetKeeps DEF Inv
  <2> QED BY <2>1, <2>2
<1> QED BY <1>3, <1>4, <1>5 DEF Inv

LEMMA NamedKeeps ==
  ASSUME NEW a \in Actors, Named(a), UNCHANGED <<set, tool, mine>>
  PROVE  Named(a)'
<1>1. sessions' = sessions /\ Owned(a)' = Owned(a)
  BY DEF tool, Owned, Ids
<1>2. {mine[a][k] : k \in DOMAIN mine[a]}' = {mine[a][k] : k \in DOMAIN mine[a]}
  OBVIOUS
<1> QED BY <1>1, <1>2 DEF Named

\* A call fails before or while sessions are created, waited for or terminated.
Fallible == {"start", "create", "poll", "look", "wait", "commands", "list", "waitListed",
             "terminate"}

LEMMA FailStep ==
  ASSUME Inv, NEW a \in Actors, pc[a] \in Fallible, Fail(a),
         UNCHANGED <<set, tool, mine, result, signals, synced, dropped, overlapped>>,
         waiting' \in [Actors -> SUBSET Nat], waitErr' \in [Actors -> BOOLEAN],
         listed' \in [Actors -> SUBSET (Nat \X Nat)], listed'[a] \subseteq listed[a],
         \A b \in Actors \ {a} :
           waiting'[b] = waiting[b] /\ listed'[b] = listed[b] /\ waitErr'[b] = waitErr[b]
  PROVE  Inv'
<1>1. Typed /\ ActorInv(a)
  BY DEF Inv
<1>2. pc'[a] = "end" /\ outcome'[a] = "error"
  BY <1>1 DEF Typed, Fail, GoTo
<1>3. Typed'
  BY <1>1 DEF Typed, Fail, GoTo, Places, tool
<1>4. Ids' = Ids /\ sessions' = sessions /\ Owned(a)' = Owned(a)
  BY DEF tool, Ids, Owned
<1>5. Named(a)'
  BY <1>1, NamedKeeps DEF ActorInv
<1>6. AtPlace(a)'
  <2>1. AtPlace(a)
    BY <1>1 DEF ActorInv
  <2>2. result'[a] = "none"
    BY <2>1 DEF AtPlace, Fallible
  <2> QED BY <1>2, <2>1, <2>2 DEF AtPlace, signals
<1>7. Listed(a)'
  BY <1>1, <1>4 DEF ActorInv, Listed
<1>8. Kind(a) = "watch" => Owned(a) = {}
  <2> SUFFICES ASSUME Kind(a) = "watch" PROVE Owned(a) = {}
    OBVIOUS
  <2>1. Len(set[a].vols) = 1
    BY <1>1, SettingFacts
  <2>2. pc[a] \in {"start", "create"} /\ Len(mine[a]) = 0
    BY <1>1, <2>1, MineFacts DEF ActorInv, AtPlace, Fallible
  <2>3. DOMAIN mine[a] = {}
    BY <1>1, <2>2, MineFacts
  <2> QED BY <1>1, <2>3 DEF ActorInv, Named
<1>9. Awaited(a)' /\ Kept(a)' /\ Terminated(a)' /\ Carried(a)'
  BY <1>2, <1>4, <1>8 DEF Awaited, Kept, Terminated, Carried, EndedWell
<1>10. ActorInv(a)'
  BY <1>5, <1>6, <1>7, <1>9 DEF ActorInv
<1>11. ~Working(a)'
  BY <1>2 DEF Working
<1>12. \A b \in Actors \ {a} : pc'[b] = pc[b] /\ outcome'[b] = outcome[b]
  BY <1>1 DEF Typed, Fail, GoTo
<1> QED BY <1>3, <1>10, <1>11, <1>12, QuietStep

LEMMA FailingSteps ==
  ASSUME Inv, NEW a \in Actors,
         StartFails(a) \/ CreateFails(a) \/ ListFails(a) \/ CommandsFail(a) \/ TerminateFails(a)
  PROVE  Inv'
<1>1. pc[a] \in Fallible /\ Fail(a)
      /\ UNCHANGED <<set, tool, waits, result, signals, synced, dropped, overlapped>>
  BY DEF StartFails, CreateFails, ListFails, CommandsFail, TerminateFails, Fallible
<1>2. Typed
  BY DEF Inv
<1>3. waiting' \in [Actors -> SUBSET Nat] /\ waitErr' \in [Actors -> BOOLEAN]
      /\ listed' \in [Actors -> SUBSET (Nat \X Nat)] /\ mine' = mine
      /\ waiting' = waiting /\ waitErr' = waitErr /\ listed' = listed
  BY <1>1, <1>2 DEF Typed, waits
<1> QED BY <1>1, <1>3, FailStep

\* Where only the place of an actor changes, and what it waits for.
LEMMA PassStep ==
  ASSUME Inv, NEW a \in Actors, NEW where \in Places \ {"ended"}, GoTo(a, where),
         pc[a] \notin {"end", "ended"},
         UNCHANGED <<set, tool, mine, ends, signals, synced, dropped, overlapped>>,
         waiting' \in [Actors -> SUBSET Nat], waitErr' \in [Actors -> BOOLEAN],
         listed' \in [Actors -> SUBSET (Nat \X Nat)],
         \A b \in Actors \ {a} :
           waiting'[b] = waiting[b] /\ listed'[b] = listed[b] /\ waitErr'[b] = waitErr[b],
         pc[a] # "start" \/ where \in {"start", "end"},
         AtPlace(a)', Awaited(a)', Kept(a)', Listed(a)', Terminated(a)', Carried(a)'
  PROVE  Inv'
<1>1. Typed /\ ActorInv(a)
  BY DEF Inv
<1>2. Typed'
  BY <1>1 DEF Typed, GoTo, tool, ends
<1>3. \A b \in Actors \ {a} : pc'[b] = pc[b]
  BY <1>1 DEF Typed, GoTo
<1>4. Named(a)'
  BY <1>1, NamedKeeps DEF ActorInv
<1>5. ActorInv(a)'
  BY <1>4 DEF ActorInv
<1>6. Working(a)' => Working(a) \/ Met'
  <2>1. pc'[a] = where
    BY <1>1 DEF Typed, GoTo
  <2> QED BY <2>1 DEF Working
<1> QED BY <1>2, <1>3, <1>5, <1>6, QuietStep DEF ends

\* What a place means for an actor that has just come there.
LEMMA OwnSame ==
  ASSUME NEW a \in Actors, UNCHANGED <<set, tool, mine>>
  PROVE  Owned(a)' = Owned(a) /\ Ids' = Ids /\ \A id : Alive(id)' = Alive(id)
BY DEF tool, Owned, Ids, Alive

LEMMA StartKeeps == ASSUME Inv, NEW a \in Actors, Start(a) PROVE Inv'
<1>1. Typed /\ ActorInv(a) /\ Met
  BY DEF Inv
<1>2. pc[a] = "start" /\ pc'[a] = "create" /\ mine'[a] = <<>> /\ Owned(a) = {}
  <2>1. Len(mine[a]) = 0
    BY <1>1 DEF Start, ActorInv, AtPlace
  <2>2. DOMAIN mine[a] = {} /\ mine[a] = <<>>
    BY <1>1, <2>1, MineFacts
  <2> QED BY <1>1, <2>2 DEF Start, GoTo, Typed, waits, ActorInv, Named
<1>3. Typed'
  BY <1>1 DEF Start, GoTo, Typed, Places, tool, waits, ends
<1>4. Owned(a)' = {} /\ Ids' = Ids
  BY <1>2, OwnSame DEF Start, waits
<1>5. Named(a)'
  BY <1>1, <1>2, <1>4 DEF Named
<1>6. AtPlace(a)'
  <2>1. Len(mine[a]) = 0 /\ Len(set[a].vols) > 0 /\ AtPlace(a)
    BY <1>1, <1>2, SettingFacts DEF ActorInv, AtPlace
  <2> QED BY <1>2, <2>1 DEF Start, AtPlace, waits, ends, signals
<1>7. Awaited(a)' /\ Kept(a)' /\ Terminated(a)' /\ Carried(a)'
  BY <1>2, <1>4 DEF Awaited, Kept, Terminated, Carried, EndedWell
<1>8. Listed(a)'
  BY <1>1, <1>4 DEF ActorInv, Listed, Start, tool, waits
<1>9. Met'
  <2> SUFFICES ASSUME NEW b \in Actors, NEW c \in Actors, b # c, Working(b)', Working(c)',
                      (Names(b) \cap Names(c) # {})'
               PROVE  b \in overlapped'
    BY DEF Met
  <2>1. Names(b)' = Names(b) /\ Names(c)' = Names(c)
    BY DEF Names, Start
  <2>2. \A d \in Actors \ {a} : Working(d)' = Working(d) /\ (Working(d) => Active(d))
    <3> SUFFICES ASSUME NEW d \in Actors \ {a}
                 PROVE  Working(d)' = Working(d) /\ (Working(d) => Active(d))
      OBVIOUS
    <3>1. pc'[d] = pc[d] /\ AtPlace(d)
      BY <1>1 DEF Start, GoTo, Typed, Inv, ActorInv
    <3> QED BY <3>1 DEF Working, Active, AtPlace
  <2>3. CASE b # a /\ c # a
    BY <1>1, <2>1, <2>2, <2>3 DEF Met, Start
  <2>4. CASE b = a
    <3>1. c \in {d \in Actors : d # a /\ Active(d) /\ Names(a) \cap Names(d) # {}}
      BY <2>1, <2>2, <2>4
    <3> QED BY <2>4, <3>1 DEF Start
  <2>5. CASE c = a
    <3>1. b \in {d \in Actors : d # a /\ Active(d) /\ Names(a) \cap Names(d) # {}}
      BY <2>1, <2>2, <2>5
    <3> QED BY <3>1 DEF Start
  <2> QED BY <2>3, <2>4, <2>5
<1>10. ActorInv(a)'
  BY <1>5, <1>6, <1>7, <1>8 DEF ActorInv
<1>11. \A b \in Actors \ {a} : pc'[b] = pc[b]
  BY <1>1 DEF Typed, Start, GoTo
<1> QED BY <1>3, <1>9, <1>10, <1>11, QuietStep DEF Start, waits, ends

LEMMA PollKeeps == ASSUME Inv, NEW a \in Actors, Poll(a) PROVE Inv'
<1>1. Typed /\ ActorInv(a)
  BY DEF Inv
<1>2. waiting' = waiting /\ listed' = listed /\ waitErr' = waitErr /\ mine' = mine
      /\ pc[a] = "poll" /\ result' = result
      /\ UNCHANGED <<set, tool, signals, synced, dropped, overlapped>>
  BY DEF Poll, waits, history
<1>3. waiting' \in [Actors -> SUBSET Nat] /\ waitErr' \in [Actors -> BOOLEAN]
      /\ listed' \in [Actors -> SUBSET (Nat \X Nat)]
  BY <1>1, <1>2 DEF Typed
<1>4. CASE Fail(a)
  BY <1>2, <1>3, <1>4, FailStep DEF Fallible
<1>5. CASE GoTo(a, "look") /\ UNCHANGED outcome
  <2>1. pc'[a] = "look" /\ UNCHANGED ends
    BY <1>1, <1>2, <1>5 DEF GoTo, Typed, ends
  <2>2. AtPlace(a)' /\ Awaited(a)' /\ Kept(a)' /\ Listed(a)' /\ Terminated(a)' /\ Carried(a)'
    <3>1. AtPlace(a)'
      BY <1>1, <1>2, <2>1 DEF ActorInv, AtPlace, signals, ends
    <3>2. Listed(a)'
      BY <1>1, <1>2 DEF ActorInv, Listed, tool, Ids
    <3>3. Awaited(a)' /\ Terminated(a)' /\ Carried(a)'
      BY <2>1 DEF Awaited, Terminated, Carried, EndedWell
    <3>4. Kept(a)'
      BY <1>1, <1>2, <2>1, OwnSame DEF ActorInv, Kept, signals
    <3> QED BY <3>1, <3>2, <3>3, <3>4
  <2> QED BY <1>2, <1>3, <1>5, <2>1, <2>2, PassStep DEF Places
<1> QED BY <1>4, <1>5 DEF Poll

LEMMA LookKeeps == ASSUME Inv, NEW a \in Actors, Look(a) PROVE Inv'
<1>1. Typed /\ ActorInv(a)
  BY DEF Inv
<1>2. listed' = listed /\ waitErr' = waitErr /\ mine' = mine /\ pc[a] = "look" /\ result' = result
      /\ UNCHANGED <<set, tool, signals, synced, dropped, overlapped>>
  BY DEF Look, history
<1>3. Owned(a) = {mine[a][k] : k \in DOMAIN mine[a]} /\ Owned(a) \subseteq Nat
  BY <1>1, IdFacts DEF ActorInv, Named, Owned
<1>4. Range(mine[a]) = Owned(a)
  BY <1>3 DEF Range
<1>5. CASE Fail(a) /\ UNCHANGED waiting
  <2>1. waiting' \in [Actors -> SUBSET Nat] /\ waitErr' \in [Actors -> BOOLEAN]
        /\ listed' \in [Actors -> SUBSET (Nat \X Nat)]
    BY <1>1, <1>2, <1>5 DEF Typed
  <2> QED BY <1>2, <1>5, <2>1, FailStep DEF Fallible
<1>6. ASSUME NEW where \in {"create", "readers", "wait"}, GoTo(a, where), UNCHANGED outcome,
             where = "create" => Len(mine[a]) < Len(set[a].vols),
             where = "readers" => Kind(a) = "sync",
             where = "wait" => Kind(a) # "sync" /\ ~(Len(mine[a]) < Len(set[a].vols)),
             waiting' = IF where = "wait" THEN [waiting EXCEPT ![a] = Owned(a)] ELSE waiting
      PROVE  Inv'
  <2>1. pc'[a] = where /\ UNCHANGED ends
    BY <1>1, <1>2, <1>6 DEF GoTo, Typed, ends
  <2>2. AtPlace(a)'
    <3>1. AtPlace(a)
      BY <1>1 DEF ActorInv
    <3>2. Kind(a) \in {"build", "watch", "sync"}
      BY <1>1, SettingFacts DEF Setting
    <3>3. Len(set[a].vols) \in Nat /\ Len(mine[a]) \in Nat
      BY <1>1, SettingFacts, MineFacts
    <3>4. Kind(a) # "watch" /\ Len(mine[a]) <= Len(set[a].vols) /\ result[a] = "none"
      BY <1>2, <3>1 DEF AtPlace
    <3>5. where = "wait" => Kind(a) = "build" /\ Len(mine[a]) = Len(set[a].vols)
      BY <1>6, <3>2, <3>3, <3>4
    <3>6. /\ Kind(a)' = Kind(a) /\ mine'[a] = mine[a] /\ set'[a] = set[a] /\ result'[a] = "none"
          /\ a \in handler' => /\ a \in cancelled' /\ Kind(a) = "watch"
                               /\ Len(mine[a]) > 0 /\ Len(mine[a]) <= Len(set[a].vols)
      BY <1>2, <3>1, <3>4 DEF AtPlace, signals
    <3> QED BY <1>6, <2>1, <3>5, <3>6 DEF AtPlace
  <2>3. Listed(a)'
    BY <1>1, <1>2 DEF ActorInv, Listed, tool, Ids
  <2>4. Terminated(a)' /\ Carried(a)'
    BY <2>1 DEF Terminated, Carried, EndedWell
  <2>5. Kept(a)'
    BY <1>1, <1>2, <2>1, OwnSame DEF ActorInv, Kept, signals
  <2>6. Awaited(a)'
    BY <1>1, <1>2, <1>6, <2>1, OwnSame DEF Awaited, Typed
  <2>7. waiting' \in [Actors -> SUBSET Nat] /\ waitErr' \in [Actors -> BOOLEAN]
        /\ listed' \in [Actors -> SUBSET (Nat \X Nat)]
        /\ \A b \in Actors \ {a} : waiting'[b] = waiting[b]
    BY <1>1, <1>2, <1>3, <1>6 DEF Typed
  <2> QED BY <1>2, <1>6, <2>1, <2>2, <2>3, <2>4, <2>5, <2>6, <2>7, PassStep DEF Places
<1>7. CASE GoTo(a, "create") /\ UNCHANGED waiting /\ UNCHANGED outcome
           /\ Len(mine[a]) < Len(set[a].vols)
  BY <1>6, <1>7
<1>8. CASE GoTo(a, "readers") /\ UNCHANGED waiting /\ UNCHANGED outcome /\ Kind(a) = "sync"
  BY <1>6, <1>8
<1>9. CASE GoTo(a, "wait") /\ waiting' = [waiting EXCEPT ![a] = Owned(a)] /\ UNCHANGED outcome
           /\ Kind(a) # "sync" /\ ~(Len(mine[a]) < Len(set[a].vols))
  BY <1>6, <1>9
<1> QED BY <1>4, <1>5, <1>7, <1>8, <1>9 DEF Look

\* What a goroutine that waits for a session has seen when it stops.
LEMMA SeenSettled ==
  ASSUME Inv, NEW id \in Ids, Settled(id)
  PROVE  (id \in synced /\ id \notin pending) \/ id \in dropped
BY DEF Inv, Told, Settled

LEMMA WaitKeeps == ASSUME Inv, NEW a \in Actors, WaitOne(a) \/ WaitOneFails(a) PROVE Inv'
<1>1. Typed /\ ActorInv(a)
  BY DEF Inv
<1>2. listed' = listed /\ mine' = mine /\ pc[a] \in {"wait", "waitListed"} /\ UNCHANGED ends
      /\ pc' = pc /\ UNCHANGED <<set, tool, signals, synced, dropped, overlapped>>
  BY DEF WaitOne, WaitOneFails, Waits, history
<1>3. PICK id \in waiting[a], bad \in BOOLEAN :
        /\ waiting' = [waiting EXCEPT ![a] = @ \ {id}]
        /\ waitErr' = [waitErr EXCEPT ![a] = bad]
        /\ waitErr[a] => bad
        /\ ~bad => Settled(id)
  <2>1. CASE WaitOne(a)
    <3>1. PICK id \in waiting[a] :
            /\ Settled(id) \/ ~Alive(id)
            /\ waiting' = [waiting EXCEPT ![a] = @ \ {id}]
            /\ waitErr' = [waitErr EXCEPT ![a] = @ \/ ~Alive(id)]
      BY <2>1 DEF WaitOne
    <3>2. (waitErr[a] \/ ~Alive(id)) \in BOOLEAN
      OBVIOUS
    <3>3. waitErr' = [waitErr EXCEPT ![a] = waitErr[a] \/ ~Alive(id)]
      BY <3>1
    <3> QED BY <3>1, <3>2, <3>3
  <2>2. CASE WaitOneFails(a)
    BY <2>2 DEF WaitOneFails
  <2> QED BY <2>1, <2>2
<1>4. waiting' \in [Actors -> SUBSET Nat] /\ waitErr' \in [Actors -> BOOLEAN]
      /\ listed' \in [Actors -> SUBSET (Nat \X Nat)]
      /\ waiting'[a] = waiting[a] \ {id} /\ waitErr'[a] = bad
      /\ \A b \in Actors \ {a} : waiting'[b] = waiting[b] /\ waitErr'[b] = waitErr[b]
  BY <1>1, <1>2, <1>3 DEF Typed
<1>5. GoTo(a, pc[a]) /\ pc[a] \in Places \ {"ended"}
  BY <1>1, <1>2 DEF GoTo, Typed, Places
<1>6. AtPlace(a)' /\ Listed(a)' /\ Terminated(a)'
  BY <1>1, <1>2, OwnSame DEF ActorInv, AtPlace, Listed, Terminated, EndedWell, signals, ends, tool
<1>7. Kept(a)'
  BY <1>1, <1>2, OwnSame DEF ActorInv, Kept, signals
<1>8. ASSUME NEW other \in Owned(a), ~bad, other \notin waiting'[a], other \in waiting[a]
      PROVE  (other \in synced /\ other \notin pending) \/ other \in dropped
  <2>1. other = id /\ other \in Ids
    BY <1>4, <1>8 DEF Owned
  <2> QED BY <1>3, <1>8, <2>1, SeenSettled
<1>9. Awaited(a)'
  <2>1. Owned(a)' = Owned(a)
    BY <1>2, OwnSame
  <2>2. Awaited(a)
    BY <1>1 DEF ActorInv
  <2> QED BY <1>2, <1>3, <1>4, <1>8, <2>1, <2>2 DEF Awaited
<1>10. Carried(a)'
  <2>1. Owned(a)' = Owned(a)
    BY <1>2, OwnSame
  <2>2. Carried(a)
    BY <1>1 DEF ActorInv
  <2> QED BY <1>2, <1>3, <1>4, <1>8, <2>1, <2>2 DEF Carried, EndedWell, tool
<1> QED BY <1>2, <1>4, <1>5, <1>6, <1>7, <1>9, <1>10, PassStep

\* Where nothing but the place changes.
LEMMA MoveStep ==
  ASSUME Inv, NEW a \in Actors, NEW where \in Places \ {"ended"}, GoTo(a, where),
         pc[a] \notin {"start", "end", "ended"},
         UNCHANGED <<set, tool, waits, ends, signals, synced, dropped, overlapped>>,
         AtPlace(a)', Awaited(a)', Kept(a)', Terminated(a)', Carried(a)'
  PROVE  Inv'
<1>1. Typed /\ ActorInv(a)
  BY DEF Inv
<1>2. waiting' \in [Actors -> SUBSET Nat] /\ waitErr' \in [Actors -> BOOLEAN]
      /\ listed' \in [Actors -> SUBSET (Nat \X Nat)]
      /\ waiting' = waiting /\ listed' = listed /\ waitErr' = waitErr /\ mine' = mine
  BY <1>1 DEF Typed, waits
<1>3. Listed(a)'
  BY <1>1, <1>2 DEF ActorInv, Listed, tool, Ids
<1> QED BY <1>2, <1>3, PassStep

LEMMA WaitReturnsKeeps == ASSUME Inv, NEW a \in Actors, WaitReturns(a) PROVE Inv'
<1>1. Typed /\ ActorInv(a)
  BY DEF Inv
<1>2. UNCHANGED <<set, tool, waits, signals, synced, dropped, overlapped>> /\ result' = result
      /\ mine' = mine /\ waiting' = waiting /\ waitErr' = waitErr /\ listed' = listed
      /\ pc[a] \in {"wait", "waitListed"} /\ waiting[a] = {}
  BY DEF WaitReturns, Waits, history, waits
<1>3. CASE Fail(a)
  <2>1. waiting' \in [Actors -> SUBSET Nat] /\ waitErr' \in [Actors -> BOOLEAN]
        /\ listed' \in [Actors -> SUBSET (Nat \X Nat)]
    BY <1>1, <1>2 DEF Typed
  <2> QED BY <1>2, <1>3, <2>1, FailStep DEF Fallible
<1>4. ASSUME ~waitErr[a], UNCHANGED outcome, NEW where \in {"commands", "end", "terminate"},
             GoTo(a, where),
             where = IF pc[a] = "wait" THEN "commands"
                     ELSE IF listed[a] = {} THEN "end" ELSE "terminate"
      PROVE  Inv'
  <2>1. pc'[a] = where /\ UNCHANGED ends /\ outcome'[a] = outcome[a]
    BY <1>1, <1>2, <1>4 DEF GoTo, Typed, ends
  <2>2. Owned(a)' = Owned(a) /\ \A id : Alive(id)' = Alive(id)
    BY <1>2, OwnSame
  <2>3. AtPlace(a)'
    BY <1>1, <1>2, <1>4, <2>1 DEF ActorInv, AtPlace, signals, ends
  <2>4. Awaited(a)'
    BY <1>1, <1>2, <1>4, <2>1, <2>2 DEF ActorInv, Awaited
  <2>5. Kept(a)'
    BY <1>1, <1>2, <2>1, <2>2 DEF ActorInv, Kept, signals
  <2>6. Terminated(a)'
    <3>1. Terminated(a) /\ AtPlace(a)
      BY <1>1 DEF ActorInv
    <3>2. where # "commands" => pc[a] = "waitListed" /\ Kind(a) = "build"
      BY <1>2, <1>4, <3>1 DEF AtPlace
    <3> QED BY <1>2, <1>4, <2>1, <2>2, <3>1, <3>2 DEF Terminated, EndedWell
  <2>7. Carried(a)'
    <3>1. Carried(a)
      BY <1>1 DEF ActorInv
    <3> QED BY <1>2, <1>4, <2>1, <2>2, <3>1 DEF Carried, EndedWell, tool
  <2> QED BY <1>2, <1>4, <2>1, <2>3, <2>4, <2>5, <2>6, <2>7, MoveStep DEF Places
<1>5. CASE waitErr[a]
  BY <1>3, <1>5 DEF WaitReturns
<1>6. CASE ~waitErr[a]
  BY <1>4, <1>6 DEF WaitReturns
<1> QED BY <1>5, <1>6

LEMMA CommandsEndKeeps == ASSUME Inv, NEW a \in Actors, CommandsEnd(a) PROVE Inv'
<1>1. Typed /\ ActorInv(a)
  BY DEF Inv
<1>2. pc[a] = "commands" /\ GoTo(a, "list") /\ pc'[a] = "list"
      /\ UNCHANGED <<set, tool, waits, ends, signals, synced, dropped, overlapped>>
  BY <1>1 DEF CommandsEnd, GoTo, Typed, history
<1>3. AtPlace(a)'
  BY <1>1, <1>2 DEF ActorInv, AtPlace, waits, ends, signals
<1>4. Awaited(a)' /\ Terminated(a)' /\ Carried(a)'
  BY <1>2 DEF Awaited, Terminated, Carried, EndedWell
<1>5. Kept(a)'
  BY <1>1, <1>2, OwnSame DEF ActorInv, Kept, signals, waits
<1> QED BY <1>2, <1>3, <1>4, <1>5, MoveStep DEF Places

LEMMA MonitorKeeps == ASSUME Inv, NEW a \in Actors, MonitorEnds(a) \/ MonitorFails(a) PROVE Inv'
<1>1. Typed /\ ActorInv(a)
  BY DEF Inv
<1>2. pc[a] = "monitor" /\ GoTo(a, "unmonitor") /\ pc'[a] = "unmonitor"
      /\ UNCHANGED <<set, tool, waits, ends, signals, synced, dropped, overlapped>>
  BY <1>1 DEF MonitorEnds, MonitorFails, GoTo, Typed, history
<1>3. AtPlace(a)'
  BY <1>1, <1>2 DEF ActorInv, AtPlace, waits, ends, signals
<1>4. Awaited(a)' /\ Terminated(a)' /\ Carried(a)' /\ Kept(a)'
  BY <1>2 DEF Awaited, Terminated, Carried, EndedWell, Kept
<1> QED BY <1>2, <1>3, <1>4, MoveStep DEF Places

LEMMA ListKeeps == ASSUME Inv, NEW a \in Actors, List(a) PROVE Inv'
<1>1. Typed /\ ActorInv(a)
  BY DEF Inv
<1>2. pc[a] = "list" /\ GoTo(a, "waitListed") /\ pc'[a] = "waitListed"
      /\ UNCHANGED <<set, tool, mine, waitErr, ends, signals, synced, dropped, overlapped>>
      /\ listed' = [listed EXCEPT ![a] = Matches(a)]
      /\ waiting' = [waiting EXCEPT ![a] = {m[1] : m \in Matches(a)}]
  BY <1>1 DEF List, GoTo, Typed, history
<1>3. Matches(a) \in SUBSET (Nat \X Nat) /\ {m[1] : m \in Matches(a)} \in SUBSET Nat
  <2>1. Ids \subseteq Nat /\ DOMAIN set[a].vols \subseteq Nat
    BY <1>1, IdFacts, SettingFacts
  <2> QED BY <2>1 DEF Matches
<1>4. waiting' \in [Actors -> SUBSET Nat] /\ waitErr' \in [Actors -> BOOLEAN]
      /\ listed' \in [Actors -> SUBSET (Nat \X Nat)]
      /\ waiting'[a] = {m[1] : m \in Matches(a)} /\ listed'[a] = Matches(a)
      /\ \A b \in Actors \ {a} : waiting'[b] = waiting[b] /\ listed'[b] = listed[b]
  BY <1>1, <1>2, <1>3 DEF Typed
<1>5. AtPlace(a)'
  BY <1>1, <1>2 DEF ActorInv, AtPlace, ends, signals
<1>6. Listed(a)'
  <2>1. \A m \in Matches(a) : m[1] \in Ids /\ m[2] \in DOMAIN set[a].vols
             /\ sessions[m[1]].name = <<set[a].prefix, set[a].vols[m[2]]>>
    BY DEF Matches
  <2> QED BY <1>2, <1>4, <2>1 DEF Listed, tool, Ids
<1>7. Owned(a)' = Owned(a) /\ \A id : Alive(id)' = Alive(id)
  BY <1>2, OwnSame
<1>8. ASSUME NEW id \in Owned(a), Alive(id)
      PROVE  \E m \in Matches(a) : m[1] = id
  <2>1. PICK i \in DOMAIN set[a].vols : sessions[id].name = <<set[a].prefix, set[a].vols[i]>>
    BY <1>1 DEF ActorInv, Named
  <2>2. <<id, i>> \in Ids \X DOMAIN set[a].vols
    BY DEF Owned
  <2>3. <<id, i>> \in Matches(a)
    BY <1>8, <2>1, <2>2 DEF Matches
  <2> QED BY <2>3
<1>9. Awaited(a)'
  BY <1>2 DEF Awaited
<1>10. Terminated(a)'
  BY <1>2, <1>4, <1>7, <1>8 DEF Terminated, EndedWell
<1>11. Kept(a)'
  BY <1>1, <1>2, <1>7 DEF ActorInv, Kept, signals
<1>12. Carried(a)'
  <2> SUFFICES ASSUME Undisturbed(a)', NEW id \in Owned(a) PROVE id \in waiting'[a]
    BY <1>2, <1>7 DEF Carried, EndedWell
  <2>1. Kind(a) = "build" /\ Kept(a)
    BY <1>1, <1>2 DEF ActorInv, AtPlace
  <2>2. Alive(id)
    BY <1>2, <2>1 DEF Kept
  <2> QED BY <1>4, <1>8, <2>2
<1> QED BY <1>2, <1>4, <1>5, <1>6, <1>9, <1>10, <1>11, <1>12, PassStep DEF Places

\* When a session is closed.
LEMMA Closed ==
  ASSUME Typed, NEW id \in Ids, Close(id), set' = set
  PROVE  /\ sessions' = sessions /\ Ids' = Ids /\ pending' = pending
         /\ state' \in Seq(States) /\ Len(state') = Len(sessions')
         /\ \A other \in Ids : Alive(other)' <=> Alive(other) /\ other # id
         /\ \A b \in Actors : Owned(b)' = Owned(b)
<1>1. sessions' = sessions /\ Ids' = Ids /\ pending' = pending
  BY DEF Close, Ids
<1>2. state' = [state EXCEPT ![id] = "gone"]
  BY DEF Close
<1>3. id \in 1..Len(state) /\ "gone" \in States
  BY DEF Typed, Ids, States
<1>4. state' \in Seq(States) /\ Len(state') = Len(state)
  BY <1>2, <1>3, ExceptSeq DEF Typed
<1>5. \A other \in Ids : Alive(other)' <=> Alive(other) /\ other # id
  BY <1>2, IdFacts DEF Alive
<1> QED BY <1>1, <1>4, <1>5 DEF Owned, Typed

LEMMA ToldWhenClosed ==
  ASSUME Inv, NEW id \in Ids, Close(id), set' = set, synced' = synced, dropped' = dropped
  PROVE  \A other \in Ids' : Told(other)'
<1>1. Ids' = Ids /\ pending' = pending
      /\ \A other \in Ids : Alive(other)' <=> Alive(other) /\ other # id
  BY Closed DEF Inv
<1>2. ASSUME NEW other \in Ids PROVE Told(other)'
  <2>1. Told(other) /\ (state'[other] = "watching" => state[other] = "watching")
    BY IdFacts DEF Inv, Close
  <2>2. connected' = connected \ {id}
    BY DEF Close
  <2> QED BY <1>1, <2>1, <2>2 DEF Told
<1> QED BY <1>1, <1>2

LEMMA OthersWhenClosed ==
  ASSUME Inv, NEW id \in Ids, Close(id), NEW b \in Actors,
         UNCHANGED <<set, synced, dropped, overlapped, cancelled>>, handler' \subseteq handler,
         pc'[b] = pc[b], mine'[b] = mine[b], waiting'[b] = waiting[b],
         listed'[b] = listed[b], waitErr'[b] = waitErr[b], outcome'[b] = outcome[b],
         result'[b] = result[b],
         id \in Owned(b) => \/ b \in overlapped \/ (b \in cancelled /\ Kind(b) = "watch")
                            \/ pc[b] \notin Using
  PROVE  ActorInv(b)'
<1>1. Typed /\ ActorInv(b)
  BY DEF Inv
<1>2. /\ sessions' = sessions /\ Ids' = Ids /\ pending' = pending /\ Owned(b)' = Owned(b)
      /\ \A other \in Ids : Alive(other)' <=> Alive(other) /\ other # id
  BY <1>1, Closed
<1>3. Owned(b) \subseteq Ids
  BY DEF Owned
<1> QED BY <1>1, <1>2, <1>3, OthersKeep

\* Whose session is listed by somebody else is a namesake of his.
LEMMA ListedIsShared ==
  ASSUME Inv, NEW a \in Actors, NEW b \in Actors \ {a}, NEW m \in listed[a], Working(a),
         m[1] \in Owned(b), pc[b] \in Using
  PROVE  b \in overlapped
<1>1. Typed /\ Listed(a) /\ Named(b) /\ Met
  BY DEF Inv, ActorInv
<1>2. PICK i \in DOMAIN set[b].vols : sessions[m[1]].name = <<set[b].prefix, set[b].vols[i]>>
  BY <1>1 DEF Named
<1>3. m[2] \in DOMAIN set[a].vols /\ sessions[m[1]].name = <<set[a].prefix, set[a].vols[m[2]]>>
  BY <1>1 DEF Listed
<1>4. <<set[b].prefix, set[b].vols[i]>> \in Names(b)
  BY DEF Names, Range
<1>5. <<set[a].prefix, set[a].vols[m[2]]>> \in Names(a)
  BY <1>3 DEF Names, Range
<1>6. Names(a) \cap Names(b) # {} /\ Working(b)
  BY <1>2, <1>3, <1>4, <1>5 DEF Working, Using
<1> QED BY <1>1, <1>6 DEF Met

LEMMA TerminateKeeps == ASSUME Inv, NEW a \in Actors, Terminate(a) PROVE Inv'
<1>1. Typed /\ ActorInv(a)
  BY DEF Inv
<1>2. PICK m \in listed[a] :
        /\ IsFirst(m, listed[a])
        /\ listed' = [listed EXCEPT ![a] = @ \ {m}]
        /\ IF Alive(m[1])
           THEN Close(m[1]) /\ UNCHANGED outcome
                /\ GoTo(a, IF listed[a] = {m} THEN "end" ELSE "terminate")
           ELSE Fail(a) /\ UNCHANGED tool
  BY DEF Terminate
<1>3. pc[a] = "terminate" /\ mine' = mine /\ waiting' = waiting /\ waitErr' = waitErr
      /\ UNCHANGED <<set, result, signals, synced, dropped, overlapped>>
  BY DEF Terminate, history
<1>4. waiting' \in [Actors -> SUBSET Nat] /\ waitErr' \in [Actors -> BOOLEAN]
      /\ listed' \in [Actors -> SUBSET (Nat \X Nat)] /\ listed'[a] = listed[a] \ {m}
      /\ \A b \in Actors \ {a} : listed'[b] = listed[b]
  BY <1>1, <1>2, <1>3 DEF Typed
<1>5. CASE ~Alive(m[1])
  <2>1. Fail(a) /\ UNCHANGED tool
    BY <1>2, <1>5
  <2> QED BY <1>3, <1>4, <2>1, FailStep DEF Fallible
<1>6. CASE Alive(m[1])
  <2> DEFINE where == IF listed[a] = {m} THEN "end" ELSE "terminate"
  <2>1. Close(m[1]) /\ UNCHANGED outcome /\ GoTo(a, where) /\ m[1] \in Ids
    BY <1>1, <1>2, <1>6 DEF ActorInv, Listed
  <2>2. /\ sessions' = sessions /\ Ids' = Ids /\ pending' = pending
        /\ state' \in Seq(States) /\ Len(state') = Len(sessions')
        /\ \A other \in Ids : Alive(other)' <=> Alive(other) /\ other # m[1]
        /\ \A b \in Actors : Owned(b)' = Owned(b)
    BY <1>1, <1>3, <2>1, Closed
  <2>3. pc'[a] = where /\ \A b \in Actors \ {a} : pc'[b] = pc[b]
    BY <1>1, <2>1 DEF Typed, GoTo
  <2>4. Typed'
    BY <1>1, <1>3, <1>4, <2>1, <2>2 DEF Typed, GoTo, Places
  <2>5. \A other \in Ids' : Told(other)'
    BY <1>3, <2>1, ToldWhenClosed
  <2>6. ASSUME NEW b \in Actors \ {a} PROVE ActorInv(b)'
    <3>1. m[1] \in Owned(b) => b \in overlapped \/ pc[b] \notin Using
      BY <1>3, ListedIsShared DEF Working
    <3> QED BY <1>3, <1>4, <2>1, <2>3, <3>1, OthersWhenClosed DEF signals
  <2>7. Named(a)' /\ AtPlace(a)' /\ Listed(a)'
    <3>1. Named(a)'
      BY <1>1, <1>3, <2>2 DEF ActorInv, Named
    <3>2. AtPlace(a)'
      BY <1>1, <1>3, <2>3 DEF ActorInv, AtPlace, signals
    <3>3. Listed(a)'
      BY <1>1, <1>3, <1>4, <2>2 DEF ActorInv, Listed
    <3> QED BY <3>1, <3>2, <3>3
  <2>8. Awaited(a)' /\ Kept(a)'
    BY <2>3 DEF Awaited, Kept
  <2>9. Terminated(a)'
    <3>1. Kind(a) = "build" /\ Terminated(a)
      BY <1>1, <1>3 DEF ActorInv, AtPlace
    <3>2. Owned(a) \subseteq Ids
      BY DEF Owned
    <3>3. \A id \in Owned(a) : ~Alive(id)' \/ \E n \in listed'[a] : n[1] = id
      BY <1>3, <1>4, <2>2, <3>1, <3>2 DEF Terminated
    <3>4. where = "end" => \A id \in Owned(a) : ~Alive(id)'
      BY <1>4, <3>3
    <3> QED BY <1>3, <2>2, <2>3, <3>1, <3>3, <3>4 DEF Terminated, EndedWell
  <2>10. Carried(a)'
    <3>1. Carried(a)
      BY <1>1 DEF ActorInv
    <3> QED BY <1>3, <2>2, <2>3, <3>1 DEF Carried, EndedWell
  <2>11. ActorInv(a)'
    BY <2>7, <2>8, <2>9, <2>10 DEF ActorInv
  <2>12. Met'
    <3>1. \A b \in Actors : Working(b)' => Working(b)
      BY <1>3, <2>3 DEF Working
    <3> QED BY <1>3, <3>1, MetKeeps DEF Inv
  <2> QED BY <2>4, <2>5, <2>6, <2>11, <2>12 DEF Inv
<1> QED BY <1>5, <1>6

\* The last session of one who watches is the only one.
LEMMA OneSession ==
  ASSUME Typed, NEW a \in Actors, ActorInv(a), Kind(a) = "watch", Len(mine[a]) > 0,
         Len(mine[a]) <= Len(set[a].vols)
  PROVE  Owned(a) = {Last(mine[a])} /\ Last(mine[a]) \in Ids
<1>1. Len(mine[a]) = 1 /\ DOMAIN mine[a] = {1}
  BY SettingFacts, MineFacts
<1>2. Last(mine[a]) = mine[a][1]
  BY <1>1 DEF Last
<1>3. Owned(a) = {mine[a][1]}
  BY <1>1 DEF ActorInv, Named
<1> QED BY <1>2, <1>3 DEF Owned

LEMMA UnmonitorKeeps == ASSUME Inv, NEW a \in Actors, Unmonitor(a) PROVE Inv'
<1> DEFINE id == Last(mine[a])
<1>1. Typed /\ ActorInv(a)
  BY DEF Inv
<1>2. pc[a] = "unmonitor" /\ mine' = mine /\ waiting' = waiting /\ waitErr' = waitErr
      /\ listed' = listed /\ UNCHANGED <<set, result, signals, synced, dropped, overlapped>>
      /\ Fail(a) /\ IF Alive(id) THEN Close(id) ELSE UNCHANGED tool
  BY DEF Unmonitor, waits, history
<1>3. Kind(a) = "watch" /\ Owned(a) = {id} /\ id \in Ids
  <2>1. Kind(a) = "watch" /\ Len(mine[a]) > 0 /\ Len(mine[a]) <= Len(set[a].vols)
    BY <1>1, <1>2 DEF ActorInv, AtPlace
  <2> QED BY <1>1, <2>1, OneSession
<1> HIDE DEF id
<1>4. /\ sessions' = sessions /\ Ids' = Ids /\ pending' = pending
      /\ state' \in Seq(States) /\ Len(state') = Len(sessions')
      /\ \A other \in Ids : Alive(other)' <=> Alive(other) /\ other # id
      /\ \A b \in Actors : Owned(b)' = Owned(b)
      /\ \A other \in Ids' : Told(other)'
  <2>1. CASE Alive(id)
    BY <1>1, <1>2, <1>3, <2>1, Closed, ToldWhenClosed
  <2>2. CASE ~Alive(id)
    <3>1. UNCHANGED tool
      BY <1>2, <2>2
    <3>2. Ids' = Ids /\ sessions' = sessions /\ pending' = pending
          /\ state' = state /\ connected' = connected
      BY <3>1 DEF tool, Ids
    <3>3. \A other \in Ids : Told(other)'
      BY <1>2, <3>2 DEF Inv, Told, Alive
    <3> QED BY <1>1, <2>2, <3>2, <3>3 DEF Typed, Alive, Owned
  <2> QED BY <2>1, <2>2
<1>5. pc'[a] = "end" /\ outcome'[a] = "error"
      /\ \A b \in Actors \ {a} : pc'[b] = pc[b] /\ outcome'[b] = outcome[b]
  BY <1>1, <1>2 DEF Typed, Fail, GoTo
<1>6. Typed'
  BY <1>1, <1>2, <1>4 DEF Typed, Fail, GoTo, Places
<1>7. ASSUME NEW b \in Actors \ {a} PROVE ActorInv(b)'
  <2>1. id \notin Owned(b) /\ Owned(b) \subseteq Ids
    BY <1>3 DEF Owned
  <2>2. ActorInv(b)
    BY DEF Inv
  <2> QED BY <1>2, <1>4, <1>5, <2>1, <2>2, OthersKeep DEF signals
<1>8. Named(a)' /\ AtPlace(a)' /\ Listed(a)'
  <2>1. Named(a)'
    BY <1>1, <1>2, <1>4 DEF ActorInv, Named
  <2>2. AtPlace(a)'
    BY <1>1, <1>2, <1>5 DEF ActorInv, AtPlace, signals
  <2>3. Listed(a)'
    BY <1>1, <1>2, <1>4 DEF ActorInv, Listed
  <2> QED BY <2>1, <2>2, <2>3
<1>9. Awaited(a)' /\ Kept(a)' /\ Terminated(a)' /\ Carried(a)'
  BY <1>3, <1>4, <1>5 DEF Awaited, Kept, Terminated, Carried, EndedWell
<1>10. ActorInv(a)'
  BY <1>8, <1>9 DEF ActorInv
<1>11. Met'
  <2>1. \A b \in Actors : Working(b)' => Working(b)
    BY <1>5 DEF Working
  <2> QED BY <1>2, <2>1, MetKeeps DEF Inv
<1> QED BY <1>4, <1>6, <1>7, <1>10, <1>11 DEF Inv

LEMMA HandlerKeeps == ASSUME Inv, NEW a \in Actors, HandlerTerminates(a) PROVE Inv'
<1> DEFINE id == Last(mine[a])
<1>1. Typed /\ ActorInv(a)
  BY DEF Inv
<1>2. a \in handler /\ handler' \subseteq handler /\ mine' = mine /\ waiting' = waiting
      /\ waitErr' = waitErr /\ listed' = listed /\ outcome' = outcome /\ result' = result
      /\ UNCHANGED <<set, pc, cancelled, synced, dropped, overlapped>>
      /\ IF Alive(id) THEN Close(id) ELSE UNCHANGED tool
  BY DEF HandlerTerminates, waits, ends, history
<1>3. Kind(a) = "watch" /\ a \in cancelled /\ Owned(a) = {id} /\ id \in Ids
  <2>1. Kind(a) = "watch" /\ Len(mine[a]) > 0 /\ Len(mine[a]) <= Len(set[a].vols)
        /\ a \in cancelled
    BY <1>1, <1>2 DEF ActorInv, AtPlace
  <2> QED BY <1>1, <2>1, OneSession
<1> HIDE DEF id
<1>4. CASE Alive(id)
  <2>1. Close(id)
    BY <1>2, <1>4
  <2>2. /\ sessions' = sessions /\ state' \in Seq(States) /\ Len(state') = Len(sessions')
    BY <1>1, <1>2, <1>3, <2>1, Closed
  <2>3. Typed'
    BY <1>1, <1>2, <2>2 DEF Typed
  <2>4. \A other \in Ids' : Told(other)'
    BY <1>2, <1>3, <2>1, ToldWhenClosed
  <2>5. ASSUME NEW b \in Actors PROVE ActorInv(b)'
    <3>1. id \in Owned(b) => b = a
      BY <1>3 DEF Owned
    <3> QED BY <1>2, <1>3, <2>1, <3>1, OthersWhenClosed
  <2>6. Met'
    BY <1>2, MetKeeps DEF Inv, Working
  <2> QED BY <2>3, <2>4, <2>5, <2>6 DEF Inv
<1>5. CASE ~Alive(id)
  <2>1. Ids' = Ids /\ UNCHANGED <<sessions, pending, state, connected>>
    BY <1>2, <1>5 DEF tool, Ids
  <2>2. Typed'
    BY <1>1, <1>2, <2>1 DEF Typed
  <2>3. \A other \in Ids' : Told(other)'
    BY <1>2, <2>1 DEF Inv, Told, Alive
  <2>4. ASSUME NEW b \in Actors PROVE ActorInv(b)'
    <3>1. ActorInv(b) /\ Owned(b)' = Owned(b) /\ \A other : Alive(other)' = Alive(other)
      BY <2>1 DEF Inv, Owned, Alive
    <3> QED BY <1>2, <2>1, <3>1, OthersKeep
  <2>5. Met'
    BY <1>2, MetKeeps DEF Inv, Working
  <2> QED BY <2>2, <2>3, <2>4, <2>5 DEF Inv
<1> QED BY <1>4, <1>5

LEMMA SignalKeeps == ASSUME Inv, NEW a \in Actors, Signal(a) PROVE Inv'
<1>1. UNCHANGED <<set, tool, pc, waits, ends, synced, dropped, overlapped, pending>>
      /\ Ids' = Ids /\ UNCHANGED <<sessions, state, connected>>
      /\ UNCHANGED <<mine, waiting, waitErr, listed, outcome, result>>
      /\ cancelled' = cancelled \cup {a}
      /\ handler' = IF pc[a] \in {"monitor", "unmonitor"} THEN handler \cup {a} ELSE handler
  BY DEF Signal, tool, Ids, waits, ends
<1>2. Typed'
  BY <1>1 DEF Inv, Typed
<1>3. \A id \in Ids' : Told(id)'
  BY <1>1 DEF Inv, Told, Alive
<1>4. ASSUME NEW b \in Actors PROVE ActorInv(b)'
  <2>1. ActorInv(b) /\ Owned(b)' = Owned(b) /\ \A other : Alive(other)' = Alive(other)
    BY <1>1 DEF Inv, Owned, Alive
  <2> QED BY <1>1, <2>1, OthersKeep
<1>5. Met'
  BY <1>1, MetKeeps DEF Inv, Working
<1> QED BY <1>2, <1>3, <1>4, <1>5 DEF Inv

\* What the tool does by itself closes no session, and nobody moves.
LEMMA ToolStep ==
  ASSUME Inv, UNCHANGED <<set, sessions, pc, waits, ends, signals, overlapped>>,
         state' \in Seq(States), Len(state') = Len(state),
         \A id \in Ids : Told(id)' /\ Alive(id)' = Alive(id),
         synced \subseteq synced', dropped \subseteq dropped',
         \A b \in Actors : \A id \in Owned(b) :
           id \in pending' => id \in pending \/ pc[b] = "commands"
  PROVE  Inv'
<1>1. UNCHANGED <<mine, waiting, waitErr, listed, outcome, result, cancelled, handler>>
      /\ Ids' = Ids
  BY DEF waits, ends, signals, Ids
<1>2. Typed'
  BY <1>1 DEF Inv, Typed
<1>3. ASSUME NEW b \in Actors PROVE ActorInv(b)'
  <2>1. ActorInv(b) /\ Owned(b)' = Owned(b) /\ Owned(b) \subseteq Ids
    BY <1>1 DEF Inv, Owned
  <2>2. \A id \in Owned(b) : Alive(id)' = Alive(id)
    BY <2>1
  <2> QED BY <1>1, <2>1, <2>2, OthersKeep
<1>4. Met'
  BY MetKeeps DEF Inv, Working
<1> QED BY <1>1, <1>2, <1>3, <1>4 DEF Inv

LEMMA SyncKeeps == ASSUME Inv, NEW id \in Ids, Sync(id) PROVE Inv'
<1>1. Alive(id) /\ state' = [state EXCEPT ![id] = "watching"] /\ pending' = pending \ {id}
      /\ synced' = synced \cup {id} /\ dropped' = dropped /\ overlapped' = overlapped
      /\ UNCHANGED <<set, sessions, connected, pc, waits, ends, signals>>
  BY DEF Sync
<1>2. Typed
  BY DEF Inv
<1>3. state' \in Seq(States) /\ Len(state') = Len(state)
  <2>1. id \in 1..Len(state) /\ "watching" \in States
    BY <1>2 DEF Typed, Ids, States
  <2> QED BY <1>1, <1>2, <2>1, ExceptSeq DEF Typed
<1>4. \A other \in Ids : Told(other)' /\ Alive(other)' = Alive(other)
  <2> SUFFICES ASSUME NEW other \in Ids PROVE Told(other)' /\ Alive(other)' = Alive(other)
    OBVIOUS
  <2>1. Told(other) /\ state'[other] = IF other = id THEN "watching" ELSE state[other]
    BY <1>1, <1>2, IdFacts DEF Inv
  <2> QED BY <1>1, <2>1 DEF Told, Alive
<1> QED BY <1>1, <1>3, <1>4, ToolStep

LEMMA DisconnectKeeps == ASSUME Inv, NEW id \in Ids, Disconnect(id) PROVE Inv'
<1>1. connected' = connected \ {id} /\ dropped' = dropped \cup {id} /\ synced' = synced
      /\ UNCHANGED <<set, sessions, state, pending, pc, waits, ends, signals, overlapped>>
  BY DEF Disconnect
<1>2. \A other \in Ids : Told(other)' /\ Alive(other)' = Alive(other)
  BY <1>1 DEF Inv, Told, Alive
<1>3. state' \in Seq(States) /\ Len(state') = Len(state)
  BY <1>1 DEF Inv, Typed
<1> QED BY <1>1, <1>2, <1>3, ToolStep

LEMMA WriteKeeps == ASSUME Inv, NEW a \in Actors, Write(a) PROVE Inv'
<1> DEFINE ids == {id \in Owned(a) : Alive(id) /\ id \in connected}
<1>1. pc[a] = "commands" /\ pending' = pending \cup ids
      /\ state' = [id \in Ids |-> IF id \in ids THEN "scanning" ELSE state[id]]
      /\ UNCHANGED <<set, sessions, connected, pc, waits, ends, signals, synced, dropped,
                     overlapped>>
  BY DEF Write
<1>2. Typed
  BY DEF Inv
<1>3. state' \in Seq(States) /\ Len(state') = Len(state)
  <2>1. state' \in [1..Len(sessions) -> States]
    BY <1>1, <1>2, IdFacts DEF States
  <2>2. state' \in Seq(States)
    BY <1>2, <2>1, IdFacts, SeqDef
  <2>3. DOMAIN state' = 1..Len(state') /\ Len(state') \in Nat
    BY <2>2, LenProperties
  <2>4. DOMAIN state' = 1..Len(sessions)
    BY <2>1
  <2>5. Len(state') = Len(sessions)
    BY <1>2, <2>3, <2>4, IdFacts
  <2> QED BY <1>2, <2>2, <2>5 DEF Typed
<1>4. \A other \in Ids : Told(other)' /\ Alive(other)' = Alive(other)
  <2> SUFFICES ASSUME NEW other \in Ids PROVE Told(other)' /\ Alive(other)' = Alive(other)
    OBVIOUS
  <2>1. Told(other) /\ state'[other] = IF other \in ids THEN "scanning" ELSE state[other]
    BY <1>1 DEF Inv
  <2>2. other \in ids => Alive(other)
    OBVIOUS
  <2> HIDE DEF ids
  <2> QED BY <1>1, <2>1, <2>2 DEF Told, Alive
<1>5. ASSUME NEW b \in Actors, NEW id \in Owned(b), id \in pending', id \notin pending
      PROVE  pc[b] = "commands"
  BY <1>1, <1>5 DEF Owned
<1> QED BY <1>1, <1>3, <1>4, <1>5, ToolStep

LEMMA EndKeeps == ASSUME Inv, NEW a \in Actors, End(a) PROVE Inv'
<1>1. Typed /\ ActorInv(a)
  BY DEF Inv
<1>2. pc[a] = "end" /\ pc'[a] = "ended" /\ result'[a] = outcome[a] /\ outcome' = outcome
      /\ connected' = connected \ Owned(a) /\ synced' = synced /\ overlapped' = overlapped
      /\ dropped' = dropped \cup {id \in Owned(a) : id \in connected}
      /\ UNCHANGED <<set, sessions, state, pending, signals>>
      /\ mine' = mine /\ waiting' = waiting /\ waitErr' = waitErr /\ listed' = listed
      /\ \A b \in Actors \ {a} : pc'[b] = pc[b] /\ result'[b] = result[b]
  BY <1>1 DEF End, GoTo, Typed, waits
<1>3. Ids' = Ids /\ (\A id : Alive(id)' = Alive(id)) /\ \A b \in Actors : Owned(b)' = Owned(b)
  BY <1>2 DEF Ids, Alive, Owned
<1>4. Typed'
  BY <1>1, <1>2 DEF Typed, End, GoTo, Places
<1>5. \A id \in Ids' : Told(id)'
  BY <1>2, <1>3 DEF Inv, Told
<1>6. ASSUME NEW b \in Actors \ {a} PROVE ActorInv(b)'
  <2>1. ActorInv(b)
    BY DEF Inv
  <2> QED BY <1>2, <1>3, <2>1, OthersKeep DEF signals
<1>7. Named(a)' /\ AtPlace(a)' /\ Listed(a)'
  <2>1. Named(a)'
    BY <1>1, <1>2, <1>3 DEF ActorInv, Named
  <2>2. AtPlace(a)'
    BY <1>1, <1>2 DEF ActorInv, AtPlace, signals
  <2>3. Listed(a)'
    BY <1>1, <1>2, <1>3 DEF ActorInv, Listed
  <2> QED BY <2>1, <2>2, <2>3
<1>8. Awaited(a)' /\ Kept(a)' /\ Terminated(a)' /\ Carried(a)'
  BY <1>1, <1>2, <1>3 DEF ActorInv, Awaited, Kept, Terminated, Carried, EndedWell
<1>9. ActorInv(a)'
  BY <1>7, <1>8 DEF ActorInv
<1>10. Met'
  <2>1. \A b \in Actors : Working(b)' => Working(b)
    BY <1>2 DEF Working
  <2> QED BY <1>2, <2>1, MetKeeps DEF Inv
<1> QED BY <1>4, <1>5, <1>6, <1>9, <1>10 DEF Inv

LEMMA CreateKeeps == ASSUME Inv, NEW a \in Actors, Create(a) PROVE Inv'
<1>0. PICK id, next : id = Len(sessions) + 1 /\ next = Len(mine[a]) + 1
  OBVIOUS
<1> DEFINE name == <<set[a].prefix, set[a].vols[next]>>
<1>1. Typed /\ ActorInv(a)
  BY DEF Inv
<1>2. pc[a] = "create"
      /\ sessions' = Append(sessions, [owner |-> a, name |-> name])
      /\ state' = Append(state, "scanning")
      /\ connected' = connected \cup {id} /\ pending' = pending \cup {id}
      /\ mine' = [mine EXCEPT ![a] = Append(@, id)]
      /\ GoTo(a, IF Kind(a) = "watch" THEN "monitor" ELSE "poll")
      /\ waiting' = waiting /\ listed' = listed /\ waitErr' = waitErr
      /\ outcome' = outcome /\ result' = result
      /\ UNCHANGED <<set, signals, synced, dropped, overlapped>>
  BY <1>0 DEF Create, ends, history
<1>3. Len(mine[a]) \in Nat /\ Len(sessions) \in Nat /\ Len(mine[a]) < Len(set[a].vols)
      /\ next \in DOMAIN set[a].vols /\ name \in ProjectIDs \X Paths
  <2>1. Len(mine[a]) < Len(set[a].vols)
    BY <1>1, <1>2 DEF ActorInv, AtPlace
  <2>2. Len(mine[a]) \in Nat /\ Len(sessions) \in Nat /\ Len(set[a].vols) \in Nat
        /\ DOMAIN set[a].vols = 1..Len(set[a].vols) /\ set[a].vols \in Seq(Paths)
        /\ set[a].prefix \in ProjectIDs
    BY <1>1, MineFacts, IdFacts, SettingFacts DEF Setting
  <2>3. next \in 1..Len(set[a].vols)
    BY <1>0, <2>1, <2>2
  <2>4. set[a].vols[next] \in Paths
    BY <2>2, <2>3, ElementOfSeq
  <2> QED BY <2>1, <2>2, <2>3, <2>4
<1>4. \* the session that is new
      /\ Ids' = Ids \cup {id} /\ id \notin Ids /\ Len(state') = Len(sessions')
      /\ sessions' \in Seq(Session) /\ state' \in Seq(States)
      /\ \A other \in Ids : sessions'[other] = sessions[other] /\ state'[other] = state[other]
      /\ sessions'[id] = [owner |-> a, name |-> name] /\ state'[id] = "scanning"
  <2>1. [owner |-> a, name |-> name] \in Session /\ "scanning" \in States
    BY <1>3 DEF Session, States
  <2>2. sessions \in Seq(Session) /\ state \in Seq(States) /\ Len(state) = Len(sessions)
    BY <1>1 DEF Typed
  <2>3. sessions' \in Seq(Session) /\ Len(sessions') = Len(sessions) + 1
        /\ (\A i \in 1..Len(sessions) : sessions'[i] = sessions[i])
        /\ sessions'[Len(sessions) + 1] = [owner |-> a, name |-> name]
    BY <1>2, <2>1, <2>2, AppendProperties
  <2>4. state' \in Seq(States) /\ Len(state') = Len(state) + 1
        /\ (\A i \in 1..Len(state) : state'[i] = state[i])
        /\ state'[Len(state) + 1] = "scanning"
    BY <1>2, <2>1, <2>2, AppendProperties
  <2>5. Ids' = 1..(Len(sessions) + 1) /\ Ids = 1..Len(sessions)
    BY <2>3 DEF Ids
  <2>6. Ids' = Ids \cup {id} /\ id \notin Ids
    BY <1>0, <1>3, <2>5
  <2> QED BY <1>0, <2>2, <2>3, <2>4, <2>5, <2>6
<1>5. \A b \in Actors \ {a} : Owned(b)' = Owned(b) /\ mine'[b] = mine[b] /\ pc'[b] = pc[b]
  <2> SUFFICES ASSUME NEW b \in Actors \ {a}
               PROVE  Owned(b)' = Owned(b) /\ mine'[b] = mine[b] /\ pc'[b] = pc[b]
    OBVIOUS
  <2>1. sessions'[id].owner # b
    BY <1>4
  <2>2. Owned(b)' = Owned(b)
    BY <1>4, <2>1 DEF Owned
  <2> QED BY <1>1, <1>2, <2>2 DEF Typed, GoTo
<1>6. Owned(a)' = Owned(a) \cup {id} /\ mine'[a] = Append(mine[a], id)
      /\ pc'[a] = IF Kind(a) = "watch" THEN "monitor" ELSE "poll"
  <2>1. Owned(a)' = Owned(a) \cup {id}
    BY <1>4 DEF Owned
  <2> QED BY <1>1, <1>2, <2>1 DEF Typed, GoTo
<1>7. \A other \in Ids : Alive(other)' = Alive(other)
  BY <1>4 DEF Alive
<1>8. mine'[a] \in Seq(Nat) /\ Len(mine'[a]) = Len(mine[a]) + 1
      /\ Owned(a)' = {mine'[a][k] : k \in DOMAIN mine'[a]}
  <2>1. mine[a] \in Seq(Nat) /\ id \in Nat
    BY <1>0, <1>1, <1>3, MineFacts
  <2>2. mine'[a] \in Seq(Nat) /\ Len(mine'[a]) = Len(mine[a]) + 1
        /\ (\A i \in 1..Len(mine[a]) : mine'[a][i] = mine[a][i])
        /\ mine'[a][Len(mine[a]) + 1] = id
    BY <1>6, <2>1, AppendProperties
  <2>3. DOMAIN mine'[a] = DOMAIN mine[a] \cup {next} /\ DOMAIN mine[a] = 1..Len(mine[a])
    <3>1. DOMAIN mine[a] = 1..Len(mine[a]) /\ DOMAIN mine'[a] = 1..Len(mine'[a])
      BY <2>1, <2>2, LenProperties
    <3>2. 1..(Len(mine[a]) + 1) = 1..Len(mine[a]) \cup {Len(mine[a]) + 1}
      BY <1>3
    <3> QED BY <1>0, <2>2, <3>1, <3>2
  <2>4. Owned(a) = {mine[a][k] : k \in DOMAIN mine[a]}
    BY <1>1 DEF ActorInv, Named
  <2>5. {mine'[a][k] : k \in DOMAIN mine'[a]} = {mine[a][k] : k \in DOMAIN mine[a]} \cup {id}
    <3>1. \A k \in DOMAIN mine[a] : mine'[a][k] = mine[a][k]
      BY <2>2, <2>3
    <3>2. mine'[a][next] = id
      BY <1>0, <2>2
    <3> QED BY <2>3, <3>1, <3>2
  <2> QED BY <1>6, <2>2, <2>4, <2>5
<1> HIDE DEF name
<1>9. Typed'
  BY <1>1, <1>2, <1>4, <1>8 DEF Typed, GoTo, Places
<1>10. \A other \in Ids' : Told(other)'
  <2>1. ASSUME NEW other \in Ids PROVE Told(other)'
    BY <1>2, <1>4, <1>7 DEF Inv, Told
  <2>2. Told(id)'
    BY <1>2, <1>4 DEF Told
  <2> QED BY <1>4, <2>1, <2>2
<1>11. ASSUME NEW b \in Actors \ {a} PROVE ActorInv(b)'
  <2>1. ActorInv(b) /\ Owned(b) \subseteq Ids
    BY DEF Inv, Owned
  <2>2. \A other \in Ids : other \in Ids' /\ sessions'[other] = sessions[other]
    BY <1>4
  <2>3. \A other \in Owned(b) :
          Alive(other)' = Alive(other) /\ (other \in pending' => other \in pending)
    BY <1>2, <1>4, <1>7, <2>1
  <2> QED BY <1>2, <1>5, <2>1, <2>2, <2>3, OthersKeep DEF signals
<1>12. Named(a)'
  <2>1. Named(a) /\ Owned(a) \subseteq Ids
    BY <1>1 DEF ActorInv, Owned
  <2>2. sessions'[id].name = <<set[a].prefix, set[a].vols[next]>>
    BY <1>4 DEF name
  <2>3. ASSUME NEW other \in Owned(a)'
        PROVE \E i \in DOMAIN set[a].vols :
                sessions'[other].name = <<set[a].prefix, set[a].vols[i]>>
    BY <1>3, <1>4, <1>6, <2>1, <2>2 DEF Named
  <2> QED BY <1>2, <1>8, <2>3 DEF Named
<1>13. AtPlace(a)'
  <2>1. AtPlace(a)
    BY <1>1 DEF ActorInv
  <2>2. Len(set[a].vols) \in Nat
    BY <1>1, SettingFacts
  <2>3. Len(mine'[a]) > 0 /\ Len(mine'[a]) <= Len(set[a].vols)
    BY <1>3, <1>8, <2>2
  <2> QED BY <1>2, <1>6, <2>1, <2>3 DEF AtPlace, signals
<1>14. Awaited(a)' /\ Terminated(a)' /\ Carried(a)'
  BY <1>6 DEF Awaited, Terminated, Carried, EndedWell
<1>15. Kept(a)'
  <2>1. Kept(a) /\ Owned(a) \subseteq Ids
    BY <1>1 DEF ActorInv, Owned
  <2>2. Alive(id)'
    BY <1>4 DEF Alive
  <2> QED BY <1>2, <1>6, <1>7, <2>1, <2>2 DEF Kept, signals
<1>16. Listed(a)'
  BY <1>1, <1>2, <1>4 DEF ActorInv, Listed
<1>17. ActorInv(a)'
  BY <1>12, <1>13, <1>14, <1>15, <1>16 DEF ActorInv
<1>18. Met'
  <2>1. \A b \in Actors : Working(b)' => Working(b)
    BY <1>2, <1>5 DEF Working
  <2> QED BY <1>2, <2>1, MetKeeps DEF Inv
<1> QED BY <1>9, <1>10, <1>11, <1>17, <1>18 DEF Inv

-----------------------------------------------------------------------------
LEMMA InitInv == ASSUME Init PROVE Inv
<1>1. set \in [Actors -> Setting]
  BY DEF Init
<1>2. Typed
  BY DEF Init, Typed, States, Places
<1>3. Len(sessions) = 0 /\ Ids = {}
  BY DEF Init, Ids
<1>4. \A a \in Actors : Owned(a) = {} /\ Len(mine[a]) = 0 /\ DOMAIN mine[a] = {}
  BY <1>3 DEF Init, Owned
<1>5. ASSUME NEW a \in Actors PROVE ActorInv(a)
  <2>1. Named(a)
    BY <1>4 DEF Named
  <2>2. AtPlace(a) /\ Awaited(a) /\ Kept(a) /\ Listed(a) /\ Terminated(a) /\ Carried(a)
    BY <1>4 DEF Init, AtPlace, Awaited, Kept, Listed, Terminated, Carried, EndedWell
  <2> QED BY <2>1, <2>2 DEF ActorInv
<1>6. Met
  BY DEF Init, Met, Working
<1> QED BY <1>2, <1>3, <1>5, <1>6 DEF Inv

LEMMA StutterInv == ASSUME Inv, UNCHANGED vars PROVE Inv'
<1>1. UNCHANGED <<set, sessions, pc, waits, ends, signals, overlapped, state, synced, dropped,
                  pending, connected>>
  BY DEF vars, tool, history
<1>2. \A id \in Ids : Told(id)' /\ Alive(id)' = Alive(id)
  BY <1>1 DEF Inv, Told, Alive
<1>3. state' \in Seq(States) /\ Len(state') = Len(state)
  BY <1>1 DEF Inv, Typed
<1> QED BY <1>1, <1>2, <1>3, ToolStep

LEMMA NextInv == ASSUME Inv, Next PROVE Inv'
<1>1. ASSUME NEW a \in Actors, Step(a) PROVE Inv'
  BY <1>1, StartKeeps, CreateKeeps, PollKeeps, LookKeeps, WaitKeeps, WaitReturnsKeeps,
     CommandsEndKeeps, ListKeeps, TerminateKeeps, MonitorKeeps, UnmonitorKeeps, EndKeeps
     DEF Step
<1>2. ASSUME NEW a \in Actors, Trouble(a) PROVE Inv'
  BY <1>2, FailingSteps, WaitKeeps, MonitorKeeps, SignalKeeps DEF Trouble
<1>3. ASSUME NEW a \in Actors, Write(a) \/ HandlerTerminates(a) PROVE Inv'
  BY <1>3, WriteKeeps, HandlerKeeps
<1>4. ASSUME NEW id \in Ids, Sync(id) \/ Disconnect(id) PROVE Inv'
  BY <1>4, SyncKeeps, DisconnectKeeps
<1>5. CASE Finished
  BY <1>5, StutterInv DEF Finished
<1> QED BY <1>1, <1>2, <1>3, <1>4, <1>5 DEF Next

\* The inductive invariant, from which the theorems below follow.
THEOREM Invariance == Spec => []Inv
<1>1. Init => Inv
  BY InitInv
<1>2. Inv /\ [Next]_vars => Inv'
  BY NextInv, StutterInv
<1> QED BY <1>1, <1>2, PTL DEF Spec

\* Commands find every volume in sync at least once, or its far side lost.
THEOREM VolumesAreSeen == Spec => []CommandsSeeVolumes
<1>1. Inv => CommandsSeeVolumes
  BY DEF Inv, ActorInv, AtPlace, Awaited, CommandsSeeVolumes
<1> QED BY <1>1, Invariance, PTL

\* While commands run or files are watched, only a namesake or the signal that ends it all
\* takes a session away.
THEOREM SessionsLast == Spec => []SessionsOutliveUse
<1>1. Inv => SessionsOutliveUse
  <2> SUFFICES ASSUME Inv, NEW a \in Actors, pc[a] \in {"commands", "monitor"}, Undisturbed(a),
                      a \notin cancelled
               PROVE  \A id \in Owned(a) : Alive(id)
    BY DEF SessionsOutliveUse
  <2> QED BY DEF Inv, ActorInv, Kept
<1> QED BY <1>1, Invariance, PTL

\* What a successful build wrote is on the host, unless the session lost its far side.
THEOREM ChangesArrive == Spec => []ChangesReachHost
<1>1. Inv => ChangesReachHost
  <2> SUFFICES ASSUME Inv, NEW a \in Actors, result[a] = "ok", Undisturbed(a),
                      NEW id \in Owned(a) \cap pending
               PROVE  id \in dropped
    BY DEF ChangesReachHost
  <2>1. EndedWell(a)
    BY DEF Inv, ActorInv, AtPlace, EndedWell
  <2> QED BY <2>1 DEF Inv, ActorInv, Carried
<1> QED BY <1>1, Invariance, PTL

\* A success leaves no session, and neither does watching, however it ends.
THEOREM NothingStays == Spec => []NoSessionLeft
<1>1. Inv => NoSessionLeft
  <2> SUFFICES ASSUME Inv, NEW a \in Actors,
                      result[a] = "ok" \/ (Kind(a) = "watch" /\ result[a] # "none")
               PROVE  \A id \in Owned(a) : ~Alive(id)
    BY DEF NoSessionLeft
  <2>1. pc[a] = "ended" /\ result[a] = outcome[a]
    BY DEF Inv, ActorInv, AtPlace
  <2> QED BY <2>1 DEF Inv, ActorInv, Terminated, EndedWell
<1> QED BY <1>1, Invariance, PTL
===============================================================================
