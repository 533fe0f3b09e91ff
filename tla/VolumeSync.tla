----------------------------- MODULE VolumeSync -----------------------------
(***************************************************************************)
(* Sessions of the external tool that synchronises volumes (mutagen).      *)
(*                                                                         *)
(* A "build" runs commands in a container in sync mode "external": one     *)
(* session per volume before them, terminated after them.  "watch" and     *)
(* "sync" are `welder volumes` for one volume, with and without --watch:   *)
(* a helper container, a session, and a wait.  Sessions are known to all   *)
(* processes of the machine; a session is named after a prefix - RunID or  *)
(* project name - and the path on the host, and it is by name that a build *)
(* finds the sessions to terminate.                                        *)
(*                                                                         *)
(* Of mutagen the model assumes that a session scans, then watches, scans  *)
(* again as soon as something changes, and loses its far side with the     *)
(* container.                                                              *)
(***************************************************************************)
EXTENDS Naturals, Sequences, FiniteSets, SequencesExt

CONSTANTS
  Actors,     \* calls of RunInContainer and SyncVolume, each in its own process
  ProjectIDs, \* RunIDs and project names
  Paths,
  Settings,   \* what the actors may be: functions from Actors to Setting
  MaxFaults,  \* bound: calls that fail, and connections lost, for no known reason
  MaxSignals  \* bound: actors interrupted

Setting == [kind : {"build", "watch", "sync"}, prefix : ProjectIDs, vols : Seq(Paths)]

ASSUME ConstantsAssumption ==
  /\ IsFiniteSet(Actors) /\ MaxFaults \in Nat /\ MaxSignals \in Nat
  /\ \A s \in Settings :
       /\ s \in [Actors -> Setting]
       /\ \A a \in Actors : s[a].vols # <<>> /\ (s[a].kind # "build" => Len(s[a].vols) = 1)

VARIABLES
  set,        \* the setting
  sessions,   \* all sessions ever created: name and who created it
  state,      \* per session: "scanning", "watching", "gone"
  connected,  \* sessions that reach their container
  pending,    \* sessions whose sides differ
  pc,         \* where each actor is
  mine,       \* sessions it has created, in order
  waiting,    \* sessions its goroutines still wait for
  listed,     \* sessions it has yet to terminate, each with the volume it was found for
  waitErr,    \* one of the goroutines returned an error
  outcome,    \* what it is about to return: "ok" or "error"
  result,     \* what it returned
  cancelled,  \* actors whose Go context is done
  handler,    \* actors whose signal goroutine has yet to terminate the session
  wrote,      \* builds whose commands have written
  synced,     \* sessions that were in sync at least once
  dropped,    \* sessions that lost their far side before they were terminated
  overlapped, \* actors that ran next to one with a session name of theirs
  faults

tool == <<sessions, state, connected, pending>>
waits == <<mine, waiting, listed, waitErr>>
ends == <<outcome, result>>
signals == <<cancelled, handler>>
history == <<wrote, synced, dropped, overlapped, faults>>
vars == <<set, tool, pc, waits, ends, signals, history>>

Kind(a) == set[a].kind
Names(a) == {<<set[a].prefix, path>> : path \in Range(set[a].vols)}
Ids == 1..Len(sessions)
Alive(id) == state[id] # "gone"
Owned(a) == {id \in Ids : sessions[id].owner = a}

\* Mutant: does not look at the status.
SettledAtOnce(id) == Alive(id)

\* Mutant: does not look at the connection.
SettledWatching(id) == Alive(id) /\ state[id] = "watching"

\* WaitForSyncToComplete stops here: a session that lost its far side counts too.
Settled(id) == Alive(id) /\ (state[id] = "watching" \/ id \notin connected)

\* Calls of the tool use the Go context; they fail when it is done, and now and then.
Broken(a) == \/ a \in cancelled /\ UNCHANGED faults
             \/ faults < MaxFaults /\ faults' = faults + 1

GoTo(a, where) == pc' = [pc EXCEPT ![a] = where]
Fail(a) == GoTo(a, "end") /\ outcome' = [outcome EXCEPT ![a] = "error"]

Close(id) == /\ state' = [state EXCEPT ![id] = "gone"]
             /\ connected' = connected \ {id}
             /\ UNCHANGED <<sessions, pending>>

Init ==
  /\ set \in Settings
  /\ sessions = <<>> /\ state = <<>> /\ connected = {} /\ pending = {}
  /\ pc = [a \in Actors |-> "start"]
  /\ mine = [a \in Actors |-> <<>>] /\ waiting = [a \in Actors |-> {}]
  /\ listed = [a \in Actors |-> {}] /\ waitErr = [a \in Actors |-> FALSE]
  /\ outcome = [a \in Actors |-> "ok"] /\ result = [a \in Actors |-> "none"]
  /\ cancelled = {} /\ handler = {}
  /\ wrote = {} /\ synced = {} /\ dropped = {} /\ overlapped = {}
  /\ faults = 0
-----------------------------------------------------------------------------
(* The container, and the sessions for it. *)

Active(a) == pc[a] # "start" /\ result[a] = "none"

Start(a) ==
  /\ pc[a] = "start"
  /\ GoTo(a, "create")
  /\ LET namesakes == {b \in Actors : b # a /\ Active(b) /\ Names(a) \cap Names(b) # {}} IN
     overlapped' = overlapped \cup namesakes
                              \cup (IF namesakes # {} THEN {a} ELSE {})
  /\ UNCHANGED <<set, tool, waits, ends, signals, wrote, synced, dropped, faults>>

StartFails(a) ==
  /\ pc[a] = "start" /\ Broken(a) /\ Fail(a)
  /\ UNCHANGED <<set, tool, waits, result, signals, wrote, synced, dropped, overlapped>>

\* "sync create" for the next volume.  With --watch a goroutine now waits for signals.
Create(a) ==
  LET next == Len(mine[a]) + 1
      id == Len(sessions) + 1 IN
  /\ pc[a] = "create"
  /\ sessions' = Append(sessions, [owner |-> a,
                                   name |-> <<set[a].prefix, set[a].vols[next]>>])
  /\ state' = Append(state, "scanning")
  /\ connected' = connected \cup {id} /\ pending' = pending \cup {id}
  /\ mine' = [mine EXCEPT ![a] = Append(@, id)]
  /\ GoTo(a, IF Kind(a) = "watch" THEN "monitor" ELSE "poll")
  /\ UNCHANGED <<set, waiting, listed, waitErr, ends, signals, history>>

CreateFails(a) ==
  /\ pc[a] = "create" /\ Broken(a) /\ Fail(a)
  /\ UNCHANGED <<set, tool, waits, result, signals, wrote, synced, dropped, overlapped>>

\* WaitForSyncToComplete lists the sessions every second.
Poll(a) ==
  LET id == Last(mine[a]) IN
  /\ pc[a] = "poll" /\ (Settled(id) \/ ~Alive(id))
  /\ IF Alive(id) THEN GoTo(a, "look") /\ UNCHANGED outcome ELSE Fail(a)
  /\ UNCHANGED <<set, tool, waits, result, signals, history>>

\* StartSync returns the session as it is listed now.
Look(a) ==
  LET id == Last(mine[a]) IN
  /\ pc[a] = "look"
  /\ IF ~Alive(id) THEN Fail(a) /\ UNCHANGED waiting
     ELSE /\ UNCHANGED outcome
          /\ IF Len(mine[a]) < Len(set[a].vols)
               THEN GoTo(a, "create") /\ UNCHANGED waiting
               ELSE IF Kind(a) = "sync"
               THEN GoTo(a, "readers") /\ UNCHANGED waiting
               ELSE /\ GoTo(a, "wait")
                    /\ waiting' = [waiting EXCEPT ![a] = Range(mine[a])]
  /\ UNCHANGED <<set, tool, mine, listed, waitErr, result, signals, history>>

ListFails(a) ==
  /\ pc[a] \in {"poll", "look", "list"} /\ Broken(a) /\ Fail(a)
  /\ UNCHANGED <<set, tool, waits, result, signals, wrote, synced, dropped, overlapped>>
-----------------------------------------------------------------------------
(* waitForSessions: a goroutine per session. *)

Waits(a) == pc[a] \in {"wait", "waitListed"}

WaitOne(a) ==
  /\ Waits(a)
  /\ \E id \in waiting[a] :
       /\ Settled(id) \/ ~Alive(id)
       /\ waiting' = [waiting EXCEPT ![a] = @ \ {id}]
       /\ waitErr' = [waitErr EXCEPT ![a] = @ \/ ~Alive(id)]
  /\ UNCHANGED <<set, tool, pc, mine, listed, ends, signals, history>>

WaitOneFails(a) ==
  /\ Waits(a) /\ Broken(a)
  /\ \E id \in waiting[a] : waiting' = [waiting EXCEPT ![a] = @ \ {id}]
  /\ waitErr' = [waitErr EXCEPT ![a] = TRUE]
  /\ UNCHANGED <<set, tool, pc, mine, listed, ends, signals, wrote, synced, dropped,
                 overlapped>>

WaitReturns(a) ==
  /\ Waits(a) /\ waiting[a] = {}
  /\ IF waitErr[a] THEN Fail(a)
     ELSE /\ UNCHANGED outcome
          /\ GoTo(a, IF pc[a] = "wait" THEN "commands"
                     ELSE IF listed[a] = {} THEN "end" ELSE "terminate")
  /\ UNCHANGED <<set, tool, waits, result, signals, history>>
-----------------------------------------------------------------------------
(* The commands of a build, and the hook after them. *)

Write(a) ==
  /\ pc[a] = "commands" /\ a \notin wrote
  /\ LET ids == {id \in Owned(a) : Alive(id) /\ id \in connected} IN
     /\ pending' = pending \cup ids
     /\ state' = [id \in Ids |-> IF id \in ids THEN "scanning" ELSE state[id]]
  /\ wrote' = wrote \cup {a}
  /\ UNCHANGED <<set, sessions, connected, pc, waits, ends, signals, synced, dropped,
                 overlapped, faults>>

CommandsEnd(a) ==
  /\ pc[a] = "commands"
  /\ GoTo(a, "list")
  /\ UNCHANGED <<set, tool, waits, ends, signals, history>>

\* The hook after the commands is not called.
CommandsFail(a) ==
  /\ pc[a] = "commands"
  /\ Fail(a)
  /\ UNCHANGED <<set, tool, waits, result, signals, wrote, synced, dropped, overlapped,
                 faults>>

\* Mutant: the prefix is not compared.
MatchesPath(a) ==
  {m \in Ids \X DOMAIN set[a].vols :
     Alive(m[1]) /\ sessions[m[1]].name[2] = set[a].vols[m[2]]}

\* Every session is taken once for each volume of its name, session by session.
Matches(a) ==
  {m \in Ids \X DOMAIN set[a].vols :
     Alive(m[1]) /\ sessions[m[1]].name = <<set[a].prefix, set[a].vols[m[2]]>>}

IsFirst(m, S) ==
  m \in S /\ \A n \in S : m[1] < n[1] \/ (m[1] = n[1] /\ m[2] <= n[2])

\* Mutant: the sessions are not waited for.
ListOnly(a) ==
  /\ pc[a] = "list"
  /\ listed' = [listed EXCEPT ![a] = Matches(a)]
  /\ GoTo(a, "waitListed")
  /\ UNCHANGED <<set, tool, mine, waiting, waitErr, ends, signals, history>>

List(a) ==
  /\ pc[a] = "list"
  /\ listed' = [listed EXCEPT ![a] = Matches(a)]
  /\ waiting' = [waiting EXCEPT ![a] = {m[1] : m \in Matches(a)}]
  /\ GoTo(a, "waitListed")
  /\ UNCHANGED <<set, tool, mine, waitErr, ends, signals, history>>

\* Mutant: only the first one is terminated.
TerminateFirst(a) ==
  /\ pc[a] = "terminate"
  /\ listed' = [listed EXCEPT ![a] = {}]
  /\ \E m \in listed[a] : IsFirst(m, listed[a]) /\
       IF Alive(m[1]) THEN Close(m[1]) /\ UNCHANGED outcome /\ GoTo(a, "end")
                      ELSE Fail(a) /\ UNCHANGED tool
  /\ UNCHANGED <<set, mine, waiting, waitErr, result, signals, history>>

Terminate(a) ==
  /\ pc[a] = "terminate"
  /\ \E m \in listed[a] :
       /\ IsFirst(m, listed[a])
       /\ listed' = [listed EXCEPT ![a] = @ \ {m}]
       /\ IF Alive(m[1])
          THEN Close(m[1]) /\ UNCHANGED outcome
               /\ GoTo(a, IF listed[a] = {m} THEN "end" ELSE "terminate")
          ELSE Fail(a) /\ UNCHANGED tool
  /\ UNCHANGED <<set, mine, waiting, waitErr, result, signals, history>>

TerminateFails(a) ==
  /\ pc[a] = "terminate" /\ Broken(a) /\ Fail(a)
  /\ UNCHANGED <<set, tool, waits, result, signals, wrote, synced, dropped, overlapped>>
-----------------------------------------------------------------------------
(* `welder volumes --watch`. *)

\* "sync monitor" ends with the session or the Go context, or fails.
MonitorEnds(a) ==
  /\ pc[a] = "monitor" /\ (a \in cancelled \/ ~Alive(Last(mine[a])))
  /\ GoTo(a, "unmonitor")
  /\ UNCHANGED <<set, tool, waits, ends, signals, history>>

MonitorFails(a) ==
  /\ pc[a] = "monitor" /\ Broken(a)
  /\ GoTo(a, "unmonitor")
  /\ UNCHANGED <<set, tool, waits, ends, signals, wrote, synced, dropped, overlapped>>

\* The deferred terminateFunc, with a context of its own.  Its error is dropped.
Unmonitor(a) ==
  LET id == Last(mine[a]) IN
  /\ pc[a] = "unmonitor"
  /\ IF Alive(id) THEN Close(id) ELSE UNCHANGED tool
  /\ Fail(a)
  /\ UNCHANGED <<set, waits, result, signals, history>>

\* The same by the goroutine that waits for a signal.
HandlerTerminates(a) ==
  LET id == Last(mine[a]) IN
  /\ a \in handler
  /\ handler' = handler \ {a}
  /\ IF Alive(id) THEN Close(id) ELSE UNCHANGED tool
  /\ UNCHANGED <<set, pc, waits, ends, cancelled, history>>
-----------------------------------------------------------------------------
\* The deferred Destroy takes the container away, and with it the far side of its
\* sessions.
End(a) ==
  /\ pc[a] = "end"
  /\ GoTo(a, "ended")
  /\ result' = [result EXCEPT ![a] = outcome[a]]
  /\ connected' = connected \ Owned(a)
  /\ dropped' = dropped \cup {id \in Owned(a) : id \in connected}
  /\ UNCHANGED <<set, sessions, state, pending, waits, outcome, signals, wrote, synced,
                 overlapped, faults>>

Signal(a) ==
  /\ Active(a) /\ a \notin cancelled /\ Cardinality(cancelled) < MaxSignals
  /\ cancelled' = cancelled \cup {a}
  /\ handler' = IF pc[a] \in {"monitor", "unmonitor"} THEN handler \cup {a} ELSE handler
  /\ UNCHANGED <<set, tool, pc, waits, ends, wrote, synced, dropped, overlapped, faults>>
-----------------------------------------------------------------------------
(* The tool itself. *)

Sync(id) ==
  /\ Alive(id) /\ state[id] = "scanning" /\ id \in connected
  /\ state' = [state EXCEPT ![id] = "watching"]
  /\ pending' = pending \ {id} /\ synced' = synced \cup {id}
  /\ UNCHANGED <<set, sessions, connected, pc, waits, ends, signals, wrote, dropped,
                 overlapped, faults>>

Disconnect(id) ==
  /\ Alive(id) /\ id \in connected /\ faults < MaxFaults
  /\ faults' = faults + 1
  /\ connected' = connected \ {id} /\ dropped' = dropped \cup {id}
  /\ UNCHANGED <<set, sessions, state, pending, pc, waits, ends, signals, wrote, synced,
                 overlapped>>
-----------------------------------------------------------------------------
Step(a) == \/ Start(a) \/ Create(a) \/ Poll(a) \/ Look(a) \/ WaitOne(a) \/ WaitReturns(a)
           \/ CommandsEnd(a) \/ List(a) \/ Terminate(a) \/ MonitorEnds(a) \/ Unmonitor(a)
           \/ End(a)
Trouble(a) == \/ StartFails(a) \/ CreateFails(a) \/ ListFails(a) \/ WaitOneFails(a)
              \/ CommandsFail(a) \/ TerminateFails(a) \/ MonitorFails(a)
              \/ Signal(a)

Finished == (\A a \in Actors : pc[a] \in {"ended", "monitor", "readers"}) /\ UNCHANGED vars

Next ==
  \/ \E a \in Actors : Step(a) \/ Trouble(a) \/ Write(a) \/ HandlerTerminates(a)
  \/ \E id \in Ids : Sync(id) \/ Disconnect(id)
  \/ Finished

\* Processes go on, and sessions that reach their container get in sync; there is
\* only so much to synchronise, so none is passed over for ever.
Fairness ==
  /\ \A a \in Actors : WF_vars(Step(a))
  /\ WF_vars(\E id \in Ids : Sync(id))

Spec == Init /\ [][Next]_vars /\ Fairness
-----------------------------------------------------------------------------
\* Nobody with one of its session names has run at the same time.
Undisturbed(a) == a \notin overlapped

\* Commands find every volume filled: each session was in sync once before they run,
\* or has lost its far side.
CommandsSeeVolumes ==
  \A a \in Actors : pc[a] = "commands" =>
    /\ Len(mine[a]) = Len(set[a].vols)
    /\ \A id \in Owned(a) : id \in synced \cup dropped

\* While commands run, or files are watched, nobody takes the sessions away, except
\* those who share their names and the signal that ends it all.
SessionsOutliveUse ==
  \A a \in Actors : pc[a] \in {"commands", "monitor"} /\ Undisturbed(a) /\ a \notin cancelled
                      => \A id \in Owned(a) : Alive(id)

\* What the commands of a successful build wrote has reached the host before the
\* session that carries it is terminated, unless it lost its far side.
ChangesReachHost ==
  \A a \in Actors : result[a] = "ok" /\ Undisturbed(a) =>
    \A id \in Owned(a) \cap pending : id \in dropped

\* A successful build leaves no session of its own, whoever else was at work, and
\* watching leaves none however it ends.
NoSessionLeft ==
  \A a \in Actors : result[a] = "ok" \/ (Kind(a) = "watch" /\ result[a] # "none") =>
                      \A id \in Owned(a) : ~Alive(id)

\* A build ends, whatever becomes of its sessions; watching does when interrupted.
CallsEnd ==
  \A a \in Actors : Kind(a) = "build" \/ (Kind(a) = "watch" /\ a \in cancelled)
                      ~> result[a] # "none"

=============================================================================
