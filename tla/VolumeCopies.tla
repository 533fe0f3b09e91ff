----------------------------- MODULE VolumeCopies -----------------------------
(***************************************************************************)
(* The contents of volumes on the host, in build images and in containers: *)
(* what docker.Run does with them when they are not bind mounts.           *)
(*                                                                         *)
(* With the approach "copy" the volumes are copied into the container once *)
(* it has started, with "add" they become part of the build image.  After  *)
(* every command the changed parts of writable volumes are copied back.    *)
(* A build image is looked up by the hash of the configuration of the run, *)
(* a container to reuse as well: what the volumes contain is not part of   *)
(* it, and neither is the approach.                                        *)
(*                                                                         *)
(* What is copied back is an entry: a direct child of a volume, with all   *)
(* the files in it.                                                        *)
(***************************************************************************)
EXTENDS Naturals, Sequences, FiniteSets

CONSTANTS
  Runs,        \* runs in containers, of any processes
  Configs,     \* what the hash and the RunID of a run stand for
  Settings,    \* how the runs may be set up: functions from Runs to Setting
  Leaves,      \* files of the volumes
  FileVolumes, \* those that are a volume of their own
  Renamed,     \* file volumes with one name on the host and another in the container
  ReadOnly,    \* files of read-only volumes
  Entries,     \* the entries, in the order in which they are copied
  EntryOf,     \* the entry that each file is part of
  Written,     \* bound: the files that commands write
  Edited,      \* bound: the files that others write
  NumCommands, \* commands of each run
  MaxWrites,   \* bound: changes of files, by commands and by others
  MaxFlakes    \* bound: copies that find their target directory missing at first

Setting == [config: Configs, mode: {"bind", "copy", "add"},
            dind: BOOLEAN,     \* the daemon is remote, or welder runs in a container
            linux: BOOLEAN,    \* the image has a Linux distribution
            noCache: BOOLEAN, reuse: BOOLEAN]

ASSUME ConstantsAssumption ==
  /\ IsFiniteSet(Runs) /\ IsFiniteSet(Leaves) /\ Runs \subseteq Nat \ {0}
  /\ \A s \in Settings : s \in [Runs -> Setting]
  /\ FileVolumes \subseteq Leaves /\ Renamed \subseteq FileVolumes /\ ReadOnly \subseteq Leaves
  /\ DOMAIN EntryOf = Leaves
  /\ Entries \in Seq({EntryOf[l] : l \in Leaves})
  /\ \A l \in Leaves : \E i \in DOMAIN Entries : Entries[i] = EntryOf[l]
  /\ \A l, m \in Leaves : EntryOf[l] = EntryOf[m] =>    \* they are in the same volume
       (l \in FileVolumes <=> m \in FileVolumes) /\ (l \in ReadOnly <=> m \in ReadOnly)
  /\ Written \subseteq Leaves /\ Edited \subseteq Leaves
  /\ NumCommands \in Nat \ {0} /\ MaxWrites \in Nat /\ MaxFlakes \in Nat

Somebody == 0 \* an editor or a script on the host, none of the runs
Absent == 0 \* content of a file that does not exist; other contents are writes, numbered
Contents == 0..MaxWrites + 1
NoFiles == [l \in Leaves |-> Absent]
Of(e) == {l \in Leaves : EntryOf[l] = e}

VARIABLES
  set,      \* settings of the runs
  host,     \* files on the host
  had,      \* per file: all contents it has had on the host
  built,    \* the build images: <<configuration, volumes were added to it>>
  images,   \* per configuration: the files in the latest one
  pc, result,
  box,      \* per run: whose container it uses
  files,    \* per run: files in its container
  base,     \* per run: files in the image of its container
  touched,  \* per run: files its container has in a layer of its own
  alive,    \* runs whose container exists
  todo,     \* per run: numbers of the entries still to copy, in or back
  command,  \* per run: commands started
  failed,   \* per run: the command has failed
  writes, flakes,
  since,    \* per run and file: contents on the host since the run began
  overtaken,\* per run: somebody else has changed the host since
  stale,    \* per run: an image or a container of its configuration was there already
  wrote     \* per run and file: what its commands wrote last

container == <<box, files, base, touched, alive>>
flow == <<pc, result, todo, command, failed>>
history == <<had, since, overtaken, stale, wrote>>
daemon == <<built, images>>
vars == <<set, host, daemon, container, flow, writes, flakes, history>>

\* ConfigureVolumes and FallbackToApproachInsteadOfBind.
Approach(r) == IF set[r].mode = "bind" /\ set[r].dind THEN "copy" ELSE set[r].mode
Config(r) == set[r].config
HasImage(r) == \E added \in BOOLEAN : <<Config(r), added>> \in built
Copies(r) == Approach(r) \in {"copy", "add"} /\ set[r].linux
\* A container for an image without a distribution is created for the approach it was
\* asked for; then the approach is said to be "bind", for which it has no mounts.
HasMounts(r) == Approach(r) = "bind"
Box(r) == files[box[r]]
Sees(r, l) == IF HasMounts(r) THEN host[l] ELSE Box(r)[l]

Init ==
  /\ set \in Settings
  /\ host = [l \in Leaves |-> 1] /\ had = [l \in Leaves |-> {1}]
  /\ built = {} /\ images = [c \in Configs |-> NoFiles]
  /\ pc = [r \in Runs |-> "idle"] /\ result = [r \in Runs |-> "none"]
  /\ box = [r \in Runs |-> r]
  /\ files = [r \in Runs |-> NoFiles] /\ base = [r \in Runs |-> NoFiles]
  /\ touched = [r \in Runs |-> {}] /\ alive = {}
  /\ todo = [r \in Runs |-> {}]
  /\ command = [r \in Runs |-> 0] /\ failed = [r \in Runs |-> FALSE]
  /\ writes = 1 /\ flakes = 0
  /\ since = [r \in Runs |-> [l \in Leaves |-> {}]]
  /\ overtaken = [r \in Runs |-> FALSE] /\ stale = [r \in Runs |-> FALSE]
  /\ wrote = [r \in Runs |-> NoFiles]

IsNext(i, S) == i \in S /\ \A j \in S : i <= j

Goto(r, where) == pc' = [pc EXCEPT ![r] = where]
UnderWay(r) == pc[r] \notin {"idle", "done"}

\* The host has the files h from now on; "by" made the change.
HostBecomes(h, by) ==
  /\ host' = h
  /\ had' = [l \in Leaves |-> had[l] \cup {h[l]}]
  /\ since' = [r \in Runs |-> IF UnderWay(r) THEN [l \in Leaves |-> since[r][l] \cup {h[l]}]
                                             ELSE since[r]]
  /\ overtaken' = [r \in Runs |-> overtaken[r] \/ (UnderWay(r) /\ r # by /\ h # host)]

Quiet == UNCHANGED <<host, had, since, overtaken>>

\* PrepareContainer failed: what it has created is left there.
Fails(r) == Goto(r, "done") /\ result' = [result EXCEPT ![r] = "error"] /\ UNCHANGED alive

\* Run returns after that; it removes a container it would not reuse.
Returns(r, with) ==
  /\ Goto(r, "done") /\ result' = [result EXCEPT ![r] = with]
  /\ alive' = IF set[r].reuse THEN alive ELSE alive \ {box[r]}

\* The daemon answers a call about a container that somebody has removed.
ContainerGone(r) ==
  /\ pc[r] \in {"copyin", "ready", "running", "copyback"} /\ box[r] \notin alive
  /\ IF pc[r] = "copyin" THEN Fails(r) ELSE Returns(r, "error")
  /\ UNCHANGED <<set, daemon, box, files, base, touched, todo, command, failed, writes,
                 flakes, stale, wrote>>
  /\ Quiet
-----------------------------------------------------------------------------
(* The world outside: an editor, a script on the host. *)

EditHost(l) ==
  /\ writes <= MaxWrites /\ writes' = writes + 1
  /\ \E v \in {Absent, writes + 1} : v # host[l] /\ HostBecomes([host EXCEPT ![l] = v], Somebody)
  /\ UNCHANGED <<set, daemon, container, flow, flakes, stale, wrote>>
-----------------------------------------------------------------------------
(* PrepareContainer. *)

\* checkExistingContainer; a run that does not reuse removes a container with its RunID.
Begin(r) ==
  /\ pc[r] = "idle"
  /\ LET same == {s \in alive : Config(s) = Config(r)} IN
     IF set[r].reuse /\ same # {}
     THEN /\ Goto(r, "ready")
          /\ \E s \in same : box' = [box EXCEPT ![r] = s]
          /\ stale' = [stale EXCEPT ![r] = TRUE]
          /\ UNCHANGED alive
     ELSE /\ Goto(r, IF set[r].linux THEN "find" ELSE "create")
          /\ IF set[r].reuse \/ same = {} THEN UNCHANGED alive
                                          ELSE \E s \in same : alive' = alive \ {s}
          /\ UNCHANGED <<box, stale>>
  /\ since' = [since EXCEPT ![r] = [l \in Leaves |-> {host[l]}]]
  /\ UNCHANGED <<set, host, daemon, files, base, touched, result, todo, command, failed,
                 writes, flakes, had, overtaken, wrote>>

\* Mutant: the image is reused whatever the flag --no-cache says.
FindImageAlways(r) ==
  /\ pc[r] = "find"
  /\ Goto(r, IF HasImage(r) THEN "create" ELSE "build")
  /\ stale' = [stale EXCEPT ![r] = HasImage(r) /\ ~set[r].noCache]
  /\ base' = [base EXCEPT ![r] = IF HasImage(r) THEN images[Config(r)] ELSE NoFiles]
  /\ todo' = [todo EXCEPT ![r] = IF Approach(r) = "add" /\ ~HasImage(r)
                                   THEN DOMAIN Entries ELSE {}]
  /\ UNCHANGED <<set, daemon, box, files, touched, alive, result, command, failed, writes,
                 flakes, wrote>>
  /\ Quiet

\* findExistingBuildImage, by the hash alone.
FindImage(r) ==
  /\ pc[r] = "find"
  /\ LET found == HasImage(r) /\ ~set[r].noCache IN
     /\ Goto(r, IF found THEN "create" ELSE "build")
     /\ stale' = [stale EXCEPT ![r] = found]
     /\ base' = [base EXCEPT ![r] = IF found THEN images[Config(r)] ELSE NoFiles]
     /\ todo' = [todo EXCEPT ![r] =
                   IF Approach(r) = "add" /\ ~found THEN DOMAIN Entries ELSE {}]
  /\ UNCHANGED <<set, daemon, box, files, touched, alive, result, command, failed, writes,
                 flakes, wrote>>
  /\ Quiet

\* addVolumeBindsToBuildImageCommands copies the volumes to where the image is built.
\* A file that is a volume has to exist.
AddToContext(r) ==
  /\ pc[r] = "build"
  /\ \E i \in todo[r] :
       LET e == Entries[i] IN
       /\ IsNext(i, todo[r])
       /\ IF Of(e) \subseteq FileVolumes /\ \E l \in Of(e) : host[l] = Absent
          THEN Fails(r) /\ UNCHANGED <<base, todo>>
          ELSE /\ base' = [base EXCEPT ![r] =
                             [l \in Leaves |-> IF l \in Of(e) THEN host[l] ELSE @[l]]]
               /\ todo' = [todo EXCEPT ![r] = @ \ {i}]
               /\ UNCHANGED <<pc, result, alive>>
  /\ UNCHANGED <<set, daemon, box, files, touched, command, failed, writes, flakes, stale, wrote>>
  /\ Quiet

\* Dockerfile.Build looks for an image of the same Dockerfile, tags and labels itself
\* and then has no image ID to tell; the hash of equal labels may differ.  With "add" no
\* two Dockerfiles are the same: the volumes are in directories with random names.
BuildImage(r) ==
  /\ pc[r] = "build" /\ todo[r] = {}
  /\ \/ /\ <<Config(r), FALSE>> \in built /\ ~set[r].noCache /\ Approach(r) # "add"
        /\ Fails(r) /\ UNCHANGED daemon
     \/ /\ Goto(r, "create")
        /\ built' = built \cup {<<Config(r), Approach(r) = "add">>}
        /\ images' = [images EXCEPT ![Config(r)] = base[r]]
        /\ UNCHANGED <<result, alive>>
  /\ UNCHANGED <<set, box, files, base, touched, todo, command, failed, writes, flakes,
                 stale, wrote>>
  /\ Quiet

\* createContainer, and prepareVolumesInContainer if the volumes have to be copied.
Create(r) ==
  /\ pc[r] = "create"
  /\ files' = [files EXCEPT ![r] = base[r]] /\ touched' = [touched EXCEPT ![r] = {}]
  /\ alive' = alive \cup {r}
  /\ IF Approach(r) = "copy" /\ set[r].linux
     THEN Goto(r, "copyin") /\ todo' = [todo EXCEPT ![r] = DOMAIN Entries]
     ELSE Goto(r, "ready") /\ UNCHANGED todo
  /\ UNCHANGED <<set, daemon, box, base, result, command, failed, writes, flakes, stale, wrote>>
  /\ Quiet

\* The files S of the host arrive in the container of r.
Arrive(r, S) ==
  /\ files' = [files EXCEPT ![box[r]] = [l \in Leaves |-> IF l \in S THEN host[l] ELSE @[l]]]
  /\ touched' = [touched EXCEPT ![box[r]] = @ \cup S]

\* copyToContainer.  Files the host does not have stay what they are in the container.
\* errors.Wrapf of no error is no error: after a copy that succeeded at once it returns,
\* before it gives a file the name it has in the container.
CopyIn(r) ==
  /\ pc[r] = "copyin" /\ box[r] \in alive
  /\ \E flaky \in BOOLEAN, i \in todo[r] :
       LET e == Entries[i]
           lone == Of(e) \subseteq FileVolumes
           S == {l \in Of(e) : host[l] # Absent /\ (l \in Renamed => flaky)} IN
       /\ IsNext(i, todo[r])
       /\ flaky => flakes < MaxFlakes
       /\ flakes' = IF flaky THEN flakes + 1 ELSE flakes
       /\ IF lone /\ \E l \in Of(e) : host[l] = Absent
          THEN Fails(r) /\ UNCHANGED <<files, touched, todo>>
          ELSE /\ Arrive(r, S)
               /\ todo' = [todo EXCEPT ![r] = @ \ {i}]
               /\ Goto(r, IF todo[r] = {i} THEN "ready" ELSE "copyin")
               /\ UNCHANGED <<result, alive>>
  /\ UNCHANGED <<set, daemon, box, base, command, failed, writes, stale, wrote>>
  /\ Quiet
-----------------------------------------------------------------------------
(* Commands, and what ExecCommand does after each. *)

StartCommand(r) ==
  /\ pc[r] = "ready" /\ box[r] \in alive /\ command[r] < NumCommands
  /\ Goto(r, "running") /\ command' = [command EXCEPT ![r] = @ + 1]
  /\ UNCHANGED <<set, daemon, container, result, todo, failed, writes, flakes, stale, wrote>>
  /\ Quiet

\* The command writes a file, or removes it.  A read-only mount refuses.
Write(r, l) ==
  /\ pc[r] = "running" /\ box[r] \in alive /\ writes <= MaxWrites
  /\ writes' = writes + 1
  /\ \E v \in {Absent, writes + 1} :
       /\ v # Sees(r, l)
       /\ wrote' = [wrote EXCEPT ![r][l] = v]
       /\ IF HasMounts(r)
          THEN /\ l \notin ReadOnly
               /\ HostBecomes([host EXCEPT ![l] = v], r)
               /\ UNCHANGED <<files, touched>>
          ELSE /\ files' = [files EXCEPT ![box[r]][l] = v]
               /\ touched' = [touched EXCEPT ![box[r]] = @ \cup {l}]
               /\ Quiet
  /\ UNCHANGED <<set, daemon, box, base, alive, flow, flakes, stale>>

\* Entries that ContainerDiff tells of: the container has files of its own in them, or
\* lacks files of the image.  In a container they were copied into that is all of them.
Differs(b, e) == \E l \in Of(e) \cap touched[b] : files[b][l] # Absent \/ base[b][l] # Absent
Gone(b, e) == \A l \in Of(e) : files[b][l] = Absent

\* Mutant: what has changed is copied back whether the volume is writable or not.
AllChanged(b) == {i \in DOMAIN Entries : Differs(b, Entries[i])}

\* copyVolumesFromContainer skips read-only volumes, and the path that is a volume
\* itself: also that of a file.
ToCopyBack(b) ==
  {i \in DOMAIN Entries : /\ Differs(b, Entries[i])
                          /\ Of(Entries[i]) \cap (ReadOnly \cup FileVolumes) = {}}

\* Mutant: nothing is copied back after a command that failed.
EndCommandIfWell(r) ==
  /\ pc[r] = "running" /\ box[r] \in alive
  /\ \E bad \in BOOLEAN :
       /\ failed' = [failed EXCEPT ![r] = bad]
       /\ IF Copies(r)
          THEN /\ Goto(r, "copyback")
               /\ todo' = [todo EXCEPT ![r] = IF bad THEN {} ELSE ToCopyBack(box[r])]
               /\ UNCHANGED <<result, alive>>
          ELSE /\ UNCHANGED todo
               /\ IF bad THEN Returns(r, "error")
                         ELSE Goto(r, "ready") /\ UNCHANGED <<result, alive>>
  /\ UNCHANGED <<set, daemon, box, files, base, touched, command, writes, flakes, stale, wrote>>
  /\ Quiet

\* The command ends, well or not; the volumes are copied back either way.
EndCommand(r) ==
  /\ pc[r] = "running" /\ box[r] \in alive
  /\ \E bad \in BOOLEAN :
       /\ failed' = [failed EXCEPT ![r] = bad]
       /\ IF Copies(r)
          THEN /\ Goto(r, "copyback") /\ todo' = [todo EXCEPT ![r] = ToCopyBack(box[r])]
               /\ UNCHANGED <<result, alive>>
          ELSE /\ UNCHANGED todo
               /\ IF bad THEN Returns(r, "error")
                         ELSE Goto(r, "ready") /\ UNCHANGED <<result, alive>>
  /\ UNCHANGED <<set, daemon, box, files, base, touched, command, writes, flakes, stale, wrote>>
  /\ Quiet

\* copyFromContainer: the whole entry replaces what the host has of it, except for files
\* that the container lacks.  An entry that is gone cannot be copied.
CopyBack(r) ==
  /\ pc[r] = "copyback" /\ box[r] \in alive
  /\ \E i \in todo[r] :
       LET e == Entries[i] IN
       /\ IsNext(i, todo[r])
       /\ IF Gone(box[r], e)
          THEN Returns(r, "error") /\ Quiet /\ UNCHANGED todo
          ELSE /\ todo' = [todo EXCEPT ![r] = @ \ {i}]
               /\ HostBecomes([l \in Leaves |-> IF l \in Of(e) /\ Box(r)[l] # Absent
                                                THEN Box(r)[l] ELSE host[l]], r)
               /\ UNCHANGED <<pc, result, alive>>
  /\ UNCHANGED <<set, daemon, box, files, base, touched, command, failed, writes, flakes,
                 stale, wrote>>

\* The error of the command comes before that of the copy.
CopiedBack(r) ==
  /\ pc[r] = "copyback" /\ todo[r] = {}
  /\ IF failed[r] THEN Returns(r, "error")
                  ELSE Goto(r, "ready") /\ UNCHANGED <<result, alive>>
  /\ UNCHANGED <<set, daemon, box, files, base, touched, todo, command, failed, writes,
                 flakes, stale, wrote>>
  /\ Quiet

Finish(r) ==
  /\ pc[r] = "ready" /\ command[r] = NumCommands
  /\ Returns(r, "ok")
  /\ UNCHANGED <<set, daemon, box, files, base, touched, todo, command, failed, writes,
                 flakes, stale, wrote>>
  /\ Quiet

Next ==
  \/ \E l \in Edited : EditHost(l)
  \/ \E r \in Runs :
       \/ Begin(r) \/ FindImage(r) \/ AddToContext(r) \/ BuildImage(r) \/ Create(r)
       \/ CopyIn(r) \/ ContainerGone(r)
       \/ StartCommand(r) \/ EndCommand(r) \/ CopyBack(r) \/ CopiedBack(r) \/ Finish(r)
       \/ \E l \in Written : Write(r, l)

Spec == Init /\ [][Next]_vars
-----------------------------------------------------------------------------
(* Properties. *)

\* Another run uses the container too.
Shared(r) == \E q \in Runs \ {r} : box[q] = box[r]

\* What the first command of a run finds in a volume has been on the host since the run
\* began.  The exceptions: an image or a container was reused, also by another run, the
\* image has no distribution (docker_run.go:353), or the file is a volume whose name differs in the
\* container: copyToContainer may return before it has renamed the copy.
RunsStartFromHost ==
  \A r \in Runs, l \in Leaves :
    /\ pc[r] = "ready" /\ command[r] = 0 /\ box[r] \in alive
    /\ ~stale[r] /\ ~Shared(r) /\ set[r].linux
    => \/ Sees(r, l) \in since[r][l]
       \/ l \in Renamed /\ Approach(r) = "copy" /\ Sees(r, l) = Absent

\* After a command, even one that failed, the host has had every version of a file in a
\* writable directory that the commands of the run left there.  It need not have it
\* still: another run may have copied its own over it.  The exceptions:
\*   - the volumes are not mounted (copy and add) and the image has no Linux
\*     distribution: the fallback to bind (docker_run.go:353-356) comes after the
\*     container was created without mounts, and copies nothing back, whatever
\*     performance.md:65-67 says of changed files: what is written stays there;
\*   - a file that the commands removed stays on the host (nothing is said of Absent);
\*   - another run uses the container; volumes that are a single file, or read-only.
WritesReachHost ==
  \A r \in Runs, l \in Leaves \ (ReadOnly \cup FileVolumes) :
    /\ \/ pc[r] = "ready"
       \/ pc[r] = "done" /\ result[r] = "ok"
       \/ pc[r] = "copyback" /\ todo[r] = {}
    /\ set[r].linux \/ HasMounts(r)
    /\ ~Shared(r)
    /\ wrote[r][l] # Absent
    => wrote[r][l] \in had[l]

\* Copying back changes no file of a read-only volume, removes none, and takes a file of
\* the host back to an earlier version only if somebody else has changed the host since
\* the run began, or if it started from an image or a container that was there already.
RunsKeepHost ==
  [][\A r \in Runs, l \in Leaves :
       /\ pc[r] = "copyback" /\ todo'[r] # todo[r] /\ host'[l] # host[l]
       => /\ l \notin ReadOnly /\ host'[l] # Absent
          /\ host'[l] \in had[l] => overtaken[r] \/ stale[r] \/ Shared(r)]_vars
=============================================================================
