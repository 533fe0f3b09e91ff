-------------------------- MODULE VolumeCopiesProofs --------------------------
(***************************************************************************)
(* Proofs about VolumeCopies for any runs, settings, files and entries: a  *)
(* run starts from what the host has, what its commands wrote reaches the  *)
(* host, and copying back takes nothing from the host.                     *)
(***************************************************************************)
EXTENDS VolumeCopies, TLAPS

Places == {"idle", "find", "build", "create", "copyin", "ready", "running", "copyback", "done"}
\* Contents are numbered by the writes that made them.
Files == [Leaves -> 0..writes]

Typed ==
  /\ set \in Settings
  /\ host \in Files /\ had \in [Leaves -> SUBSET Nat]
  /\ images \in [Configs -> Files]
  /\ pc \in [Runs -> Places] /\ result \in [Runs -> {"none", "ok", "error"}]
  /\ box \in [Runs -> Runs] /\ alive \subseteq Runs
  /\ files \in [Runs -> Files] /\ base \in [Runs -> Files] /\ wrote \in [Runs -> Files]
  /\ touched \in [Runs -> SUBSET Leaves] /\ todo \in [Runs -> SUBSET DOMAIN Entries]
  /\ command \in [Runs -> Nat] /\ failed \in [Runs -> BOOLEAN]
  /\ writes \in Nat /\ flakes \in Nat
  /\ since \in [Runs -> [Leaves -> SUBSET Nat]]
  /\ overtaken \in [Runs -> BOOLEAN] /\ stale \in [Runs -> BOOLEAN]

\* What is on the host has been there, and every write is new.
Remembered ==
  /\ \A l \in Leaves : host[l] \in had[l] /\ \A v \in had[l] : v <= writes
  /\ \A r \in Runs, l \in Leaves : UnderWay(r) => host[l] \in since[r][l]

\* A run without a container of its own, or with one that nobody else uses.
Early == {"idle", "find", "build", "create"}
Own(r) == box[r] = r /\ \A q \in Runs \ {r} : box[q] # r

\* Who uses the container of another run has begun after that was created.
Boxes ==
  /\ \A r \in alive : box[r] = r /\ pc[r] \notin Early
  /\ \A q, r \in Runs : q # r /\ box[q] = r =>
       pc[r] \notin Early /\ box[r] = r /\ stale[q] /\ pc[q] \notin Early \cup {"copyin"}

Pending(r, l) == \E i \in todo[r] : Entries[i] = EntryOf[l]
Writable(e) == Of(e) \cap (ReadOnly \cup FileVolumes) = {}

\* What a run has done where it is.
AtPlace(r) ==
  /\ pc[r] \in {"idle", "find"} => base[r] = NoFiles
  /\ pc[r] \in {"find", "build"} => set[r].linux
  /\ pc[r] \in Early \cup {"copyin"} => command[r] = 0 /\ wrote[r] = NoFiles
  /\ pc[r] \in {"idle", "find", "build"} => ~stale[r]
  /\ pc[r] = "build" /\ todo[r] # {} => Approach(r) = "add"
  /\ pc[r] = "copyin" => Approach(r) = "copy"
  /\ pc[r] \in {"running", "copyback"} => command[r] # 0
  /\ pc[r] = "copyback" => Copies(r) /\ \A i \in todo[r] : Writable(Entries[i])

\* Before the first command.
Starts(r) ==
  ~stale[r] /\ Own(r) /\ set[r].linux /\ command[r] = 0 =>
    \A l \in Leaves :
      /\ Approach(r) = "copy" =>
           /\ pc[r] \in {"build", "create"} => base[r][l] = Absent
           /\ pc[r] = "copyin" => \/ files[r][l] \in since[r][l]
                                  \/ files[r][l] = Absent /\ (l \in Renamed \/ Pending(r, l))
           /\ pc[r] = "ready" => \/ files[r][l] \in since[r][l]
                                 \/ files[r][l] = Absent /\ l \in Renamed
      /\ Approach(r) = "add" =>
           /\ pc[r] = "build" => base[r][l] \in since[r][l] \/ Pending(r, l)
           /\ pc[r] = "create" => base[r][l] \in since[r][l]
           /\ pc[r] = "ready" => files[r][l] \in since[r][l]

\* What a command wrote has been on the host, or is still to be copied.
Held(r, l) ==
  /\ ~HasMounts(r) /\ files[r][l] = wrote[r][l] /\ l \in touched[r]
  /\ pc[r] = "running" \/ (pc[r] = "copyback" /\ Pending(r, l))

Delivers(r) ==
  Own(r) /\ (set[r].linux \/ HasMounts(r)) =>
    \A l \in Leaves \ (ReadOnly \cup FileVolumes) :
      wrote[r][l] # Absent =>
        wrote[r][l] \in had[l] \/ Held(r, l) \/ (pc[r] = "done" /\ result[r] = "error")

\* What a container has is what the host has, or what the host has never had.
Current(r) ==
  ~overtaken[r] /\ ~stale[r] /\ Own(r) /\ Copies(r) =>
    \A l \in Leaves :
      /\ pc[r] \in Early => base[r][l] \in {Absent, host[l]}
      /\ pc[r] \in {"copyin", "ready", "running", "copyback"} =>
           files[r][l] \in {Absent, host[l]} \/ files[r][l] \notin had[l]

RunInv(r) == AtPlace(r) /\ Starts(r) /\ Delivers(r) /\ Current(r)

Inv == Typed /\ Remembered /\ Boxes /\ \A r \in Runs : RunInv(r)
-----------------------------------------------------------------------------
USE DEF Goto

LEMMA EntryFacts ==
  /\ \A l \in Leaves : \E i \in DOMAIN Entries : Entries[i] = EntryOf[l]
  /\ \A l, m \in Leaves : EntryOf[l] = EntryOf[m] =>
       (l \in FileVolumes <=> m \in FileVolumes) /\ (l \in ReadOnly <=> m \in ReadOnly)
  /\ DOMAIN Entries \subseteq Nat
<1>1. DOMAIN Entries \subseteq Nat
  BY ConstantsAssumption
<1> QED BY <1>1, ConstantsAssumption

LEMMA FilesFacts ==
  ASSUME writes \in Nat
  PROVE  /\ NoFiles \in Files /\ (writes' = writes => Files' = Files)
         /\ \A f \in Files, l \in Leaves : f[l] \in Nat /\ f[l] <= writes
BY DEF NoFiles, Absent, Files

LEMMA SettingFacts ==
  ASSUME Typed, NEW r \in Runs
  PROVE  /\ set[r] \in Setting /\ Config(r) \in Configs /\ set[r].linux \in BOOLEAN
         /\ Approach(r) \in {"bind", "copy", "add"}
<1>1. set[r] \in Setting
  BY ConstantsAssumption DEF Typed
<1> QED BY <1>1 DEF Setting, Config, Approach

\* What depends on the settings alone.
LEMMA SameSettings ==
  ASSUME set' = set
  PROVE  \A r : /\ Approach(r)' = Approach(r) /\ HasMounts(r)' = HasMounts(r)
                /\ Copies(r)' = Copies(r) /\ Config(r)' = Config(r)
BY DEF Approach, HasMounts, Copies, Config

\* What a run keeps while others are at work.
LEMMA RunKeeps ==
  ASSUME NEW r \in Runs, RunInv(r), set' = set,
         pc'[r] = pc[r], result'[r] = result[r], base'[r] = base[r], todo'[r] = todo[r],
         command'[r] = command[r], stale'[r] = stale[r], wrote'[r] = wrote[r],
         Own(r)' => Own(r) /\ files'[r] = files[r] /\ touched'[r] = touched[r],
         \A l \in Leaves : had[l] \subseteq had'[l] /\ since[r][l] \subseteq since'[r][l],
         overtaken[r] => overtaken'[r],
         \/ overtaken'[r] \/ ~UnderWay(r)
         \/ \A l \in Leaves : host'[l] = host[l] /\ had'[l] = had[l]
  PROVE  RunInv(r)'
<1>1. AtPlace(r)'
  BY SameSettings DEF RunInv, AtPlace
<1>2. Starts(r)'
  BY SameSettings DEF RunInv, Starts, Pending
<1>3. Delivers(r)'
  BY SameSettings DEF RunInv, Delivers, Held, Pending
<1>4. Current(r)'
  <2>1. Current(r) /\ AtPlace(r)
    BY DEF RunInv
  <2>2. CASE \A l \in Leaves : host'[l] = host[l] /\ had'[l] = had[l]
    BY <2>1, <2>2, SameSettings DEF Current
  <2>3. CASE overtaken'[r]
    BY <2>3 DEF Current
  <2>4. CASE pc[r] = "idle"
    BY <2>1, <2>4 DEF AtPlace, Current, NoFiles
  <2>5. CASE pc[r] = "done"
    BY <2>5 DEF Current, Early
  <2> QED BY <2>2, <2>3, <2>4, <2>5 DEF UnderWay
<1> QED BY <1>1, <1>2, <1>3, <1>4 DEF RunInv

LEMMA BoxesKeep ==
  ASSUME Boxes, box' = box, alive' \subseteq alive, alive \subseteq Runs,
         \A q \in Runs : (stale[q] => stale'[q]) /\ (pc[q] \notin Early => pc'[q] \notin Early)
                         /\ (pc[q] \notin Early \cup {"copyin"} =>
                               pc'[q] \notin Early \cup {"copyin"})
  PROVE  Boxes'
<1>1. ASSUME NEW r \in alive' PROVE box'[r] = r /\ (r \in Runs => pc'[r] \notin Early)
  BY DEF Boxes
<1>2. ASSUME NEW q \in Runs, NEW r \in Runs, q # r, box'[q] = r
      PROVE  pc'[r] \notin Early /\ box'[r] = r /\ stale'[q]
             /\ pc'[q] \notin Early \cup {"copyin"}
  BY <1>2 DEF Boxes
<1> QED BY <1>1, <1>2 DEF Boxes

\* A step of one run that does nothing to the host.
LEMMA OwnStep ==
  ASSUME Inv, NEW r \in Runs, Quiet, set' = set, Typed', Boxes', box' = box, writes <= writes',
         \A q \in Runs \ {r} :
           /\ pc'[q] = pc[q] /\ result'[q] = result[q] /\ base'[q] = base[q]
           /\ todo'[q] = todo[q] /\ command'[q] = command[q] /\ stale'[q] = stale[q]
           /\ wrote'[q] = wrote[q],
         \A q \in Runs \ {box[r]} : files'[q] = files[q] /\ touched'[q] = touched[q],
         UnderWay(r)' => UnderWay(r), RunInv(r)'
  PROVE  Inv'
<1>1. ASSUME NEW q \in Runs \ {r} PROVE RunInv(q)'
  <2>1. Own(q)' => Own(q) /\ files'[q] = files[q] /\ touched'[q] = touched[q]
    BY DEF Own
  <2> QED BY <2>1, RunKeeps DEF Inv, Quiet
<1>2. Remembered'
  <2>1. ASSUME NEW q \in Runs, NEW l \in Leaves, UnderWay(q)' PROVE host'[l] \in since'[q][l]
    BY <2>1 DEF Inv, Remembered, Quiet, UnderWay
  <2>2. ASSUME NEW l \in Leaves, NEW v \in had'[l] PROVE v <= writes'
    <3>1. v \in had[l] /\ v \in Nat /\ v <= writes
      BY <2>2 DEF Inv, Typed, Remembered, Quiet
    <3> QED BY <3>1 DEF Inv, Typed
  <2> QED BY <2>1, <2>2 DEF Inv, Remembered, Quiet
<1> QED BY <1>1, <1>2 DEF Inv

\* A run ends, with an error or after its last command.
LEMMA LeaveStep ==
  ASSUME Inv, NEW r \in Runs, Goto(r, "done"), NEW with \in {"ok", "error"},
         result' = [result EXCEPT ![r] = with], with = "error" \/ pc[r] = "ready",
         alive' \subseteq alive, failed' \in [Runs -> BOOLEAN], flakes' \in Nat,
         UNCHANGED <<set, daemon, box, files, base, touched, todo, command, writes, stale, wrote>>,
         pc[r] # "idle", Quiet
  PROVE  Inv'
<1>1. Typed /\ Boxes /\ RunInv(r)
  BY DEF Inv
<1>2. pc'[r] = "done" /\ result'[r] = with
      /\ \A q \in Runs \ {r} : pc'[q] = pc[q] /\ result'[q] = result[q]
  BY <1>1 DEF Typed
<1>3. Typed'
  <2>1. writes \in Nat
    BY <1>1 DEF Typed
  <2> QED BY <1>1, <2>1, FilesFacts DEF Typed, Places, Quiet, daemon
<1>4. Boxes'
  BY <1>1, <1>2, BoxesKeep DEF Early, Typed
<1>5. AtPlace(r)' /\ Starts(r)' /\ Current(r)'
  BY <1>2 DEF AtPlace, Starts, Current, Early
<1>6. Delivers(r)'
  <2>1. Delivers(r) /\ (Own(r)' => Own(r))
    BY <1>1 DEF RunInv, Own
  <2> QED BY <1>2, <2>1, SameSettings DEF Delivers, Held, Quiet
<1>7. RunInv(r)'
  BY <1>5, <1>6 DEF RunInv
<1>8. writes <= writes' /\ (UnderWay(r)' => UnderWay(r))
  BY <1>1, <1>2 DEF Typed, UnderWay
<1> QED BY <1>2, <1>3, <1>4, <1>7, <1>8, OwnStep DEF Quiet

LEMMA ContainerGoneKeeps == ASSUME Inv, NEW r \in Runs, ContainerGone(r) PROVE Inv'
<1>1. failed' \in [Runs -> BOOLEAN] /\ flakes' \in Nat
  BY DEF ContainerGone, Inv, Typed
<1>2. Goto(r, "done") /\ result' = [result EXCEPT ![r] = "error"] /\ alive' \subseteq alive
      /\ UNCHANGED <<set, daemon, box, files, base, touched, todo, command, writes, stale, wrote>>
      /\ pc[r] # "idle" /\ Quiet
  BY DEF ContainerGone, Fails, Returns
<1> QED BY <1>1, <1>2, LeaveStep

LEMMA FinishKeeps == ASSUME Inv, NEW r \in Runs, Finish(r) PROVE Inv'
<1>1. failed' \in [Runs -> BOOLEAN] /\ flakes' \in Nat
  BY DEF Finish, Inv, Typed
<1>2. Goto(r, "done") /\ result' = [result EXCEPT ![r] = "ok"] /\ alive' \subseteq alive
      /\ UNCHANGED <<set, daemon, box, files, base, touched, todo, command, writes, stale, wrote>>
      /\ pc[r] = "ready" /\ Quiet
  BY DEF Finish, Returns
<1> QED BY <1>1, <1>2, LeaveStep

LEMMA CopiedBackKeeps == ASSUME Inv, NEW r \in Runs, CopiedBack(r) PROVE Inv'
<1>1. Typed /\ Boxes /\ RunInv(r) /\ writes \in Nat
  BY DEF Inv, Typed
<1>2. pc[r] = "copyback" /\ todo[r] = {} /\ Quiet
      /\ UNCHANGED <<set, daemon, box, files, base, touched, todo, command, failed, writes,
                     flakes, stale, wrote>>
  BY DEF CopiedBack
<1>3. CASE Returns(r, "error")
  <2>1. Goto(r, "done") /\ result' = [result EXCEPT ![r] = "error"] /\ alive' \subseteq alive
    BY <1>3 DEF Returns
  <2>2. failed' \in [Runs -> BOOLEAN] /\ flakes' \in Nat
    BY <1>1, <1>2 DEF Typed
  <2> QED BY <1>2, <2>1, <2>2, LeaveStep
<1>4. CASE Goto(r, "ready") /\ UNCHANGED <<result, alive>>
  <2>1. pc'[r] = "ready" /\ \A q \in Runs \ {r} : pc'[q] = pc[q]
    BY <1>1, <1>4 DEF Typed
  <2>2. Typed'
    BY <1>1, <1>2, <1>4, FilesFacts DEF Typed, Places, Quiet, daemon
  <2>3. Boxes'
    BY <1>1, <1>2, <1>4, <2>1, BoxesKeep DEF Early, Typed
  <2>4. Own(r)' => Own(r)
    BY <1>2 DEF Own
  <2>5. AtPlace(r)'
    BY <1>1, <1>2, <2>1, SameSettings DEF RunInv, AtPlace, Early
  <2>6. Starts(r)'
    BY <1>1, <1>2, <2>1 DEF RunInv, AtPlace, Starts
  <2>7. Delivers(r)'
    BY <1>1, <1>2, <2>1, <2>4, SameSettings DEF RunInv, Delivers, Held, Pending, Quiet
  <2>8. Current(r)'
    BY <1>1, <1>2, <2>1, <2>4, SameSettings DEF RunInv, Current, Early, Quiet
  <2>9. RunInv(r)'
    BY <2>5, <2>6, <2>7, <2>8 DEF RunInv
  <2>10. writes <= writes' /\ (UnderWay(r)' => UnderWay(r))
    BY <1>1, <1>2, <2>1 DEF UnderWay
  <2> QED BY <1>2, <1>4, <2>1, <2>2, <2>3, <2>9, <2>10, OwnStep
<1> QED BY <1>3, <1>4 DEF CopiedBack

LEMMA FindImageKeeps == ASSUME Inv, NEW r \in Runs, FindImage(r) PROVE Inv'
<1>1. Typed /\ Boxes /\ RunInv(r) /\ writes \in Nat
  BY DEF Inv, Typed
<1> DEFINE found == HasImage(r) /\ ~set[r].noCache
<1>2. pc[r] = "find" /\ Quiet /\ found \in BOOLEAN
      /\ pc' = [pc EXCEPT ![r] = IF found THEN "create" ELSE "build"]
      /\ stale' = [stale EXCEPT ![r] = found]
      /\ base' = [base EXCEPT ![r] = IF found THEN images[Config(r)] ELSE NoFiles]
      /\ todo' = [todo EXCEPT ![r] =
                    IF Approach(r) = "add" /\ ~found THEN DOMAIN Entries ELSE {}]
      /\ UNCHANGED <<set, daemon, box, files, touched, alive, result, command, failed, writes,
                     flakes, wrote>>
  BY DEF FindImage
<1> HIDE DEF found
<1>3. /\ pc'[r] = IF found THEN "create" ELSE "build"
      /\ stale'[r] = found /\ base'[r] = IF found THEN images[Config(r)] ELSE NoFiles
      /\ todo'[r] = IF Approach(r) = "add" /\ ~found THEN DOMAIN Entries ELSE {}
      /\ \A q \in Runs \ {r} : pc'[q] = pc[q] /\ stale'[q] = stale[q] /\ base'[q] = base[q]
                               /\ todo'[q] = todo[q]
  BY <1>1, <1>2 DEF Typed
<1>4. Typed'
  <2>1. images[Config(r)] \in Files /\ NoFiles \in Files
    BY <1>1, SettingFacts, FilesFacts DEF Typed
  <2> QED BY <1>1, <1>2, <2>1, FilesFacts DEF Typed, Places, Quiet, daemon
<1>5. Boxes'
  <2>1. ~stale[r]
    BY <1>1, <1>2 DEF RunInv, AtPlace
  <2> QED BY <1>1, <1>2, <1>3, <2>1, BoxesKeep DEF Early, Typed
<1>6. AtPlace(r)'
  BY <1>1, <1>2, <1>3, SameSettings DEF RunInv, AtPlace, Early
<1>7. Starts(r)'
  <2> SUFFICES ASSUME ~found, NEW l \in Leaves
               PROVE  base'[r][l] = Absent /\ (Approach(r) = "add" => Pending(r, l)')
    BY <1>2, <1>3, SameSettings DEF Starts
  <2>1. base'[r][l] = Absent
    BY <1>3 DEF NoFiles
  <2>2. Approach(r) = "add" => Pending(r, l)'
    BY <1>3, EntryFacts DEF Pending
  <2> QED BY <2>1, <2>2
<1>8. Delivers(r)'
  BY <1>1, <1>2 DEF RunInv, AtPlace, Delivers, NoFiles, Early
<1>9. Current(r)'
  BY <1>2, <1>3 DEF Current, NoFiles, Early
<1>10. RunInv(r)'
  BY <1>6, <1>7, <1>8, <1>9 DEF RunInv
<1>11. writes <= writes' /\ (UnderWay(r)' => UnderWay(r))
  BY <1>1, <1>2 DEF UnderWay
<1> QED BY <1>2, <1>3, <1>4, <1>5, <1>10, <1>11, OwnStep

LEMMA AddToContextKeeps == ASSUME Inv, NEW r \in Runs, AddToContext(r) PROVE Inv'
<1>1. Typed /\ Boxes /\ RunInv(r) /\ writes \in Nat
  BY DEF Inv, Typed
<1>2. pc[r] = "build" /\ Quiet
      /\ UNCHANGED <<set, daemon, box, files, touched, command, failed, writes, flakes, stale,
                     wrote>>
  BY DEF AddToContext
<1>3. CASE Fails(r) /\ UNCHANGED <<base, todo>>
  <2>1. Goto(r, "done") /\ result' = [result EXCEPT ![r] = "error"] /\ alive' \subseteq alive
    BY <1>3 DEF Fails
  <2>2. failed' \in [Runs -> BOOLEAN] /\ flakes' \in Nat
    BY <1>1, <1>2 DEF Typed
  <2> QED BY <1>2, <1>3, <2>1, <2>2, LeaveStep
<1>4. ASSUME NEW i \in todo[r],
             base' = [base EXCEPT ![r] =
                        [l \in Leaves |-> IF l \in Of(Entries[i]) THEN host[l] ELSE @[l]]],
             todo' = [todo EXCEPT ![r] = @ \ {i}], UNCHANGED <<pc, result, alive>>
      PROVE  Inv'
  <2>1. /\ \A l \in Leaves : base'[r][l] = IF l \in Of(Entries[i]) THEN host[l] ELSE base[r][l]
        /\ todo'[r] = todo[r] \ {i}
        /\ \A q \in Runs \ {r} : base'[q] = base[q] /\ todo'[q] = todo[q]
    BY <1>1, <1>4 DEF Typed
  <2>2. Typed'
    <3>1. base'[r] \in Files
      BY <1>1, <1>4 DEF Typed, Files
    <3>2. base' \in [Runs -> Files] /\ todo' \in [Runs -> SUBSET DOMAIN Entries]
      BY <1>1, <1>4, <3>1 DEF Typed
    <3> QED BY <1>1, <1>2, <1>4, <3>2, FilesFacts DEF Typed, Quiet, daemon
  <2>3. Boxes'
    BY <1>1, <1>2, <1>4, BoxesKeep DEF Typed
  <2>4. Own(r)' => Own(r)
    BY <1>2 DEF Own
  <2>5. AtPlace(r)'
    BY <1>1, <1>2, <1>4, <2>1, SameSettings DEF RunInv, AtPlace, Early
  <2>6. Starts(r)'
    <3> SUFFICES ASSUME Starts(r), ~stale[r], Own(r), set[r].linux, command[r] = 0,
                        NEW l \in Leaves
                 PROVE  /\ Approach(r) = "copy" => base'[r][l] = Absent
                        /\ Approach(r) = "add" => base'[r][l] \in since[r][l] \/ Pending(r, l)'
      BY <1>1, <1>2, <1>4, <2>4, SameSettings DEF RunInv, Starts, Quiet
    <3>1. host[l] \in since[r][l]
      BY <1>2 DEF Inv, Remembered, UnderWay
    <3>2. Pending(r, l) => Pending(r, l)' \/ l \in Of(Entries[i])
      BY <2>1 DEF Pending, Of
    <3>3. CASE Approach(r) = "add"
      BY <1>2, <2>1, <3>1, <3>2, <3>3 DEF Starts
    <3>4. CASE Approach(r) = "copy"
      BY <1>1, <1>2, <3>4 DEF RunInv, AtPlace
    <3> QED BY <3>3, <3>4
  <2>7. Delivers(r)'
    BY <1>1, <1>2 DEF RunInv, AtPlace, Delivers, NoFiles, Early
  <2>8. Current(r)'
    BY <1>1, <1>2, <1>4, <2>1, <2>4, SameSettings DEF RunInv, Current, Early, Quiet
  <2>9. RunInv(r)'
    BY <2>5, <2>6, <2>7, <2>8 DEF RunInv
  <2>10. writes <= writes' /\ (UnderWay(r)' => UnderWay(r))
    BY <1>1, <1>2, <1>4 DEF UnderWay
  <2> QED BY <1>2, <1>4, <2>1, <2>2, <2>3, <2>9, <2>10, OwnStep
<1> QED BY <1>3, <1>4 DEF AddToContext

LEMMA BuildImageKeeps == ASSUME Inv, NEW r \in Runs, BuildImage(r) PROVE Inv'
<1>1. Typed /\ Boxes /\ RunInv(r) /\ writes \in Nat
  BY DEF Inv, Typed
<1>2. pc[r] = "build" /\ todo[r] = {} /\ Quiet
      /\ UNCHANGED <<set, box, files, base, touched, todo, command, failed, writes, flakes,
                     stale, wrote>>
  BY DEF BuildImage
<1>3. CASE Fails(r) /\ UNCHANGED daemon
  <2>1. Goto(r, "done") /\ result' = [result EXCEPT ![r] = "error"] /\ alive' \subseteq alive
    BY <1>3 DEF Fails
  <2>2. failed' \in [Runs -> BOOLEAN] /\ flakes' \in Nat
    BY <1>1, <1>2 DEF Typed
  <2> QED BY <1>2, <1>3, <2>1, <2>2, LeaveStep
<1>4. CASE Goto(r, "create") /\ images' = [images EXCEPT ![Config(r)] = base[r]]
           /\ UNCHANGED <<result, alive>>
  <2>1. pc'[r] = "create" /\ \A q \in Runs \ {r} : pc'[q] = pc[q]
    BY <1>1, <1>4 DEF Typed
  <2>2. Typed'
    <3>1. images' \in [Configs -> Files]
      BY <1>1, <1>4 DEF Typed
    <3> QED BY <1>1, <1>2, <1>4, <3>1, FilesFacts DEF Typed, Quiet, Places
  <2>3. Boxes'
    BY <1>1, <1>2, <1>4, <2>1, BoxesKeep DEF Early, Typed
  <2>4. Own(r)' => Own(r)
    BY <1>2 DEF Own
  <2>5. AtPlace(r)'
    BY <1>1, <1>2, <2>1, SameSettings DEF RunInv, AtPlace, Early
  <2>6. Starts(r)'
    BY <1>1, <1>2, <2>1, <2>4, SameSettings DEF RunInv, Starts, Pending, Quiet
  <2>7. Delivers(r)'
    BY <1>1, <1>2 DEF RunInv, AtPlace, Delivers, NoFiles, Early
  <2>8. Current(r)'
    BY <1>1, <1>2, <2>1, <2>4, SameSettings DEF RunInv, Current, Early, Quiet
  <2>9. RunInv(r)'
    BY <2>5, <2>6, <2>7, <2>8 DEF RunInv
  <2>10. writes <= writes' /\ (UnderWay(r)' => UnderWay(r))
    BY <1>1, <1>2 DEF UnderWay
  <2> QED BY <1>2, <1>4, <2>1, <2>2, <2>3, <2>9, <2>10, OwnStep
<1> QED BY <1>3, <1>4 DEF BuildImage

LEMMA CreateKeeps == ASSUME Inv, NEW r \in Runs, Create(r) PROVE Inv'
<1>1. Typed /\ Boxes /\ RunInv(r) /\ writes \in Nat
  BY DEF Inv, Typed
<1>2. pc[r] = "create" /\ Quiet /\ alive' = alive \cup {r}
      /\ files' = [files EXCEPT ![r] = base[r]] /\ touched' = [touched EXCEPT ![r] = {}]
      /\ UNCHANGED <<set, daemon, box, base, result, command, failed, writes, flakes, stale,
                     wrote>>
  BY DEF Create
<1>3. box[r] = r
  BY <1>1, <1>2 DEF Typed, Boxes, Early
<1>4. PICK copy \in BOOLEAN : copy <=> (Approach(r) = "copy" /\ set[r].linux)
  OBVIOUS
<1>5. /\ copy => pc' = [pc EXCEPT ![r] = "copyin"]
                 /\ todo' = [todo EXCEPT ![r] = DOMAIN Entries]
      /\ ~copy => pc' = [pc EXCEPT ![r] = "ready"] /\ todo' = todo
  BY <1>4 DEF Create
<1>6. /\ copy => pc'[r] = "copyin" /\ todo'[r] = DOMAIN Entries
      /\ ~copy => pc'[r] = "ready" /\ todo'[r] = todo[r]
      /\ files'[r] = base[r]
      /\ \A q \in Runs \ {r} : pc'[q] = pc[q] /\ todo'[q] = todo[q] /\ files'[q] = files[q]
                               /\ touched'[q] = touched[q]
  BY <1>1, <1>2, <1>5 DEF Typed
<1>7. Typed'
  <2>1. files' \in [Runs -> Files] /\ touched' \in [Runs -> SUBSET Leaves]
    BY <1>1, <1>2 DEF Typed
  <2>2. todo' \in [Runs -> SUBSET DOMAIN Entries] /\ pc' \in [Runs -> Places]
    <3>1. CASE copy
      <4>1. pc' = [pc EXCEPT ![r] = "copyin"] /\ pc \in [Runs -> Places]
        BY <1>1, <1>5, <3>1 DEF Typed
      <4>2. todo' = [todo EXCEPT ![r] = DOMAIN Entries]
            /\ todo \in [Runs -> SUBSET DOMAIN Entries]
        BY <1>1, <1>5, <3>1 DEF Typed
      <4>3. pc' \in [Runs -> Places]
        BY <4>1 DEF Places
      <4> QED BY <4>2, <4>3
    <3>2. CASE ~copy
      BY <1>1, <1>5, <3>2 DEF Typed, Places
    <3> QED BY <3>1, <3>2
  <2> QED BY <1>1, <1>2, <2>1, <2>2, FilesFacts DEF Typed, Quiet, daemon
<1>8. Boxes'
  <2>1. ASSUME NEW q \in alive' PROVE box'[q] = q /\ pc'[q] \notin Early
    BY <1>1, <1>2, <1>3, <1>6 DEF Boxes, Early, Typed
  <2>2. ASSUME NEW q \in Runs, NEW s \in Runs, q # s, box'[q] = s
        PROVE  pc'[s] \notin Early /\ box'[s] = s /\ stale'[q]
               /\ pc'[q] \notin Early \cup {"copyin"}
    <3>1. pc[s] \notin Early /\ box[s] = s /\ stale[q] /\ pc[q] \notin Early \cup {"copyin"}
      BY <1>1, <1>2, <2>2 DEF Boxes
    <3>2. q # r /\ s # r
      BY <1>2, <3>1 DEF Early
    <3> QED BY <1>2, <1>6, <3>1, <3>2
  <2> QED BY <2>1, <2>2 DEF Boxes
<1>9. AtPlace(r)'
  BY <1>1, <1>2, <1>4, <1>6, SameSettings DEF RunInv, AtPlace, Early
<1>10. Own(r)' => Own(r)
  BY <1>2 DEF Own
<1>11. Starts(r)'
  <2> SUFFICES ASSUME Starts(r), ~stale[r], Own(r), set[r].linux, command[r] = 0,
                      NEW l \in Leaves
               PROVE  /\ Approach(r) = "copy" =>
                           files'[r][l] = Absent /\ Pending(r, l)' /\ pc'[r] = "copyin"
                      /\ Approach(r) = "add" => files'[r][l] \in since[r][l]
    <3>1. Starts(r) /\ set' = set /\ stale' = stale /\ command' = command /\ since' = since
      BY <1>1, <1>2 DEF RunInv, Quiet
    <3>2. pc'[r] \notin {"build", "create"}
      BY <1>6
    <3> QED BY <3>1, <3>2, <1>10, SameSettings DEF Starts
  <2>1. Approach(r) = "copy" => files'[r][l] = Absent /\ Pending(r, l)' /\ pc'[r] = "copyin"
    <3>1. Approach(r) = "copy" => copy
      BY <1>4
    <3>2. copy => Pending(r, l)' /\ pc'[r] = "copyin"
      BY <1>6, EntryFacts DEF Pending
    <3>3. Approach(r) = "copy" => files'[r][l] = Absent
      BY <1>2, <1>6 DEF Starts
    <3> QED BY <3>1, <3>2, <3>3
  <2>2. Approach(r) = "add" => files'[r][l] \in since[r][l]
    BY <1>2, <1>6 DEF Starts
  <2> QED BY <2>1, <2>2
<1>12. Delivers(r)'
  BY <1>1, <1>2 DEF RunInv, AtPlace, Delivers, NoFiles, Early
<1>13. Current(r)'
  <2>1. pc'[r] \notin Early
    BY <1>6 DEF Early
  <2> QED BY <1>1, <1>2, <1>6, <1>10, <2>1, SameSettings DEF RunInv, Current, Early, Quiet
<1>14. RunInv(r)'
  BY <1>9, <1>11, <1>12, <1>13 DEF RunInv
<1>15. writes <= writes' /\ (UnderWay(r)' => UnderWay(r))
  BY <1>1, <1>2 DEF UnderWay
<1> QED BY <1>2, <1>3, <1>6, <1>7, <1>8, <1>14, <1>15, OwnStep

LEMMA CopyInKeeps == ASSUME Inv, NEW r \in Runs, CopyIn(r) PROVE Inv'
<1>1. Typed /\ Boxes /\ RunInv(r) /\ writes \in Nat
  BY DEF Inv, Typed
<1>2. pc[r] = "copyin" /\ Quiet /\ flakes' \in Nat /\ box[r] = r
      /\ UNCHANGED <<set, daemon, box, base, command, failed, writes, stale, wrote>>
  <2>1. pc[r] = "copyin"
    BY DEF CopyIn
  <2>2. box[r] = r
    BY <1>1, <2>1 DEF Typed, Boxes
  <2>3. flakes' \in Nat
    BY <1>1 DEF CopyIn, Typed
  <2> QED BY <2>2, <2>3 DEF CopyIn
<1>3. CASE Fails(r) /\ UNCHANGED <<files, touched, todo>>
  <2>1. Goto(r, "done") /\ result' = [result EXCEPT ![r] = "error"] /\ alive' \subseteq alive
    BY <1>3 DEF Fails
  <2>2. failed' \in [Runs -> BOOLEAN]
    BY <1>1, <1>2 DEF Typed
  <2> QED BY <1>2, <1>3, <2>1, <2>2, LeaveStep
<1>4. ASSUME NEW i \in todo[r], NEW S \in SUBSET Leaves,
             \A l \in Of(Entries[i]) \ S : host[l] = Absent \/ l \in Renamed,
             S \subseteq Of(Entries[i]), Arrive(r, S),
             todo' = [todo EXCEPT ![r] = @ \ {i}],
             Goto(r, IF todo[r] = {i} THEN "ready" ELSE "copyin"), UNCHANGED <<result, alive>>
      PROVE  Inv'
  <2>1. /\ \A l \in Leaves : files'[r][l] = IF l \in S THEN host[l] ELSE files[r][l]
        /\ touched' \in [Runs -> SUBSET Leaves] /\ files' \in [Runs -> Files]
        /\ \A q \in Runs \ {r} : files'[q] = files[q] /\ touched'[q] = touched[q]
    <3>1. files' = [files EXCEPT ![r] = [l \in Leaves |-> IF l \in S THEN host[l] ELSE @[l]]]
          /\ touched' = [touched EXCEPT ![r] = @ \cup S]
      BY <1>2, <1>4 DEF Arrive
    <3>2. [l \in Leaves |-> IF l \in S THEN host[l] ELSE files[r][l]] \in Files
      BY <1>1 DEF Typed, Files
    <3> QED BY <1>1, <3>1, <3>2 DEF Typed
  <2>2. /\ pc'[r] = IF todo[r] = {i} THEN "ready" ELSE "copyin"
        /\ todo'[r] = todo[r] \ {i}
        /\ \A q \in Runs \ {r} : pc'[q] = pc[q] /\ todo'[q] = todo[q]
    BY <1>1, <1>4 DEF Typed
  <2>3. Typed'
    BY <1>1, <1>2, <1>4, <2>1, FilesFacts DEF Typed, Quiet, Places, daemon
  <2>4. Boxes'
    BY <1>1, <1>2, <1>4, <2>2, BoxesKeep DEF Early, Typed
  <2>5. Own(r)' => Own(r)
    BY <1>2 DEF Own
  <2>6. AtPlace(r)'
    BY <1>1, <1>2, <2>2, SameSettings DEF RunInv, AtPlace, Early
  <2>7. Starts(r)'
    <3> SUFFICES ASSUME Starts(r), ~stale[r], Own(r), set[r].linux, command[r] = 0,
                        Approach(r) = "copy", NEW l \in Leaves
                 PROVE  \/ files'[r][l] \in since[r][l]
                        \/ files'[r][l] = Absent /\ (l \in Renamed \/ Pending(r, l)')
      <4>1. Approach(r) # "add"
        BY <1>1, <1>2 DEF RunInv, AtPlace
      <4>2. todo[r] = {i} => \A l \in Leaves : ~Pending(r, l)'
        BY <2>2 DEF Pending
      <4> QED BY <1>1, <1>2, <2>2, <2>5, <4>1, <4>2, SameSettings DEF RunInv, Starts, Quiet
    <3>1. host[l] \in since[r][l]
      BY <1>2 DEF Inv, Remembered, UnderWay
    <3>2. \/ files[r][l] \in since[r][l]
          \/ files[r][l] = Absent /\ (l \in Renamed \/ Pending(r, l))
      BY <1>2 DEF Starts
    <3>3. Pending(r, l) => Pending(r, l)' \/ l \in Of(Entries[i])
      BY <2>2 DEF Pending, Of
    <3> QED BY <1>4, <2>1, <3>1, <3>2, <3>3
  <2>8. Delivers(r)'
    BY <1>1, <1>2 DEF RunInv, AtPlace, Delivers, NoFiles, Early
  <2>9. Current(r)'
    BY <1>1, <1>2, <2>1, <2>2, <2>5, SameSettings DEF RunInv, Current, Early, Quiet
  <2>10. RunInv(r)'
    BY <2>6, <2>7, <2>8, <2>9 DEF RunInv
  <2>11. writes <= writes' /\ (UnderWay(r)' => UnderWay(r))
    BY <1>1, <1>2 DEF UnderWay
  <2> QED BY <1>2, <1>4, <2>1, <2>2, <2>3, <2>4, <2>10, <2>11, OwnStep
<1>5. PICK flaky \in BOOLEAN, i \in todo[r] :
        \/ Fails(r) /\ UNCHANGED <<files, touched, todo>>
        \/ /\ Arrive(r, {l \in Of(Entries[i]) : host[l] # Absent /\ (l \in Renamed => flaky)})
           /\ todo' = [todo EXCEPT ![r] = @ \ {i}]
           /\ Goto(r, IF todo[r] = {i} THEN "ready" ELSE "copyin")
           /\ UNCHANGED <<result, alive>>
  BY DEF CopyIn
<1>6. {l \in Of(Entries[i]) : host[l] # Absent /\ (l \in Renamed => flaky)} \in SUBSET Leaves
  BY DEF Of
<1> QED BY <1>3, <1>4, <1>5, <1>6

LEMMA StartCommandKeeps == ASSUME Inv, NEW r \in Runs, StartCommand(r) PROVE Inv'
<1>1. Typed /\ Boxes /\ RunInv(r) /\ writes \in Nat
  BY DEF Inv, Typed
<1>2. pc[r] = "ready" /\ Quiet /\ pc' = [pc EXCEPT ![r] = "running"]
      /\ command' = [command EXCEPT ![r] = @ + 1]
      /\ UNCHANGED <<set, daemon, box, files, base, touched, alive, result, todo, failed, writes,
                     flakes, stale, wrote>>
  BY DEF StartCommand, container
<1>3. pc'[r] = "running" /\ command'[r] = command[r] + 1 /\ command'[r] # 0
      /\ \A q \in Runs \ {r} : pc'[q] = pc[q] /\ command'[q] = command[q]
  BY <1>1, <1>2 DEF Typed
<1>4. Typed'
  <2>1. command' \in [Runs -> Nat]
    BY <1>1, <1>2 DEF Typed
  <2> QED BY <1>1, <1>2, <2>1, FilesFacts DEF Typed, Quiet, Places, daemon
<1>5. Boxes'
  BY <1>1, <1>2, <1>3, BoxesKeep DEF Early, Typed
<1>6. Own(r)' => Own(r)
  BY <1>2 DEF Own
<1>7. AtPlace(r)'
  BY <1>1, <1>2, <1>3, SameSettings DEF RunInv, AtPlace, Early
<1>8. Starts(r)'
  BY <1>3 DEF Starts
<1>9. Delivers(r)'
  BY <1>1, <1>2, <1>6, SameSettings DEF RunInv, Delivers, Held, Quiet
<1>10. Current(r)'
  BY <1>1, <1>2, <1>3, <1>6, SameSettings DEF RunInv, Current, Early, Quiet
<1>11. RunInv(r)'
  BY <1>7, <1>8, <1>9, <1>10 DEF RunInv
<1>12. writes <= writes' /\ (UnderWay(r)' => UnderWay(r))
  BY <1>1, <1>2 DEF UnderWay
<1> QED BY <1>2, <1>3, <1>4, <1>5, <1>11, <1>12, OwnStep

LEMMA EndCommandKeeps == ASSUME Inv, NEW r \in Runs, EndCommand(r) PROVE Inv'
<1>1. Typed /\ Boxes /\ RunInv(r) /\ writes \in Nat
  BY DEF Inv, Typed
<1>2. pc[r] = "running" /\ Quiet /\ failed' \in [Runs -> BOOLEAN]
      /\ UNCHANGED <<set, daemon, box, files, base, touched, command, writes, flakes, stale,
                     wrote>>
  <2>1. failed' \in [Runs -> BOOLEAN]
    BY <1>1 DEF EndCommand, Typed
  <2> QED BY <2>1 DEF EndCommand
<1>3. command[r] # 0 /\ (Own(r)' => Own(r))
  BY <1>1, <1>2 DEF RunInv, AtPlace, Own
<1>4. CASE Copies(r) /\ Goto(r, "copyback") /\ UNCHANGED <<result, alive>>
           /\ todo' = [todo EXCEPT ![r] = ToCopyBack(box[r])]
  <2>1. pc'[r] = "copyback" /\ todo'[r] = ToCopyBack(box[r])
        /\ \A q \in Runs \ {r} : pc'[q] = pc[q] /\ todo'[q] = todo[q]
    BY <1>1, <1>4 DEF Typed
  <2>2. Typed'
    <3>1. ToCopyBack(box[r]) \in SUBSET DOMAIN Entries
      BY DEF ToCopyBack
    <3>2. todo' \in [Runs -> SUBSET DOMAIN Entries]
      BY <1>1, <1>4, <3>1 DEF Typed
    <3> QED BY <1>1, <1>2, <1>4, <3>2, FilesFacts DEF Typed, Quiet, Places, daemon
  <2>3. Boxes'
    BY <1>1, <1>2, <1>4, <2>1, BoxesKeep DEF Early, Typed
  <2>4. AtPlace(r)'
    <3>1. \A i \in todo'[r] : Writable(Entries[i])
      BY <2>1 DEF ToCopyBack, Writable
    <3> QED BY <1>1, <1>2, <1>3, <1>4, <2>1, <3>1, SameSettings DEF RunInv, AtPlace, Early
  <2>5. Starts(r)'
    BY <1>2, <1>3 DEF Starts
  <2>6. Delivers(r)'
    <3> SUFFICES ASSUME Own(r), NEW l \in Leaves \ (ReadOnly \cup FileVolumes),
                        wrote[r][l] # Absent, Held(r, l)
                 PROVE  Pending(r, l)'
      BY <1>1, <1>2, <1>3, <1>4, <2>1, SameSettings DEF RunInv, Delivers, Held, Quiet
    <3>1. PICK i \in DOMAIN Entries : Entries[i] = EntryOf[l]
      BY EntryFacts
    <3>2. box[r] = r /\ l \in touched[r] /\ files[r][l] # Absent
      BY DEF Own, Held
    <3>3. Differs(r, Entries[i])
      BY <3>1, <3>2 DEF Differs, Of
    <3>4. Of(Entries[i]) \cap (ReadOnly \cup FileVolumes) = {}
      BY <3>1, EntryFacts DEF Of
    <3> QED BY <2>1, <3>1, <3>2, <3>3, <3>4 DEF Pending, ToCopyBack
  <2>7. Current(r)'
    BY <1>1, <1>2, <1>3, <2>1, SameSettings DEF RunInv, Current, Early, Quiet
  <2>8. RunInv(r)'
    BY <2>4, <2>5, <2>6, <2>7 DEF RunInv
  <2>9. writes <= writes' /\ (UnderWay(r)' => UnderWay(r))
    BY <1>1, <1>2 DEF UnderWay
  <2> QED BY <1>2, <1>4, <2>1, <2>2, <2>3, <2>8, <2>9, OwnStep
<1>5. CASE Returns(r, "error") /\ UNCHANGED todo
  <2>1. Goto(r, "done") /\ result' = [result EXCEPT ![r] = "error"] /\ alive' \subseteq alive
    BY <1>5 DEF Returns
  <2>2. flakes' \in Nat
    BY <1>1, <1>2 DEF Typed
  <2> QED BY <1>2, <1>5, <2>1, <2>2, LeaveStep
<1>6. CASE ~Copies(r) /\ Goto(r, "ready") /\ UNCHANGED <<result, alive, todo>>
  <2>1. pc'[r] = "ready" /\ \A q \in Runs \ {r} : pc'[q] = pc[q]
    BY <1>1, <1>6 DEF Typed
  <2>2. Typed'
    BY <1>1, <1>2, <1>6, FilesFacts DEF Typed, Quiet, Places, daemon
  <2>3. Boxes'
    BY <1>1, <1>2, <1>6, <2>1, BoxesKeep DEF Early, Typed
  <2>4. AtPlace(r)'
    BY <1>1, <1>2, <1>3, <2>1, SameSettings DEF RunInv, AtPlace, Early
  <2>5. Starts(r)'
    BY <1>2, <1>3 DEF Starts
  <2>6. Delivers(r)'
    <3>1. set[r].linux \/ HasMounts(r) => HasMounts(r)
      BY <1>1, <1>6, SettingFacts DEF Copies, HasMounts
    <3> QED BY <1>1, <1>2, <1>3, <2>1, <3>1, SameSettings DEF RunInv, Delivers, Held, Quiet
  <2>7. Current(r)'
    BY <1>6, <1>2, SameSettings DEF Current
  <2>8. RunInv(r)'
    BY <2>4, <2>5, <2>6, <2>7 DEF RunInv
  <2>9. writes <= writes' /\ (UnderWay(r)' => UnderWay(r))
    BY <1>1, <1>2 DEF UnderWay
  <2> QED BY <1>2, <1>6, <2>1, <2>2, <2>3, <2>8, <2>9, OwnStep
<1>7. \/ /\ Copies(r) /\ Goto(r, "copyback") /\ UNCHANGED <<result, alive>>
         /\ todo' = [todo EXCEPT ![r] = ToCopyBack(box[r])]
      \/ Returns(r, "error") /\ UNCHANGED todo
      \/ ~Copies(r) /\ Goto(r, "ready") /\ UNCHANGED <<result, alive, todo>>
  BY DEF EndCommand
<1> QED BY <1>4, <1>5, <1>6, <1>7

LEMMA BeginKeeps == ASSUME Inv, NEW r \in Runs, Begin(r) PROVE Inv'
<1>1. Typed /\ Remembered /\ Boxes /\ writes \in Nat /\ \A q \in Runs : RunInv(q)
  BY DEF Inv, Typed
<1>2. pc[r] = "idle" /\ since' = [since EXCEPT ![r] = [l \in Leaves |-> {host[l]}]]
      /\ UNCHANGED <<set, host, daemon, files, base, touched, result, todo, command, failed,
                     writes, flakes, had, overtaken, wrote>>
  BY DEF Begin
<1>3. box[r] = r /\ ~stale[r] /\ base[r] = NoFiles /\ command[r] = 0 /\ wrote[r] = NoFiles
  <2>1. AtPlace(r)
    BY <1>1 DEF RunInv
  <2> QED BY <1>1, <1>2, <2>1 DEF Typed, Boxes, Early, AtPlace
<1>4. /\ since' \in [Runs -> [Leaves -> SUBSET Nat]]
      /\ \A l \in Leaves : since'[r][l] = {host[l]}
      /\ \A q \in Runs \ {r} : since'[q] = since[q]
  <2>1. [l \in Leaves |-> {host[l]}] \in [Leaves -> SUBSET Nat]
    BY <1>1 DEF Typed, Files
  <2> QED BY <1>1, <1>2, <2>1 DEF Typed
<1>5. Remembered'
  <2>1. ASSUME NEW q \in Runs, NEW l \in Leaves, UnderWay(q)' PROVE host'[l] \in since'[q][l]
    <3>1. CASE q = r
      BY <1>2, <1>4, <3>1
    <3>2. CASE q # r
      <4>1. pc'[q] = pc[q]
        BY <1>1, <3>2 DEF Begin, Typed
      <4> QED BY <1>1, <1>2, <1>4, <2>1, <3>2, <4>1 DEF Remembered, UnderWay
    <3> QED BY <3>1, <3>2
  <2> QED BY <1>1, <1>2, <2>1 DEF Remembered
<1>6. ASSUME NEW q \in Runs \ {r}, pc'[q] = pc[q], stale'[q] = stale[q], Own(q)' => Own(q)
      PROVE  RunInv(q)'
  BY <1>1, <1>2, <1>4, <1>6, RunKeeps
<1>7. Delivers(r)'
  BY <1>2, <1>3 DEF Delivers, NoFiles
<1>8. ASSUME NEW s \in alive, pc' = [pc EXCEPT ![r] = "ready"], box' = [box EXCEPT ![r] = s],
             stale' = [stale EXCEPT ![r] = TRUE], UNCHANGED alive
      PROVE  Inv'
  <2>1. s \in Runs /\ box[s] = s /\ pc[s] \notin Early /\ s # r
    BY <1>1, <1>2 DEF Typed, Boxes, Early
  <2>2. pc'[r] = "ready" /\ box'[r] = s /\ stale'[r]
        /\ \A q \in Runs \ {r} : pc'[q] = pc[q] /\ box'[q] = box[q] /\ stale'[q] = stale[q]
    BY <1>1, <1>8 DEF Typed
  <2>3. Typed'
    <3>1. box' \in [Runs -> Runs] /\ stale' \in [Runs -> BOOLEAN] /\ pc' \in [Runs -> Places]
      BY <1>1, <1>8, <2>1 DEF Typed, Places
    <3> QED BY <1>1, <1>2, <1>4, <1>8, <3>1, FilesFacts DEF Typed, daemon
  <2>4. Boxes'
    <3>1. ASSUME NEW q \in alive' PROVE box'[q] = q /\ pc'[q] \notin Early
      BY <1>1, <1>2, <1>8, <2>2 DEF Boxes, Early, Typed
    <3>2. ASSUME NEW q \in Runs, NEW t \in Runs, q # t, box'[q] = t
          PROVE  pc'[t] \notin Early /\ box'[t] = t /\ stale'[q]
                 /\ pc'[q] \notin Early \cup {"copyin"}
      <4>1. CASE q = r
        BY <2>1, <2>2, <3>2, <4>1 DEF Early
      <4>2. CASE q # r
        <5>1. pc[t] \notin Early /\ box[t] = t /\ stale[q] /\ pc[q] \notin Early \cup {"copyin"}
          BY <1>1, <2>2, <3>2, <4>2 DEF Boxes
        <5>2. t # r
          BY <1>2, <5>1 DEF Early
        <5> QED BY <2>2, <4>2, <5>1, <5>2
      <4> QED BY <4>1, <4>2
    <3> QED BY <3>1, <3>2 DEF Boxes
  <2>5. ASSUME NEW q \in Runs \ {r} PROVE RunInv(q)'
    <3>1. Own(q)' => Own(q)
      BY <1>3, <2>2 DEF Own
    <3> QED BY <1>6, <2>2, <3>1
  <2>6. AtPlace(r)' /\ Starts(r)' /\ Current(r)'
    BY <2>2 DEF AtPlace, Starts, Current, Early
  <2>7. RunInv(r)'
    BY <1>7, <2>6 DEF RunInv
  <2> QED BY <1>5, <2>3, <2>4, <2>5, <2>7 DEF Inv
<1>9. ASSUME Goto(r, IF set[r].linux THEN "find" ELSE "create"), alive' \subseteq alive,
             UNCHANGED <<box, stale>>
      PROVE  Inv'
  <2>1. pc'[r] \in {"find", "create"} /\ (pc'[r] = "find" => set[r].linux)
        /\ (pc'[r] = "create" => ~set[r].linux)
        /\ \A q \in Runs \ {r} : pc'[q] = pc[q]
    BY <1>1, <1>9, SettingFacts DEF Typed
  <2>2. Typed'
    <3>1. pc' \in [Runs -> Places]
      BY <1>1, <1>9 DEF Typed, Places
    <3> QED BY <1>1, <1>2, <1>4, <1>9, <3>1, FilesFacts DEF Typed, daemon
  <2>3. Boxes'
    <3>1. r \notin alive
      BY <1>1, <1>2 DEF Boxes, Early
    <3>2. ASSUME NEW q \in alive' PROVE box'[q] = q /\ pc'[q] \notin Early
      BY <1>1, <1>9, <2>1, <3>1 DEF Boxes, Typed
    <3>3. ASSUME NEW q \in Runs, NEW t \in Runs, q # t, box'[q] = t
          PROVE  pc'[t] \notin Early /\ box'[t] = t /\ stale'[q]
                 /\ pc'[q] \notin Early \cup {"copyin"}
      <4>1. pc[t] \notin Early /\ box[t] = t /\ stale[q] /\ pc[q] \notin Early \cup {"copyin"}
        BY <1>1, <1>9, <3>3 DEF Boxes
      <4>2. t # r /\ q # r
        BY <1>2, <4>1 DEF Early
      <4> QED BY <1>9, <2>1, <4>1, <4>2
    <3> QED BY <3>2, <3>3 DEF Boxes
  <2>4. ASSUME NEW q \in Runs \ {r} PROVE RunInv(q)'
    BY <1>6, <1>9, <2>1 DEF Own
  <2>5. AtPlace(r)' /\ Starts(r)'
    BY <1>2, <1>3, <1>9, <2>1 DEF AtPlace, Starts
  <2>6. Current(r)'
    BY <1>2, <1>3, <2>1 DEF Current, NoFiles
  <2>7. RunInv(r)'
    BY <1>7, <2>5, <2>6 DEF RunInv
  <2> QED BY <1>5, <2>2, <2>3, <2>4, <2>7 DEF Inv
<1>10. \/ \E s \in alive : /\ pc' = [pc EXCEPT ![r] = "ready"] /\ box' = [box EXCEPT ![r] = s]
                           /\ stale' = [stale EXCEPT ![r] = TRUE] /\ UNCHANGED alive
       \/ /\ Goto(r, IF set[r].linux THEN "find" ELSE "create")
          /\ alive' \subseteq alive /\ UNCHANGED <<box, stale>>
  BY DEF Begin
<1> QED BY <1>8, <1>9, <1>10

\* What follows from a change of the host.
LEMMA HostKeeps ==
  ASSUME Inv, NEW by \in Runs \cup {Somebody}, NEW h \in Files', HostBecomes(h, by),
         writes' \in Nat, writes <= writes',
         \A q \in Runs : pc'[q] = pc[q]
  PROVE  /\ host' \in Files' /\ had' \in [Leaves -> SUBSET Nat]
         /\ since' \in [Runs -> [Leaves -> SUBSET Nat]] /\ overtaken' \in [Runs -> BOOLEAN]
         /\ Remembered'
         /\ \A q \in Runs, l \in Leaves :
              had[l] \subseteq had'[l] /\ since[q][l] \subseteq since'[q][l] /\ h[l] \in had'[l]
         /\ \A q \in Runs :
              /\ overtaken[q] => overtaken'[q]
              /\ q # by => \/ overtaken'[q] \/ ~UnderWay(q)
                           \/ \A l \in Leaves : host'[l] = host[l] /\ had'[l] = had[l]
<1>1. Typed /\ Remembered /\ writes \in Nat
  BY DEF Inv, Typed
<1>2. host' = h /\ had' = [l \in Leaves |-> had[l] \cup {h[l]}]
      /\ since' = [q \in Runs |-> IF UnderWay(q) THEN [l \in Leaves |-> since[q][l] \cup {h[l]}]
                                                 ELSE since[q]]
      /\ overtaken' = [q \in Runs |-> overtaken[q] \/ (UnderWay(q) /\ q # by /\ h # host)]
  BY DEF HostBecomes
<1>3. \A l \in Leaves : h[l] \in Nat /\ h[l] <= writes'
  BY DEF Files
<1>4. had' \in [Leaves -> SUBSET Nat] /\ overtaken' \in [Runs -> BOOLEAN]
  BY <1>1, <1>2, <1>3 DEF Typed
<1>5. since' \in [Runs -> [Leaves -> SUBSET Nat]]
  <2>1. ASSUME NEW q \in Runs
        PROVE  [l \in Leaves |-> since[q][l] \cup {h[l]}] \in [Leaves -> SUBSET Nat]
    BY <1>1, <1>3 DEF Typed
  <2>2. ASSUME NEW q \in Runs
        PROVE  (IF UnderWay(q) THEN [l \in Leaves |-> since[q][l] \cup {h[l]}] ELSE since[q])
                 \in [Leaves -> SUBSET Nat]
    BY <1>1, <2>1 DEF Typed
  <2> QED BY <1>2, <2>2
<1>6. /\ \A l \in Leaves : had'[l] = had[l] \cup {h[l]}
      /\ \A q \in Runs, l \in Leaves :
           since'[q][l] = IF UnderWay(q) THEN since[q][l] \cup {h[l]} ELSE since[q][l]
  BY <1>2
<1>7. Remembered'
  <2>1. ASSUME NEW l \in Leaves, NEW v \in had'[l] PROVE v <= writes'
    <3>1. CASE v = h[l]
      BY <1>3, <3>1
    <3>2. CASE v \in had[l]
      BY <1>1, <3>2 DEF Remembered, Typed
    <3> QED BY <1>6, <2>1, <3>1, <3>2
  <2>2. ASSUME NEW q \in Runs, NEW l \in Leaves, UnderWay(q)' PROVE host'[l] \in since'[q][l]
    BY <1>2, <1>6, <2>2 DEF UnderWay
  <2>3. \A l \in Leaves : host'[l] \in had'[l]
    BY <1>2, <1>6
  <2> QED BY <2>1, <2>2, <2>3 DEF Remembered
<1>8. ASSUME NEW q \in Runs
      PROVE  /\ overtaken[q] => overtaken'[q]
             /\ q # by => \/ overtaken'[q] \/ ~UnderWay(q)
                          \/ \A l \in Leaves : host'[l] = host[l] /\ had'[l] = had[l]
  <2>1. overtaken'[q] <=> (overtaken[q] \/ (UnderWay(q) /\ q # by /\ h # host))
    BY <1>1, <1>2 DEF Typed
  <2>2. h = host => \A l \in Leaves : host'[l] = host[l] /\ had'[l] = had[l]
    BY <1>1, <1>2, <1>6 DEF Remembered
  <2> QED BY <2>1, <2>2
<1> QED BY <1>2, <1>4, <1>5, <1>6, <1>7, <1>8

LEMMA MoreWrites ==
  ASSUME Typed, writes' \in Nat, writes <= writes' PROVE Files \subseteq Files'
<1>1. 0..writes \subseteq 0..writes'
  BY DEF Typed
<1> QED BY <1>1 DEF Files

LEMMA EditHostKeeps == ASSUME Inv, NEW l \in Edited, EditHost(l) PROVE Inv'
<1>1. Typed /\ Boxes /\ writes \in Nat /\ l \in Leaves
  BY ConstantsAssumption DEF Inv, Typed
<1>2. writes' = writes + 1
      /\ UNCHANGED <<set, built, images, box, files, base, touched, alive, pc, result, todo,
                     command, failed, flakes, stale, wrote>>
  BY DEF EditHost, daemon, container, flow
<1>3. PICK v \in {Absent, writes + 1} : HostBecomes([host EXCEPT ![l] = v], Somebody)
  BY DEF EditHost
<1>4. [host EXCEPT ![l] = v] \in Files'
  <2>1. v \in 0..writes'
    BY <1>1, <1>2 DEF Absent
  <2>2. host \in Files'
    BY <1>1, <1>2, MoreWrites DEF Typed
  <2> QED BY <2>1, <2>2 DEF Files
<1>5. /\ host' \in Files' /\ had' \in [Leaves -> SUBSET Nat]
      /\ since' \in [Runs -> [Leaves -> SUBSET Nat]] /\ overtaken' \in [Runs -> BOOLEAN]
      /\ Remembered'
      /\ \A q \in Runs, m \in Leaves : had[m] \subseteq had'[m] /\ since[q][m] \subseteq since'[q][m]
      /\ \A q \in Runs :
           /\ overtaken[q] => overtaken'[q]
           /\ q # Somebody => \/ overtaken'[q] \/ ~UnderWay(q)
                              \/ \A m \in Leaves : host'[m] = host[m] /\ had'[m] = had[m]
  BY <1>1, <1>2, <1>3, <1>4, HostKeeps
<1>6. Typed'
  <2>1. Files \subseteq Files'
    BY <1>1, <1>2, MoreWrites
  <2>2. images' \in [Configs -> Files'] /\ files' \in [Runs -> Files'] /\ base' \in [Runs -> Files']
        /\ wrote' \in [Runs -> Files']
    BY <1>1, <1>2, <2>1 DEF Typed
  <2> QED BY <1>1, <1>2, <1>5, <2>2 DEF Typed
<1>7. Boxes'
  BY <1>1, <1>2, BoxesKeep DEF Typed
<1>8. ASSUME NEW q \in Runs PROVE RunInv(q)'
  <2>1. q # Somebody /\ RunInv(q)
    BY ConstantsAssumption DEF Somebody, Inv
  <2>2. Own(q)' => Own(q)
    BY <1>2 DEF Own
  <2> QED BY <1>2, <1>5, <2>1, <2>2, RunKeeps
<1> QED BY <1>5, <1>6, <1>7, <1>8 DEF Inv

LEMMA CopyBackKeeps == ASSUME Inv, NEW r \in Runs, CopyBack(r) PROVE Inv'
<1>1. Typed /\ Remembered /\ Boxes /\ RunInv(r) /\ writes \in Nat
  BY DEF Inv, Typed
<1>2. pc[r] = "copyback"
      /\ UNCHANGED <<set, daemon, box, files, base, touched, command, failed, writes, flakes,
                     stale, wrote>>
  BY DEF CopyBack
<1>3. CASE Returns(r, "error") /\ Quiet /\ UNCHANGED todo
  <2>1. Goto(r, "done") /\ result' = [result EXCEPT ![r] = "error"] /\ alive' \subseteq alive
    BY <1>3 DEF Returns
  <2>2. failed' \in [Runs -> BOOLEAN] /\ flakes' \in Nat
    BY <1>1, <1>2 DEF Typed
  <2> QED BY <1>2, <1>3, <2>1, <2>2, LeaveStep
<1>4. ASSUME NEW i \in todo[r], todo' = [todo EXCEPT ![r] = @ \ {i}],
             UNCHANGED <<pc, result, alive>>, NEW h,
             h = [l \in Leaves |-> IF l \in Of(Entries[i]) /\ Box(r)[l] # Absent
                                     THEN Box(r)[l] ELSE host[l]],
             HostBecomes(h, r)
      PROVE  Inv'
  <2>1. h \in Files'
    <3>1. Box(r) \in Files /\ host \in Files
      BY <1>1 DEF Typed, Box
    <3>2. h \in Files
      BY <1>4, <3>1 DEF Files
    <3> QED BY <1>1, <1>2, <3>2, FilesFacts
  <2>2. /\ host' \in Files' /\ had' \in [Leaves -> SUBSET Nat]
        /\ since' \in [Runs -> [Leaves -> SUBSET Nat]] /\ overtaken' \in [Runs -> BOOLEAN]
        /\ Remembered'
        /\ \A q \in Runs, l \in Leaves :
             had[l] \subseteq had'[l] /\ since[q][l] \subseteq since'[q][l] /\ h[l] \in had'[l]
        /\ \A q \in Runs :
             /\ overtaken[q] => overtaken'[q]
             /\ q # r => \/ overtaken'[q] \/ ~UnderWay(q)
                         \/ \A l \in Leaves : host'[l] = host[l] /\ had'[l] = had[l]
    BY <1>1, <1>2, <1>4, <2>1, HostKeeps
  <2>3. host' = h /\ \A l \in Leaves : had'[l] = had[l] \cup {h[l]}
    BY <1>4 DEF HostBecomes
  <2>4. todo'[r] = todo[r] \ {i} /\ \A q \in Runs \ {r} : todo'[q] = todo[q]
    BY <1>1, <1>4 DEF Typed
  <2>5. Typed'
    <3>1. todo' \in [Runs -> SUBSET DOMAIN Entries]
      BY <1>1, <1>4 DEF Typed
    <3> QED BY <1>1, <1>2, <1>4, <2>2, <3>1, FilesFacts DEF Typed, daemon
  <2>6. Boxes'
    BY <1>1, <1>2, <1>4, BoxesKeep DEF Typed
  <2>7. \A q \in Runs : Own(q)' => Own(q)
    BY <1>2 DEF Own
  <2>8. ASSUME NEW q \in Runs \ {r} PROVE RunInv(q)'
    <3>1. RunInv(q)
      BY DEF Inv
    <3> QED BY <1>2, <1>4, <2>2, <2>4, <2>7, <3>1, RunKeeps
  <2>9. AtPlace(r)'
    BY <1>1, <1>2, <1>4, <2>4, SameSettings DEF RunInv, AtPlace, Early
  <2>10. Starts(r)'
    BY <1>1, <1>2 DEF RunInv, AtPlace, Starts
  <2>11. Delivers(r)'
    <3> SUFFICES ASSUME Own(r), NEW l \in Leaves \ (ReadOnly \cup FileVolumes),
                        wrote[r][l] # Absent, Held(r, l)
                 PROVE  wrote[r][l] \in had'[l] \/ Held(r, l)'
      BY <1>1, <1>2, <1>4, <2>2, <2>7, SameSettings DEF RunInv, Delivers
    <3>1. files[r][l] = wrote[r][l] /\ l \in touched[r] /\ Pending(r, l) /\ ~HasMounts(r)
      BY <1>2 DEF Held
    <3>2. CASE l \in Of(Entries[i])
      <4>1. Box(r)[l] = wrote[r][l]
        BY <3>1 DEF Box, Own
      <4> QED BY <1>4, <2>2, <3>2, <4>1
    <3>3. CASE l \notin Of(Entries[i])
      <4>1. Pending(r, l)'
        BY <2>4, <3>1, <3>3 DEF Pending, Of
      <4> QED BY <1>2, <1>4, <3>1, <4>1, SameSettings DEF Held
    <3> QED BY <3>2, <3>3
  <2>12. Current(r)'
    <3> SUFFICES ASSUME ~overtaken[r], ~stale[r], Own(r), Copies(r), NEW l \in Leaves
                 PROVE  files[r][l] \in {Absent, host'[l]} \/ files[r][l] \notin had'[l]
      BY <1>2, <1>4, <2>2, <2>7, SameSettings DEF Current, Early
    <3>1. files[r][l] \in {Absent, host[l]} \/ files[r][l] \notin had[l]
      BY <1>1, <1>2 DEF RunInv, Current
    <3>2. h[l] = IF l \in Of(Entries[i]) /\ files[r][l] # Absent THEN files[r][l] ELSE host[l]
      BY <1>4 DEF Box, Own
    <3>3. host[l] \in had[l]
      BY <1>1 DEF Remembered
    <3> QED BY <2>3, <3>1, <3>2, <3>3
  <2>13. RunInv(r)'
    BY <2>9, <2>10, <2>11, <2>12 DEF RunInv
  <2> QED BY <2>2, <2>5, <2>6, <2>8, <2>13 DEF Inv
<1> QED BY <1>3, <1>4 DEF CopyBack

\* In a container with mounts a command writes on the host, else in its container.
LEMMA WriteKeeps == ASSUME Inv, NEW r \in Runs, NEW l \in Written, Write(r, l) PROVE Inv'
<1>1. Typed /\ Remembered /\ Boxes /\ RunInv(r) /\ writes \in Nat /\ l \in Leaves
  BY ConstantsAssumption DEF Inv, Typed
<1>2. pc[r] = "running" /\ writes' = writes + 1
      /\ UNCHANGED <<set, built, images, box, base, alive, pc, result, todo, command, failed,
                     flakes, stale>>
  BY DEF Write, daemon, flow
<1>3. PICK v \in {Absent, writes + 1} :
        /\ wrote' = [wrote EXCEPT ![r][l] = v]
        /\ \/ /\ HasMounts(r) /\ HostBecomes([host EXCEPT ![l] = v], r)
              /\ UNCHANGED <<files, touched>>
           \/ /\ ~HasMounts(r) /\ Quiet
              /\ files' = [files EXCEPT ![box[r]][l] = v]
              /\ touched' = [touched EXCEPT ![box[r]] = @ \cup {l}]
  BY DEF Write
<1>4. v \in 0..writes' /\ Files \subseteq Files' /\ writes <= writes' /\ writes' \in Nat
  BY <1>1, <1>2, MoreWrites DEF Absent
<1>5. /\ \A m \in Leaves : wrote'[r][m] = IF m = l THEN v ELSE wrote[r][m]
      /\ \A q \in Runs \ {r} : wrote'[q] = wrote[q]
  BY <1>1, <1>3 DEF Typed, Files
<1>6. images' \in [Configs -> Files'] /\ base' \in [Runs -> Files'] /\ wrote' \in [Runs -> Files']
  <2>1. wrote \in [Runs -> Files']
    BY <1>1, <1>4 DEF Typed
  <2>2. wrote' \in [Runs -> Files']
    BY <1>1, <1>3, <1>4, <2>1 DEF Files
  <2> QED BY <1>1, <1>2, <1>4, <2>2 DEF Typed
<1>7. Boxes'
  BY <1>1, <1>2, BoxesKeep DEF Typed
<1>8. \A q \in Runs : Own(q)' => Own(q)
  BY <1>2 DEF Own
<1>9. AtPlace(r)' /\ Starts(r)'
  <2>1. AtPlace(r)'
    BY <1>1, <1>2, SameSettings DEF RunInv, AtPlace, Early
  <2> QED BY <1>1, <1>2, <2>1 DEF RunInv, AtPlace, Starts
<1>10. CASE HasMounts(r) /\ HostBecomes([host EXCEPT ![l] = v], r) /\ UNCHANGED <<files, touched>>
  <2>1. [host EXCEPT ![l] = v] \in Files'
    <3>1. host \in Files'
      BY <1>1, <1>4 DEF Typed
    <3> QED BY <1>4, <3>1 DEF Files
  <2>2. /\ host' \in Files' /\ had' \in [Leaves -> SUBSET Nat]
        /\ since' \in [Runs -> [Leaves -> SUBSET Nat]] /\ overtaken' \in [Runs -> BOOLEAN]
        /\ Remembered'
        /\ \A q \in Runs, m \in Leaves : /\ had[m] \subseteq had'[m]
                                         /\ since[q][m] \subseteq since'[q][m]
                                         /\ [host EXCEPT ![l] = v][m] \in had'[m]
        /\ \A q \in Runs :
             /\ overtaken[q] => overtaken'[q]
             /\ q # r => \/ overtaken'[q] \/ ~UnderWay(q)
                         \/ \A m \in Leaves : host'[m] = host[m] /\ had'[m] = had[m]
    BY <1>1, <1>2, <1>4, <1>10, <2>1, HostKeeps
  <2>3. Typed'
    <3>1. files' \in [Runs -> Files']
      BY <1>1, <1>4, <1>10 DEF Typed
    <3> QED BY <1>1, <1>2, <1>4, <1>6, <1>10, <2>2, <3>1 DEF Typed
  <2>4. ASSUME NEW q \in Runs \ {r} PROVE RunInv(q)'
    <3>1. RunInv(q)
      BY DEF Inv
    <3> QED BY <1>2, <1>5, <1>8, <1>10, <2>2, <3>1, RunKeeps
  <2>5. Delivers(r)'
    <3> SUFFICES ASSUME Own(r), NEW m \in Leaves \ (ReadOnly \cup FileVolumes),
                        wrote'[r][m] # Absent
                 PROVE  wrote'[r][m] \in had'[m]
      BY <1>8 DEF Delivers
    <3>1. CASE m = l
      <4>1. [host EXCEPT ![l] = v][l] = v
        BY <1>1 DEF Typed, Files
      <4> QED BY <1>1, <1>5, <2>2, <3>1, <4>1
    <3>2. CASE m # l
      BY <1>1, <1>2, <1>5, <1>10, <2>2, <3>2 DEF RunInv, Delivers, Held
    <3> QED BY <3>1, <3>2
  <2>6. Current(r)'
    BY <1>2, <1>10, SameSettings DEF Current, Copies, HasMounts
  <2>7. RunInv(r)'
    BY <1>9, <2>5, <2>6 DEF RunInv
  <2> QED BY <1>7, <2>2, <2>3, <2>4, <2>7 DEF Inv
<1>11. CASE /\ ~HasMounts(r) /\ Quiet
            /\ files' = [files EXCEPT ![box[r]][l] = v]
            /\ touched' = [touched EXCEPT ![box[r]] = @ \cup {l}]
  <2>1. box[r] \in Runs /\ files \in [Runs -> Files']
    BY <1>1, <1>4 DEF Typed
  <2>2. /\ files' \in [Runs -> Files'] /\ touched' \in [Runs -> SUBSET Leaves]
        /\ \A q \in Runs \ {box[r]} : files'[q] = files[q] /\ touched'[q] = touched[q]
        /\ \A m \in Leaves : files'[box[r]][m] = IF m = l THEN v ELSE files[box[r]][m]
        /\ touched'[box[r]] = touched[box[r]] \cup {l}
    <3>1. touched' \in [Runs -> SUBSET Leaves]
      BY <1>1, <1>11, <2>1 DEF Typed
    <3>2. files' \in [Runs -> Files']
      BY <1>1, <1>4, <1>11, <2>1 DEF Files
    <3>3. \A m \in Leaves : files'[box[r]][m] = IF m = l THEN v ELSE files[box[r]][m]
      BY <1>1, <1>11, <2>1 DEF Files
    <3> QED BY <1>1, <1>11, <2>1, <3>1, <3>2, <3>3 DEF Typed
  <2>3. Typed'
    <3>1. host' \in Files'
      BY <1>1, <1>4, <1>11 DEF Typed, Quiet
    <3> QED BY <1>1, <1>2, <1>4, <1>6, <1>11, <2>2, <3>1 DEF Typed, Quiet
  <2>4. Delivers(r)'
    <3> SUFFICES ASSUME Own(r), set[r].linux \/ HasMounts(r),
                        NEW m \in Leaves \ (ReadOnly \cup FileVolumes), wrote'[r][m] # Absent
                 PROVE  wrote'[r][m] \in had[m] \/ Held(r, m)'
      BY <1>2, <1>8, <1>11, SameSettings DEF Delivers, Quiet
    <3>1. box[r] = r
      BY DEF Own
    <3>2. CASE m = l
      BY <1>1, <1>2, <1>5, <1>11, <2>2, <3>1, <3>2, SameSettings DEF Held
    <3>3. CASE m # l
      <4>1. wrote[r][m] \in had[m] \/ Held(r, m)
        BY <1>1, <1>2, <1>5, <3>3 DEF RunInv, Delivers
      <4> QED BY <1>2, <1>5, <2>2, <3>1, <3>3, <4>1, SameSettings DEF Held
    <3> QED BY <3>2, <3>3
  <2>5. Current(r)'
    <3> SUFFICES ASSUME ~overtaken[r], ~stale[r], Own(r), Copies(r), NEW m \in Leaves
                 PROVE  files'[r][m] \in {Absent, host[m]} \/ files'[r][m] \notin had[m]
      BY <1>2, <1>8, <1>11, SameSettings DEF Current, Early, Quiet
    <3>1. box[r] = r
      BY DEF Own
    <3>2. CASE m = l
      <4>1. writes + 1 \notin had[m]
        BY <1>1 DEF Remembered
      <4> QED BY <2>2, <3>1, <3>2, <4>1
    <3>3. CASE m # l
      BY <1>1, <1>2, <2>2, <3>1, <3>3 DEF RunInv, Current
    <3> QED BY <3>2, <3>3
  <2>6. RunInv(r)'
    BY <1>9, <2>4, <2>5 DEF RunInv
  <2>7. UnderWay(r)' => UnderWay(r)
    BY <1>2 DEF UnderWay
  <2> QED BY <1>2, <1>4, <1>5, <1>7, <1>11, <2>2, <2>3, <2>6, <2>7, OwnStep
<1> QED BY <1>3, <1>10, <1>11

-----------------------------------------------------------------------------
LEMMA InitInv == Init => Inv
<1> SUFFICES ASSUME Init PROVE Inv
  OBVIOUS
<1>1. writes = 1 /\ writes \in Nat
  BY DEF Init
<1>2. Typed
  <2>1. NoFiles \in Files /\ [l \in Leaves |-> 1] \in Files
    BY <1>1, FilesFacts DEF Files
  <2>2. [c \in Configs |-> NoFiles] \in [Configs -> Files]
    BY <2>1
  <2> QED BY <1>1, <2>1, <2>2 DEF Init, Typed, Places
<1>3. Remembered
  BY DEF Init, Remembered, UnderWay
<1>4. Boxes
  BY DEF Init, Boxes
<1>5. ASSUME NEW r \in Runs PROVE RunInv(r)
  <2>1. pc[r] = "idle" /\ base[r] = NoFiles /\ wrote[r] = NoFiles /\ command[r] = 0 /\ ~stale[r]
    BY DEF Init
  <2>2. AtPlace(r) /\ Starts(r)
    BY <2>1 DEF AtPlace, Starts
  <2>3. Delivers(r) /\ Current(r)
    BY <2>1 DEF Delivers, Current, NoFiles
  <2> QED BY <2>2, <2>3 DEF RunInv
<1> QED BY <1>2, <1>3, <1>4, <1>5 DEF Inv

LEMMA StutterInv == ASSUME Inv, UNCHANGED vars PROVE Inv'
<1>1. UNCHANGED <<set, host, had, built, images, pc, result, box, files, base, touched, alive,
                  todo, command, failed, writes, flakes, since, overtaken, stale, wrote>>
  BY DEF vars, daemon, container, flow, history
<1>2. Typed' /\ Remembered' /\ Boxes'
  <2>1. writes \in Nat
    BY DEF Inv, Typed
  <2>2. Typed'
    BY <1>1, <2>1, FilesFacts DEF Inv, Typed
  <2> QED BY <1>1, <2>2 DEF Inv, Remembered, Boxes, UnderWay
<1>3. ASSUME NEW r \in Runs PROVE RunInv(r)'
  <2>1. RunInv(r) /\ (Own(r)' => Own(r))
    BY <1>1 DEF Inv, Own
  <2> QED BY <1>1, <2>1, RunKeeps
<1> QED BY <1>2, <1>3 DEF Inv

LEMMA NextInv == ASSUME Inv, [Next]_vars PROVE Inv'
<1>1. ASSUME NEW l \in Edited, EditHost(l) PROVE Inv'
  BY <1>1, EditHostKeeps
<1>2. ASSUME NEW r \in Runs,
             Begin(r) \/ FindImage(r) \/ AddToContext(r) \/ BuildImage(r) \/ Create(r)
      PROVE  Inv'
  BY <1>2, BeginKeeps, FindImageKeeps, AddToContextKeeps, BuildImageKeeps, CreateKeeps
<1>3. ASSUME NEW r \in Runs,
             CopyIn(r) \/ ContainerGone(r) \/ StartCommand(r) \/ EndCommand(r)
      PROVE  Inv'
  BY <1>3, CopyInKeeps, ContainerGoneKeeps, StartCommandKeeps, EndCommandKeeps
<1>4. ASSUME NEW r \in Runs, CopyBack(r) \/ CopiedBack(r) \/ Finish(r) PROVE Inv'
  BY <1>4, CopyBackKeeps, CopiedBackKeeps, FinishKeeps
<1>5. ASSUME NEW r \in Runs, NEW l \in Written, Write(r, l) PROVE Inv'
  BY <1>5, WriteKeeps
<1>6. CASE UNCHANGED vars
  BY <1>6, StutterInv
<1> QED BY <1>1, <1>2, <1>3, <1>4, <1>5, <1>6 DEF Next

\* The invariant holds for any runs, settings, files and entries.
THEOREM Invariance == Spec => []Inv
BY InitInv, NextInv, PTL DEF Spec

\* A run whose container nobody else uses has one of its own.
LEMMA Unshared == ASSUME Inv, NEW r \in Runs, ~Shared(r) PROVE Own(r)
<1>1. box[r] \in Runs /\ Boxes
  BY DEF Inv, Typed
<1>2. box[r] = r
  BY <1>1 DEF Boxes, Shared
<1> QED BY <1>2 DEF Own, Shared

LEMMA StartsWell == Inv => RunsStartFromHost
<1> SUFFICES ASSUME Inv, NEW r \in Runs, NEW l \in Leaves, pc[r] = "ready", command[r] = 0,
                    ~stale[r], ~Shared(r), set[r].linux
             PROVE  \/ Sees(r, l) \in since[r][l]
                    \/ l \in Renamed /\ Approach(r) = "copy" /\ Sees(r, l) = Absent
  BY DEF RunsStartFromHost
<1>1. Own(r) /\ Starts(r) /\ Typed
  BY Unshared DEF Inv, RunInv
<1>2. CASE HasMounts(r)
  BY <1>2 DEF Inv, Remembered, UnderWay, Sees
<1>3. CASE ~HasMounts(r)
  <2>1. Sees(r, l) = files[r][l]
    BY <1>1, <1>3 DEF Sees, Box, Own
  <2>2. Approach(r) = "copy" \/ Approach(r) = "add"
    BY <1>1, <1>3, SettingFacts DEF HasMounts
  <2> QED BY <1>1, <2>1, <2>2 DEF Starts
<1> QED BY <1>2, <1>3

\* The first command of a run finds on its volumes what the host has had since the run began.
THEOREM FreshStart == Spec => []RunsStartFromHost
BY Invariance, StartsWell, PTL

LEMMA DeliversWell == Inv => WritesReachHost
<1> SUFFICES ASSUME Inv, NEW r \in Runs, NEW l \in Leaves \ (ReadOnly \cup FileVolumes),
                    \/ pc[r] = "ready"
                    \/ pc[r] = "done" /\ result[r] = "ok"
                    \/ pc[r] = "copyback" /\ todo[r] = {},
                    set[r].linux \/ HasMounts(r), ~Shared(r), wrote[r][l] # Absent
             PROVE  wrote[r][l] \in had[l]
  BY DEF WritesReachHost
<1>1. Own(r) /\ Delivers(r)
  BY Unshared DEF Inv, RunInv
<1>2. ~Held(r, l)
  BY DEF Held, Pending
<1> QED BY <1>1, <1>2 DEF Delivers

\* What the commands of a run wrote in a writable directory has been on the host, where
\* volumes are mounted or the image has a Linux distribution.  In copy and add mode
\* nothing written in another image reaches the host, and no removal in any image
\* does; neither is claimed here, nor anything of containers that runs share.
THEOREM Delivery == Spec => []WritesReachHost
BY Invariance, DeliversWell, PTL

\* Nobody but a run that copies back takes an entry off its list then.
LEMMA OnlyCopyBack ==
  ASSUME Inv, Next, NEW r \in Runs, pc[r] = "copyback", todo'[r] # todo[r] PROVE CopyBack(r)
<1>1. todo \in [Runs -> SUBSET DOMAIN Entries]
  BY DEF Inv, Typed
<1>2. ASSUME NEW l \in Edited, EditHost(l) PROVE FALSE
  BY <1>2 DEF EditHost, flow
<1>3. ASSUME NEW q \in Runs, Begin(q) \/ BuildImage(q) \/ ContainerGone(q) \/ StartCommand(q)
                             \/ CopiedBack(q) \/ Finish(q)
      PROVE  FALSE
  BY <1>3 DEF Begin, BuildImage, ContainerGone, StartCommand, CopiedBack, Finish
<1>4. ASSUME NEW q \in Runs, FindImage(q) \/ AddToContext(q) \/ Create(q)
      PROVE  FALSE
  <2>1. q # r
    BY <1>4 DEF FindImage, AddToContext, Create
  <2> QED BY <1>1, <1>4, <2>1 DEF FindImage, AddToContext, Create
<1>5. ASSUME NEW q \in Runs, CopyIn(q) \/ EndCommand(q) PROVE FALSE
  <2>1. q # r
    BY <1>5 DEF CopyIn, EndCommand
  <2> QED BY <1>1, <1>5, <2>1 DEF CopyIn, EndCommand
<1>6. ASSUME NEW q \in Runs, CopyBack(q) PROVE q = r
  BY <1>1, <1>6 DEF CopyBack
<1>7. ASSUME NEW q \in Runs, NEW l \in Written, Write(q, l) PROVE FALSE
  BY <1>7 DEF Write, flow
<1> QED BY <1>2, <1>3, <1>4, <1>5, <1>6, <1>7 DEF Next

LEMMA CopyingBack ==
  ASSUME Inv, [Next]_vars, NEW r \in Runs, NEW l \in Leaves, pc[r] = "copyback",
         todo'[r] # todo[r], host'[l] # host[l]
  PROVE  /\ l \notin ReadOnly /\ host'[l] # Absent
         /\ host'[l] \in had[l] => overtaken[r] \/ stale[r] \/ Shared(r)
<1>1. CopyBack(r)
  <2>1. ~UNCHANGED vars
    BY DEF vars, flow
  <2> QED BY <2>1, OnlyCopyBack
<1>2. PICK i \in todo[r] :
        HostBecomes([m \in Leaves |-> IF m \in Of(Entries[i]) /\ Box(r)[m] # Absent
                                        THEN Box(r)[m] ELSE host[m]], r)
  BY <1>1 DEF CopyBack
<1>3. host' = [m \in Leaves |-> IF m \in Of(Entries[i]) /\ Box(r)[m] # Absent
                                  THEN Box(r)[m] ELSE host[m]]
  BY <1>2 DEF HostBecomes
<1>4. l \in Of(Entries[i]) /\ host'[l] = Box(r)[l] /\ Box(r)[l] # Absent
  BY <1>3
<1>5. Writable(Entries[i]) /\ Copies(r) /\ Current(r)
  BY DEF Inv, RunInv, AtPlace
<1>6. l \notin ReadOnly
  BY <1>4, <1>5 DEF Writable
<1>7. ASSUME host'[l] \in had[l], ~overtaken[r], ~stale[r], ~Shared(r) PROVE FALSE
  <2>1. Own(r)
    BY <1>7, Unshared
  <2>2. host'[l] = files[r][l]
    BY <1>4, <2>1 DEF Own, Box
  <2>3. files[r][l] \in {Absent, host[l]} \/ files[r][l] \notin had[l]
    BY <1>5, <1>7, <2>1 DEF Current
  <2> QED BY <1>4, <1>7, <2>2, <2>3
<1> QED BY <1>4, <1>6, <1>7

\* Copying back changes nothing read-only on the host, removes nothing there, and takes no
\* file back to an earlier version unless somebody else was at work.
THEOREM HostKept == Spec => RunsKeepHost
<1>1. Inv /\ [Next]_vars =>
        [\A r \in Runs, l \in Leaves :
           /\ pc[r] = "copyback" /\ todo'[r] # todo[r] /\ host'[l] # host[l]
           => /\ l \notin ReadOnly /\ host'[l] # Absent
              /\ host'[l] \in had[l] => overtaken[r] \/ stale[r] \/ Shared(r)]_vars
  BY CopyingBack
<1> QED BY <1>1, Invariance, PTL DEF Spec, RunsKeepHost
=============================================================================
