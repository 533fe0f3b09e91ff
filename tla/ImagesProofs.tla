----------------------------- MODULE ImagesProofs -----------------------------
(***************************************************************************)
(* Proofs about Images for any commands, units and tags: the image that a  *)
(* task with a custom image runs in, and what the scripts and the output   *)
(* files of builds and pushes tell.                                        *)
(***************************************************************************)
EXTENDS Images, SequenceTheorems, TLAPS

Given == Dockerfiles \cup {"none"}
ImageType == [df : Dockerfiles, given : Given, unit : Units,
              label : {NoLabel} \cup (Units \X Given)]

Places == {"idle", "hash", "build", "afterbuild", "create", "push", "afterpush", "load",
           "append", "done", "failed"}

Typed ==
  /\ scenario \in Scenarios
  /\ source \in [Units -> Dockerfiles]
  /\ images \in Seq(ImageType)
  /\ tag \in [Refs -> Nat]
  /\ at \in [Job -> Places]
  /\ hashed \in [Job -> Given]
  /\ image \in [Job -> Nat] /\ ran \in [Job -> Nat]

\* The reference that a container is created from.
FirstRef(u) == Head(TagsOrName(u))

\* A label tells the unit and the content that was hashed, and the references of the unit are
\* never behind a labelled image of it.
TagsFollow ==
  /\ \A r \in Refs : tag[r] <= Len(images)
  /\ \A i \in 1..Len(images) : images[i].label # NoLabel =>
       /\ images[i].label = <<images[i].unit, images[i].given>>
       /\ tag[FirstRef(images[i].unit)] >= i

\* The way of a task with a custom image.
OnItsWay(c, u) ==
  /\ Kind(c) = "task" =>
       at[<<c, u>>] \in {"idle", "hash", "build", "afterbuild", "create", "done", "failed"}
  /\ at[<<c, u>>] = "create" => Kind(c) = "task"

\* Once a task has an image it is a labelled one, for the content that was hashed.
HasImage(c, u) ==
  Kind(c) = "task" /\ at[<<c, u>>] \in {"afterbuild", "create", "done"} =>
    /\ image[<<c, u>>] \in 1..Len(images)
    /\ images[image[<<c, u>>]].label # NoLabel
    /\ images[image[<<c, u>>]].unit = u
    /\ images[image[<<c, u>>]].given = hashed[<<c, u>>]

\* The container is created last, from that image or a later one.
RunsImage(c, u) ==
  ran[<<c, u>>] # NoImage =>
    /\ Kind(c) = "task" /\ at[<<c, u>>] = "done"
    /\ ran[<<c, u>>] \in 1..Len(images) /\ ran[<<c, u>>] >= image[<<c, u>>]

Jobs == \A c \in Commands, u \in Units : OnItsWay(c, u) /\ HasImage(c, u) /\ RunsImage(c, u)

Inv == Typed /\ TagsFollow /\ Jobs
-----------------------------------------------------------------------------
USE ConstantsAssumption DEF NoImage, Goto

\* A unit has at least one reference, and the first is one of them.
LEMMA FirstOfTags ==
  ASSUME NEW u \in Units
  PROVE  FirstRef(u) \in ToSet(TagsOrName(u)) /\ FirstRef(u) \in Refs
<1>1. TagsOrName(u) \in Seq(ToSet(TagsOrName(u))) /\ TagsOrName(u) # <<>>
  <2>1. CASE Tags[u] = <<>>
    BY <2>1 DEF TagsOrName, ToSet
  <2>2. CASE Tags[u] # <<>>
    BY <2>2 DEF TagsOrName
  <2> QED BY <2>1, <2>2
<1>2. FirstRef(u) = TagsOrName(u)[1] /\ 1 \in DOMAIN TagsOrName(u)
  BY <1>1 DEF FirstRef
<1>3. FirstRef(u) \in ToSet(TagsOrName(u))
  BY <1>2 DEF ToSet
<1> QED BY <1>3 DEF Refs

\* The units of a command are units.
LEMMA UnitsAreUnits ==
  ASSUME Typed, NEW c \in Commands, NEW u \in ToSet(UnitsOf(c))
  PROVE  u \in Units /\ <<c, u>> \in Job
<1>1. UnitsOf(c) \in Seq(Units)
  BY DEF Typed, UnitsOf
<1>2. u \in Units
  BY <1>1 DEF ToSet
<1> QED BY <1>2 DEF Job

LEMMA LabelsAreNotEmpty ==
  ASSUME NEW u, NEW given PROVE <<u, given>> # NoLabel
BY DEF NoLabel

LEMMA InitInv == Init => Inv
<1> SUFFICES ASSUME Init PROVE Inv
  OBVIOUS
<1>1. Typed
  BY DEF Init, Typed, Job, Given, Places
<1>2. TagsFollow
  BY DEF Init, TagsFollow
<1>3. Jobs
  BY DEF Init, Jobs, OnItsWay, HasImage, RunsImage, Job
<1> QED BY <1>1, <1>2, <1>3 DEF Inv

\* Steps that change nothing a custom image depends on.
LEMMA OtherSteps ==
  ASSUME Inv, UNCHANGED <<scenario, images, tag, hashed, image, ran, at>>,
         source' \in [Units -> Dockerfiles]
  PROVE  Inv'
<1>1. Typed'
  BY DEF Inv, Typed
<1>2. TagsFollow'
  BY DEF Inv, TagsFollow
<1>3. Jobs'
  BY DEF Inv, Jobs, OnItsWay, HasImage, RunsImage, Kind
<1> QED BY <1>1, <1>2, <1>3 DEF Inv

\* Steps of a job that has nothing to do with custom images, or fails.
LEMMA OtherPlaces ==
  ASSUME Inv, NEW c \in Commands, NEW u \in Units, NEW p,
         UNCHANGED <<scenario, source, images, tag, hashed, image, ran>>,
         Goto(c, u, p),
         p \in {"hash", "afterpush", "push", "load", "append", "done", "failed", "create"},
         at[<<c, u>>] # "done", p = "create" => Kind(c) = "task",
         Kind(c) = "task" => \/ p \in {"hash", "failed"}
                             \/ at[<<c, u>>] = "afterbuild" /\ p = "create"
  PROVE  Inv'
<1>1. Typed'
  BY DEF Inv, Typed, Job, Places
<1>2. TagsFollow'
  BY DEF Inv, TagsFollow
<1>3. ASSUME NEW d \in Commands, NEW v \in Units
      PROVE  (OnItsWay(d, v) /\ HasImage(d, v) /\ RunsImage(d, v))'
  <2>1. <<c, u>> \in Job /\ <<d, v>> \in Job /\ at \in [Job -> Places]
    BY DEF Inv, Typed, Job
  <2>2. OnItsWay(d, v) /\ HasImage(d, v) /\ RunsImage(d, v)
    BY DEF Inv, Jobs
  <2>3. CASE d = c /\ v = u
    BY <2>1, <2>2, <2>3 DEF OnItsWay, HasImage, RunsImage, Kind
  <2>4. CASE ~(d = c /\ v = u)
    BY <2>1, <2>2, <2>4 DEF OnItsWay, HasImage, RunsImage, Kind
  <2> QED BY <2>3, <2>4
<1>4. Jobs'
  BY <1>3 DEF Jobs
<1> QED BY <1>1, <1>2, <1>4 DEF Inv

\* Hashing: a reused image has the label, and so the content, that was looked for.
LEMMA HashKeeps ==
  ASSUME Inv, NEW c \in Commands, NEW u \in Units, Hash(c, u)
  PROVE  Inv'
<1> DEFINE reusable == {i \in DOMAIN images : images[i].label = Label(u, source[u])}
<1>1. /\ <<c, u>> \in Job /\ at[<<c, u>>] = "hash" /\ source[u] \in Dockerfiles
      /\ UNCHANGED <<scenario, source, images, tag, ran>>
      /\ hashed' = [hashed EXCEPT ![<<c, u>>] = source[u]]
  BY DEF Hash, Job, Inv, Typed, daemon
<1>2. \/ /\ Kind(c) = "task"
         /\ \E i \in reusable : image' = [image EXCEPT ![<<c, u>>] = i]
         /\ Goto(c, u, "afterbuild")
      \/ Goto(c, u, "build") /\ UNCHANGED image
  BY DEF Hash
<1>3. reusable \subseteq 1..Len(images) /\ 1..Len(images) \subseteq Nat
  BY DEF Inv, Typed
<1>4. Typed'
  <2>1. Typed
    BY DEF Inv
  <2>2. at' \in [Job -> Places]
    BY <1>1, <1>2, <2>1 DEF Typed, Places
  <2>3. hashed' \in [Job -> Given]
    BY <1>1, <2>1 DEF Typed, Given
  <2>4. image' \in [Job -> Nat]
    BY <1>1, <1>2, <1>3, <2>1 DEF Typed
  <2> QED BY <1>1, <2>1, <2>2, <2>3, <2>4 DEF Typed
<1>5. TagsFollow'
  BY <1>1 DEF Inv, TagsFollow
<1>6. ASSUME NEW d \in Commands, NEW v \in Units
      PROVE  (OnItsWay(d, v) /\ HasImage(d, v) /\ RunsImage(d, v))'
  <2>1. <<d, v>> \in Job /\ at \in [Job -> Places] /\ hashed \in [Job -> Given]
        /\ image \in [Job -> Nat]
    BY DEF Inv, Typed, Job
  <2>2. OnItsWay(d, v) /\ HasImage(d, v) /\ RunsImage(d, v)
    BY DEF Inv, Jobs
  <2>3. CASE d = c /\ v = u
    <3>1. CASE Goto(c, u, "build")
      BY <1>1, <2>1, <2>2, <2>3, <3>1 DEF OnItsWay, HasImage, RunsImage, Kind
    <3>2. CASE Kind(c) = "task" /\ Goto(c, u, "afterbuild")
      <4>1. CASE UNCHANGED image /\ Goto(c, u, "build")
        BY <3>1, <4>1
      <4>2. CASE \E i \in reusable : image' = [image EXCEPT ![<<c, u>>] = i]
        <5>1. PICK i \in reusable : image' = [image EXCEPT ![<<c, u>>] = i]
          BY <4>2
        <5>2. i \in 1..Len(images) /\ images[i].label = <<u, source[u]>>
          BY <1>3 DEF Label
        <5>3. images[i].label # NoLabel
          BY <5>2 DEF NoLabel
        <5>4. images[i].unit = u /\ images[i].given = source[u]
          <6>1. images[i].label = <<images[i].unit, images[i].given>>
            BY <5>2, <5>3 DEF Inv, TagsFollow
          <6> QED BY <5>2, <6>1
        <5>5. /\ image'[<<c, u>>] = i /\ hashed'[<<c, u>>] = source[u] /\ at'[<<c, u>>] = "afterbuild"
              /\ ran'[<<c, u>>] = NoImage
          BY <1>1, <2>1, <2>2, <2>3, <3>2, <5>1 DEF RunsImage
        <5> QED BY <1>1, <2>3, <5>2, <5>3, <5>4, <5>5 DEF OnItsWay, HasImage, RunsImage, Kind
      <4> QED BY <1>2, <3>1, <4>1, <4>2
    <3> QED BY <1>2, <3>1, <3>2
  <2>4. CASE ~(d = c /\ v = u)
    <3>1. /\ at'[<<d, v>>] = at[<<d, v>>] /\ hashed'[<<d, v>>] = hashed[<<d, v>>] /\ image'[<<d, v>>] = image[<<d, v>>]
          /\ ran'[<<d, v>>] = ran[<<d, v>>]
      BY <1>1, <1>2, <2>1, <2>4
    <3> QED BY <1>1, <2>2, <3>1 DEF OnItsWay, HasImage, RunsImage, Kind
  <2> QED BY <2>3, <2>4
<1>7. Jobs'
  BY <1>6 DEF Jobs
<1> QED BY <1>4, <1>5, <1>7 DEF Inv

\* A new image leaves the others where they are.
LEMMA OneMoreImage ==
  ASSUME Typed, NEW new \in ImageType, images' = Append(images, new)
  PROVE  /\ images' \in Seq(ImageType) /\ Len(images) \in Nat /\ Len(images') = Len(images) + 1
         /\ \A i \in 1..Len(images) : images'[i] = images[i]
         /\ images'[Len(images')] = new
BY DEF Typed

\* Building: the references move to the new image; Kaniko's has no label and moves none.
LEMMA NewImageKeeps ==
  ASSUME Inv, NEW c \in Commands, NEW u \in Units, NEW label,
         at[<<c, u>>] = "build",
         \/ Kind(c) # "kaniko" /\ label = LabelFor(c, u)
            /\ tag' = [r \in Refs |-> IF r \in ToSet(TagsOrName(u)) THEN Len(images') ELSE tag[r]]
         \/ Kind(c) = "kaniko" /\ label = NoLabel /\ UNCHANGED tag,
         images' = Append(images, [df |-> source[u], given |-> hashed[<<c, u>>], unit |-> u,
                                   label |-> label]),
         image' = [image EXCEPT ![<<c, u>>] = Len(images')],
         Goto(c, u, "afterbuild"),
         UNCHANGED <<scenario, source, hashed, ran>>
  PROVE  Inv'
<1> DEFINE new == [df |-> source[u], given |-> hashed[<<c, u>>], unit |-> u, label |-> label]
<1>1. Typed /\ <<c, u>> \in Job
  BY DEF Inv, Job
<1>2. label \in {NoLabel} \cup (Units \X Given) /\ hashed[<<c, u>>] \in Given
  BY <1>1 DEF Typed, LabelFor, Label
<1>3. new \in ImageType
  BY <1>1, <1>2 DEF Typed, ImageType
<1> HIDE DEF new
<1>4. /\ images' \in Seq(ImageType) /\ Len(images) \in Nat /\ Len(images') = Len(images) + 1
      /\ \A i \in 1..Len(images) : images'[i] = images[i]
      /\ images'[Len(images')] = new
  BY <1>1, <1>3, OneMoreImage DEF new
<1>5. /\ new.unit = u /\ new.given = hashed[<<c, u>>] /\ new.label = label
  BY DEF new
<1>6. tag' \in [Refs -> Nat]
  <2>1. tag \in [Refs -> Nat] /\ Len(images') \in Nat
    BY <1>1, <1>4 DEF Typed
  <2>2. CASE UNCHANGED tag
    BY <2>1, <2>2
  <2>3. CASE tag' = [r \in Refs |-> IF r \in ToSet(TagsOrName(u)) THEN Len(images') ELSE tag[r]]
    BY <2>1, <2>3
  <2> QED BY <2>2, <2>3
<1>7. ASSUME NEW r \in Refs
      PROVE  tag'[r] >= tag[r] /\ tag'[r] <= Len(images')
  <2>1. tag[r] \in Nat /\ tag[r] <= Len(images) /\ Len(images') = Len(images) + 1
        /\ Len(images) \in Nat
    BY <1>1, <1>4 DEF Typed, Inv, TagsFollow
  <2>2. tag'[r] = tag[r] \/ tag'[r] = Len(images')
    <3>1. CASE UNCHANGED tag
      BY <3>1
    <3>2. CASE tag' = [q \in Refs |-> IF q \in ToSet(TagsOrName(u)) THEN Len(images') ELSE tag[q]]
      BY <3>2
    <3> QED BY <3>1, <3>2
  <2> QED BY <2>1, <2>2
<1>8. Typed'
  <2>1. at' \in [Job -> Places]
    BY <1>1 DEF Typed, Places
  <2>2. image' \in [Job -> Nat]
    BY <1>1, <1>4 DEF Typed
  <2> QED BY <1>1, <1>4, <1>6, <2>1, <2>2 DEF Typed
<1>9. TagsFollow'
  <2>1. ASSUME NEW i \in 1..Len(images'), images'[i].label # NoLabel
        PROVE  /\ images'[i].label = <<images'[i].unit, images'[i].given>>
               /\ tag'[FirstRef(images'[i].unit)] >= i
    <3>1. CASE i <= Len(images)
      <4>1. i \in 1..Len(images) /\ images'[i] = images[i]
        BY <1>4, <3>1
      <4>2. /\ images[i].label = <<images[i].unit, images[i].given>>
            /\ tag[FirstRef(images[i].unit)] >= i
        BY <2>1, <4>1 DEF Inv, TagsFollow
      <4>3. images[i] \in ImageType
        BY <1>1, <4>1 DEF Typed
      <4>4. images[i].unit \in Units
        BY <4>3 DEF ImageType
      <4>5. FirstRef(images[i].unit) \in Refs
        BY <4>4, FirstOfTags
      <4>6. tag'[FirstRef(images[i].unit)] >= tag[FirstRef(images[i].unit)]
        BY <1>7, <4>5
      <4>7. /\ tag[FirstRef(images[i].unit)] \in Nat /\ tag'[FirstRef(images[i].unit)] \in Nat
        BY <1>1, <1>6, <4>5 DEF Typed
      <4> QED BY <4>1, <4>2, <4>6, <4>7
    <3>2. CASE i = Len(images')
      <4>1. Kind(c) # "kaniko" /\ label = LabelFor(c, u) /\ label # NoLabel
        BY <1>4, <1>5, <2>1, <3>2
      <4>2. label = <<u, hashed[<<c, u>>]>>
        BY <4>1 DEF LabelFor, Label
      <4>3. tag'[FirstRef(u)] = Len(images')
        BY <4>1, FirstOfTags
      <4> QED BY <1>4, <1>5, <3>2, <4>2, <4>3
    <3> QED BY <1>4, <3>1, <3>2
  <2> QED BY <1>7, <2>1 DEF TagsFollow
<1>10. ASSUME NEW d \in Commands, NEW v \in Units
       PROVE  (OnItsWay(d, v) /\ HasImage(d, v) /\ RunsImage(d, v))'
  <2>1. <<d, v>> \in Job /\ at \in [Job -> Places] /\ image \in [Job -> Nat]
    BY <1>1 DEF Typed, Job
  <2>2. OnItsWay(d, v) /\ HasImage(d, v) /\ RunsImage(d, v)
    BY DEF Inv, Jobs
  <2>3. CASE d = c /\ v = u
    <3>1. /\ at'[<<c, u>>] = "afterbuild" /\ image'[<<c, u>>] = Len(images')
          /\ ran'[<<c, u>>] = NoImage
      BY <1>1, <2>1, <2>2, <2>3 DEF RunsImage
    <3>2. ASSUME Kind(c) = "task"
          PROVE  label = <<u, hashed[<<c, u>>]>>
      BY <3>2 DEF LabelFor, Label
    <3>3. ASSUME Kind(c) = "task"
          PROVE  label # NoLabel
      BY <3>2, <3>3, LabelsAreNotEmpty
    <3> QED BY <1>4, <1>5, <2>3, <3>1, <3>3 DEF OnItsWay, HasImage, RunsImage, Kind
  <2>4. CASE ~(d = c /\ v = u)
    <3>1. /\ at'[<<d, v>>] = at[<<d, v>>] /\ image'[<<d, v>>] = image[<<d, v>>]
          /\ ran'[<<d, v>>] = ran[<<d, v>>] /\ hashed'[<<d, v>>] = hashed[<<d, v>>]
          /\ image[<<d, v>>] \in Nat
      BY <1>1, <2>1, <2>4
    <3>2. OnItsWay(d, v)'
      BY <2>2, <3>1 DEF OnItsWay, Kind
    <3>3. HasImage(d, v)'
      BY <1>4, <2>2, <3>1 DEF HasImage, Kind
    <3>4. RunsImage(d, v)'
      BY <1>4, <2>2, <3>1 DEF RunsImage, Kind
    <3> QED BY <3>2, <3>3, <3>4
  <2> QED BY <2>3, <2>4
<1>11. Jobs'
  BY <1>10 DEF Jobs
<1> QED BY <1>8, <1>9, <1>11 DEF Inv

\* Creating the container: the reference is at the task's image or at a later one.
LEMMA CreateKeeps ==
  ASSUME Inv, NEW c \in Commands, NEW u \in Units, CreateContainer(c, u)
  PROVE  Inv'
<1>1. /\ Typed /\ <<c, u>> \in Job /\ at[<<c, u>>] = "create" /\ Goto(c, u, "done")
      /\ ran' = [ran EXCEPT ![<<c, u>>] = tag[FirstRef(u)]]
      /\ UNCHANGED <<scenario, source, images, tag, hashed, image>>
  BY DEF CreateContainer, FirstRef, Job, Inv, daemon
<1>2. FirstRef(u) \in Refs /\ tag[FirstRef(u)] \in Nat /\ Len(images) \in Nat
  BY <1>1, FirstOfTags DEF Typed
<1>3. Typed'
  <2>1. at' \in [Job -> Places]
    BY <1>1 DEF Typed, Places
  <2>2. ran' \in [Job -> Nat]
    BY <1>1, <1>2 DEF Typed
  <2> QED BY <1>1, <2>1, <2>2 DEF Typed
<1>4. TagsFollow'
  BY <1>1 DEF Inv, TagsFollow
<1>5. ASSUME NEW d \in Commands, NEW v \in Units
      PROVE  (OnItsWay(d, v) /\ HasImage(d, v) /\ RunsImage(d, v))'
  <2>1. <<d, v>> \in Job /\ at \in [Job -> Places] /\ ran \in [Job -> Nat]
    BY <1>1 DEF Typed, Job
  <2>2. OnItsWay(d, v) /\ HasImage(d, v) /\ RunsImage(d, v)
    BY DEF Inv, Jobs
  <2>3. CASE d = c /\ v = u
    <3>1. at'[<<c, u>>] = "done" /\ ran'[<<c, u>>] = tag[FirstRef(u)]
      BY <1>1, <2>1, <2>3
    <3>2. OnItsWay(d, v)' /\ HasImage(d, v)'
      BY <1>1, <2>2, <2>3, <3>1 DEF OnItsWay, HasImage, Kind
    <3>3. Kind(c) = "task"
      BY <1>1, <2>2, <2>3 DEF OnItsWay
    <3>4. /\ image[<<c, u>>] \in 1..Len(images) /\ images[image[<<c, u>>]].label # NoLabel
          /\ images[image[<<c, u>>]].unit = u
      BY <1>1, <2>2, <2>3, <3>3 DEF HasImage
    <3>5. tag[FirstRef(u)] >= image[<<c, u>>] /\ tag[FirstRef(u)] <= Len(images)
      BY <1>2, <3>4 DEF Inv, TagsFollow
    <3>6. RunsImage(d, v)'
      BY <1>1, <1>2, <2>3, <3>1, <3>3, <3>4, <3>5 DEF RunsImage, Kind
    <3> QED BY <3>2, <3>6
  <2>4. CASE ~(d = c /\ v = u)
    <3>1. at'[<<d, v>>] = at[<<d, v>>] /\ ran'[<<d, v>>] = ran[<<d, v>>]
      BY <1>1, <2>1, <2>4
    <3> QED BY <1>1, <2>2, <3>1 DEF OnItsWay, HasImage, RunsImage, Kind
  <2> QED BY <2>3, <2>4
<1>6. Jobs'
  BY <1>5 DEF Jobs
<1> QED BY <1>3, <1>4, <1>6 DEF Inv
-----------------------------------------------------------------------------
LEMMA NextInv == Inv /\ [Next]_vars => Inv'
<1> SUFFICES ASSUME Inv, [Next]_vars PROVE Inv'
  OBVIOUS
<1> USE DEF daemon, job, command, output
<1>1. CASE UNCHANGED vars
  <2>1. source' \in [Units -> Dockerfiles]
    BY <1>1 DEF vars, Inv, Typed
  <2> QED BY <1>1, <2>1, OtherSteps DEF vars
<1>2. ASSUME NEW u \in Units, Edit(u)
      PROVE  Inv'
  <2>1. source' \in [Units -> Dockerfiles]
    BY <1>2 DEF Edit, Inv, Typed
  <2> QED BY <1>2, <2>1, OtherSteps DEF Edit
<1>3. ASSUME NEW c \in Commands, Start(c) \/ EndOfModules(c) \/ WriteYaml(c) \/ WriteEnv(c)
      PROVE  Inv'
  <2>1. UNCHANGED <<scenario, source, images, tag, hashed, image, ran, at>>
    BY <1>3 DEF Start, EndOfModules, WriteYaml, WriteEnv
  <2>2. source' \in [Units -> Dockerfiles]
    BY <2>1 DEF Inv, Typed
  <2> QED BY <2>1, <2>2, OtherSteps
<1>4. ASSUME NEW c \in Commands, NEW u \in ToSet(UnitsOf(c)),
             \/ StartUnit(c, u) \/ Hash(c, u) \/ Build(c, u) \/ KanikoBuild(c, u)
             \/ AfterBuild(c, u) \/ CreateContainer(c, u) \/ Push(c, u) \/ Pushed(c, u)
             \/ AfterPush(c, u) \/ Load(c, u) \/ AppendModule(c, u)
      PROVE  Inv'
  <2>1. u \in Units /\ <<c, u>> \in Job
    BY UnitsAreUnits DEF Inv
  <2>2. OnItsWay(c, u)
    BY <2>1 DEF Inv, Jobs
  <2>3. CASE StartUnit(c, u)
    BY <2>1, <2>3, OtherPlaces DEF StartUnit
  <2>4. CASE Hash(c, u)
    BY <2>1, <2>4, HashKeeps
  <2>5. CASE Build(c, u)
    <3>1. /\ at[<<c, u>>] = "build" /\ Kind(c) # "kaniko"
          /\ UNCHANGED <<scenario, source, hashed, ran>>
      BY <2>5 DEF Build
    <3>2. CASE Fail(c, u) /\ UNCHANGED <<daemon, image>>
      <4>1. Goto(c, u, "failed") /\ UNCHANGED <<images, tag, image>>
        BY <3>2 DEF Fail
      <4> QED BY <2>1, <3>1, <4>1, OtherPlaces
    <3>3. CASE ~(Fail(c, u) /\ UNCHANGED <<daemon, image>>)
      <4>1. /\ images' = Append(images, [df |-> source[u], given |-> hashed[<<c, u>>], unit |-> u,
                                         label |-> LabelFor(c, u)])
            /\ tag' = [r \in Refs |-> IF r \in ToSet(TagsOrName(u)) THEN Len(images') ELSE tag[r]]
            /\ image' = [image EXCEPT ![<<c, u>>] = Len(images')]
            /\ Goto(c, u, "afterbuild")
        BY <2>5, <3>3 DEF Build
      <4> QED BY <2>1, <3>1, <4>1, NewImageKeeps
    <3> QED BY <3>2, <3>3
  <2>6. CASE KanikoBuild(c, u)
    <3>1. /\ at[<<c, u>>] = "build" /\ Kind(c) = "kaniko"
          /\ UNCHANGED <<scenario, source, tag, hashed, ran>>
      BY <2>6 DEF KanikoBuild
    <3>2. CASE Fail(c, u) /\ UNCHANGED <<images, registry, sent, image, digests>>
      <4>1. Goto(c, u, "failed") /\ UNCHANGED <<images, image>>
        BY <3>2 DEF Fail
      <4> QED BY <2>1, <3>1, <4>1, OtherPlaces
    <3>3. CASE ~(Fail(c, u) /\ UNCHANGED <<images, registry, sent, image, digests>>)
      <4>1. /\ images' = Append(images, [df |-> source[u], given |-> hashed[<<c, u>>], unit |-> u,
                                         label |-> NoLabel])
            /\ image' = [image EXCEPT ![<<c, u>>] = Len(images')]
            /\ Goto(c, u, "afterbuild")
        BY <2>6, <3>3 DEF KanikoBuild
      <4> QED BY <2>1, <3>1, <4>1, NewImageKeeps
    <3> QED BY <3>2, <3>3
  <2>7. CASE AfterBuild(c, u)
    <3>1. /\ at[<<c, u>>] = "afterbuild"
          /\ UNCHANGED <<scenario, source, images, tag, hashed, image, ran>>
      BY <2>7 DEF AfterBuild
    <3>2. \/ Goto(c, u, "failed")
          \/ Goto(c, u, "create") /\ Kind(c) = "task"
          \/ Goto(c, u, "afterpush") /\ Kind(c) # "task"
          \/ Goto(c, u, "done") /\ Kind(c) # "task"
      BY <2>7 DEF AfterBuild, Fail
    <3>3. CASE Goto(c, u, "failed")
      BY <2>1, <3>1, <3>3, OtherPlaces
    <3>4. CASE Goto(c, u, "create") /\ Kind(c) = "task"
      BY <2>1, <3>1, <3>4, OtherPlaces
    <3>5. CASE Goto(c, u, "afterpush") /\ Kind(c) # "task"
      BY <2>1, <3>1, <3>5, OtherPlaces
    <3>6. CASE Goto(c, u, "done") /\ Kind(c) # "task"
      BY <2>1, <3>1, <3>6, OtherPlaces
    <3> QED BY <3>2, <3>3, <3>4, <3>5, <3>6
  <2>8. CASE CreateContainer(c, u)
    BY <2>1, <2>8, CreateKeeps
  <2>9. CASE Push(c, u) \/ Pushed(c, u) \/ AfterPush(c, u) \/ Load(c, u) \/ AppendModule(c, u)
    <3>1. /\ at[<<c, u>>] \in {"push", "afterpush", "load", "append"}
          /\ UNCHANGED <<scenario, source, images, tag, hashed, image, ran>>
      BY <2>9 DEF Push, Pushed, AfterPush, Load, AppendModule
    <3>2. Kind(c) # "task" \/ Goto(c, u, "failed") \/ UNCHANGED at
      BY <2>2, <3>1 DEF OnItsWay
    <3>3. \/ UNCHANGED at \/ Goto(c, u, "failed") \/ Goto(c, u, "afterpush")
          \/ Goto(c, u, "done") \/ Goto(c, u, "load") \/ Goto(c, u, "append")
      BY <2>9 DEF Push, Pushed, AfterPush, Load, AppendModule, Fail
    <3>4. CASE UNCHANGED at
      <4>1. source' \in [Units -> Dockerfiles]
        BY <3>1 DEF Inv, Typed
      <4> QED BY <3>1, <3>4, <4>1, OtherSteps
    <3>5. CASE Goto(c, u, "failed")
      BY <2>1, <3>1, <3>5, OtherPlaces
    <3>6. CASE Goto(c, u, "afterpush") /\ Kind(c) # "task"
      BY <2>1, <3>1, <3>6, OtherPlaces
    <3>7. CASE Goto(c, u, "done") /\ Kind(c) # "task"
      BY <2>1, <3>1, <3>7, OtherPlaces
    <3>8. CASE Goto(c, u, "load") /\ Kind(c) # "task"
      BY <2>1, <3>1, <3>8, OtherPlaces
    <3>9. CASE Goto(c, u, "append") /\ Kind(c) # "task"
      BY <2>1, <3>1, <3>9, OtherPlaces
    <3> QED BY <3>2, <3>3, <3>4, <3>5, <3>6, <3>7, <3>8, <3>9
  <2> QED BY <1>4, <2>3, <2>4, <2>5, <2>6, <2>7, <2>8, <2>9
<1> QED BY <1>1, <1>2, <1>3, <1>4 DEF Next

\* The invariant, for any commands, units, tags and Dockerfiles.
THEOREM InvInvariant == Spec => []Inv
<1> QED BY InitInv, NextInv, PTL DEF Spec

\* A task with a custom image runs in an image of the Dockerfile that was hashed for it, unless
\* somebody has built under its tag since, or its image was built from an edited Dockerfile.
THEOREM CustomImage == Spec => []CustomImageIsBuilt
<1>1. Inv => CustomImageIsBuilt
  <2> SUFFICES ASSUME Inv, NEW c \in Commands, NEW u \in Units, ran[<<c, u>>] # NoImage
               PROVE  \/ images[ran[<<c, u>>]].df = hashed[<<c, u>>]
                      \/ ran[<<c, u>>] > image[<<c, u>>]
                      \/ images[image[<<c, u>>]].df # images[image[<<c, u>>]].given
    BY DEF CustomImageIsBuilt
  <2>1. RunsImage(c, u) /\ HasImage(c, u)
    BY DEF Inv, Jobs
  <2>2. /\ image[<<c, u>>] \in 1..Len(images) /\ ran[<<c, u>>] \in 1..Len(images)
        /\ ran[<<c, u>>] >= image[<<c, u>>]
        /\ images[image[<<c, u>>]].given = hashed[<<c, u>>]
    BY <2>1 DEF RunsImage, HasImage
  <2>3. Len(images) \in Nat
    BY DEF Inv, Typed
  <2>4. CASE ran[<<c, u>>] = image[<<c, u>>]
    BY <2>2, <2>4
  <2>5. CASE ran[<<c, u>>] # image[<<c, u>>]
    BY <2>2, <2>3, <2>5
  <2> QED BY <2>4, <2>5
<1> QED BY <1>1, InvInvariant, PTL
-----------------------------------------------------------------------------
(* What scripts and output files tell. *)

\* Each reference belongs to one unit, which has it once.
OwnTags ==
  /\ \A u \in Units : IsInjective(Tags[u])
  /\ \A u, v \in Units : u # v => ToSet(TagsOrName(u)) \cap ToSet(TagsOrName(v)) = {}

Entry == [unit : Units, digests : Seq(Nat)]

PushTyped ==
  /\ registry \in [Refs -> Nat] /\ sent \in [Refs -> Seq(Commands)]
  /\ digests \in [Job -> Seq(Nat)] /\ loaded \in [Job -> Seq(Entry)]
  /\ out \in [Commands -> Seq(Entry)]
  /\ pc \in [Commands -> {"idle", "working", "yaml", "sh", "done"}]
  /\ result \in [Commands -> {"none", "ok", "error"}]

\* The way of a unit in each kind of command.
WayOf(c, u) ==
  /\ at[<<c, u>>] = "push" \/ at[<<c, u>>] = "load" \/ at[<<c, u>>] = "append"
       => Kind(c) = "push"
  /\ at[<<c, u>>] = "afterpush" => Kind(c) \in {"push", "kaniko"}
  /\ Kind(c) = "push" =>
       at[<<c, u>>] \in {"idle", "push", "afterpush", "load", "append", "done", "failed"}

\* After a build the tags are at its image or at later ones.
Tagged(c, u) ==
  at[<<c, u>>] = "afterbuild" /\ Kind(c) = "build" =>
    \A r \in ToSet(TagsOrName(u)) : tag[r] >= image[<<c, u>>]

RefsOf(c, u) == IF Kind(c) = "kaniko" THEN TagsOrName(u) ELSE Tags[u]

\* The registry has under r what c pushed there, or what another command pushed later.
Stands(c, r, digest) == registry[r] = digest \/ (sent[r] # <<>> /\ Last(sent[r]) # c)

\* The digests are those of the references, as far as they were pushed.
Sends(c, u) ==
  /\ Len(digests[<<c, u>>]) <= Len(RefsOf(c, u))
  /\ \/ at[<<c, u>>] \in {"afterpush", "load", "append"}
     \/ at[<<c, u>>] = "afterbuild" /\ Kind(c) = "kaniko"
     \/ at[<<c, u>>] = "done" /\ Kind(c) = "push"
     => Len(digests[<<c, u>>]) = Len(RefsOf(c, u))
  /\ \A i \in 1..Len(digests[<<c, u>>]) : Stands(c, RefsOf(c, u)[i], digests[<<c, u>>][i])

\* A list of modules tells of units that are done, with what they have pushed.
TellsOf(c, list) ==
  \A i \in 1..Len(list) : /\ list[i].unit \in ToSet(UnitsOf(c))
                          /\ at[<<c, list[i].unit>>] = "done"
                          /\ list[i].digests = digests[<<c, list[i].unit>>]

Collects(c) == TellsOf(c, out[c]) /\ \A u \in Units : TellsOf(c, loaded[<<c, u>>])

\* One after the other, the units that are done are those in the list.
InOrder(c) ==
  Kind(c) = "push" /\ ~scenario[c].parallel =>
    /\ Len(out[c]) <= Len(UnitsOf(c))
    /\ \A i \in 1..Len(out[c]) : out[c][i].unit = UnitsOf(c)[i]
    /\ \A i \in 1..Len(UnitsOf(c)) :
         /\ at[<<c, UnitsOf(c)[i]>>] = "done" <=> i <= Len(out[c])
         /\ at[<<c, UnitsOf(c)[i]>>] # "idle" =>
              \A j \in 1..i - 1 : at[<<c, UnitsOf(c)[j]>>] = "done"
         /\ at[<<c, UnitsOf(c)[i]>>] = "append" => loaded[<<c, UnitsOf(c)[i]>>] = out[c]

Settled(c) == Kind(c) = "push" /\ \A u \in ToSet(UnitsOf(c)) : at[<<c, u>>] = "done"

\* docker.yaml is what a push that is over has collected, and the other file what that one
\* or another one has.
Written(c) ==
  /\ pc[c] \in {"yaml", "sh"} => Settled(c)
  /\ pc[c] # "done" => result[c] = "none"
  /\ writer = c /\ writer # "nobody" =>
       /\ pc[c] \in {"sh", "done"} /\ Settled(c) /\ yaml = out[c]
       /\ result[c] = "ok" =>
            \/ sh = yaml
            \/ \E d \in Commands \ {c} : pc[d] = "done" /\ Settled(d) /\ sh = out[d]

Push2 ==
  /\ PushTyped /\ writer \in Commands \cup {"nobody"}
  /\ \A c \in Commands, u \in Units : WayOf(c, u) /\ Tagged(c, u) /\ Sends(c, u)
  /\ \A c \in Commands : Collects(c) /\ InOrder(c) /\ Written(c)
-----------------------------------------------------------------------------
LEMMA RefsAreRefs ==
  ASSUME NEW c \in Commands, NEW u \in Units, NEW i \in 1..Len(RefsOf(c, u))
  PROVE  RefsOf(c, u)[i] \in ToSet(TagsOrName(u)) /\ RefsOf(c, u)[i] \in Refs
<1>1. TagsOrName(u) \in Seq(ToSet(TagsOrName(u)))
  <2>1. CASE Tags[u] = <<>>
    BY <2>1 DEF TagsOrName, ToSet
  <2>2. CASE Tags[u] # <<>>
    BY <2>2 DEF TagsOrName
  <2> QED BY <2>1, <2>2
<1>2. RefsOf(c, u) = TagsOrName(u) \/ RefsOf(c, u) = <<>>
  BY DEF RefsOf, TagsOrName
<1>3. RefsOf(c, u)[i] \in ToSet(TagsOrName(u))
  BY <1>1, <1>2
<1> QED BY <1>3 DEF Refs

\* What another unit or another command pushes does not take away what stands.
LEMMA StandsKeep ==
  ASSUME PushTyped, NEW c \in Commands, NEW d \in Commands, NEW r \in Refs, NEW x, Stands(d, r, x),
         \/ registry'[r] = registry[r] /\ sent'[r] = sent[r]
         \/ d # c /\ sent'[r] = Append(sent[r], c)
  PROVE  registry'[r] = x \/ (sent'[r] # <<>> /\ Last(sent'[r]) # d)
<1>1. CASE registry'[r] = registry[r] /\ sent'[r] = sent[r]
  BY <1>1 DEF Stands
<1>2. CASE d # c /\ sent'[r] = Append(sent[r], c)
  <2>1. sent[r] \in Seq(Commands)
    BY DEF PushTyped
  <2> QED BY <1>2, <2>1 DEF Last
<1> QED BY <1>1, <1>2

\* A step of one unit of a command, which may push the references R.
LEMMA JobStep ==
  ASSUME Push2, OwnTags, NEW c \in Commands, NEW u \in Units, NEW p \in Places, NEW R \in SUBSET Refs,
         Typed, Typed', at' = [at EXCEPT ![<<c, u>>] = p], at[<<c, u>>] # "done", p # "idle",
         p = "done" => Kind(c) # "push",
         UNCHANGED <<scenario, pc, result, out, yaml, sh, writer>>,
         registry' \in [Refs -> Nat], sent' \in [Refs -> Seq(Commands)],
         digests' \in [Job -> Seq(Nat)], loaded' \in [Job -> Seq(Entry)],
         \A j \in Job \ {<<c, u>>} : /\ digests'[j] = digests[j] /\ loaded'[j] = loaded[j]
                                     /\ image'[j] = image[j],
         loaded'[<<c, u>>] \in {loaded[<<c, u>>], out[c]},
         p = "append" => loaded'[<<c, u>>] = out[c],
         at[<<c, u>>] = "idle" /\ Kind(c) = "push" /\ ~scenario[c].parallel =>
           \E i \in 1..Len(UnitsOf(c)) :
             UnitsOf(c)[i] = u /\ \A j \in 1..i - 1 : at[<<c, UnitsOf(c)[j]>>] = "done",
         \A r \in Refs : tag'[r] >= tag[r],
         R \subseteq ToSet(TagsOrName(u)),
         \A r \in Refs \ R : registry'[r] = registry[r] /\ sent'[r] = sent[r],
         \A r \in R : sent'[r] = Append(sent[r], c),
         WayOf(c, u)', Tagged(c, u)', Sends(c, u)'
  PROVE  Push2'
<1>1. PushTyped /\ <<c, u>> \in Job /\ at \in [Job -> Places]
      /\ \A d \in Commands, v \in Units : <<d, v>> \in Job
  BY DEF Push2, Typed, Job
<1>2. at'[<<c, u>>] = p /\ \A j \in Job \ {<<c, u>>} : at'[j] = at[j]
  BY <1>1
<1>3. PushTyped' /\ writer' \in Commands \cup {"nobody"}
  BY <1>1 DEF PushTyped, Push2
<1>4. \A j \in Job : at[j] = "done" => at'[j] = "done" /\ digests'[j] = digests[j]
  BY <1>2
<1>5. ASSUME NEW d \in Commands, NEW v \in Units, ~(d = c /\ v = u)
      PROVE  WayOf(d, v)' /\ Tagged(d, v)' /\ Sends(d, v)'
  <2>1. WayOf(d, v) /\ Tagged(d, v) /\ Sends(d, v)
    BY DEF Push2
  <2>2. <<d, v>> \in Job \ {<<c, u>>}
    BY <1>1, <1>5
  <2>3. WayOf(d, v)'
    BY <1>2, <2>1, <2>2 DEF WayOf, Kind
  <2>4. Tagged(d, v)'
    <3> SUFFICES ASSUME at[<<d, v>>] = "afterbuild", Kind(d) = "build",
                        NEW r \in ToSet(TagsOrName(v))
                 PROVE  tag'[r] >= image[<<d, v>>]
      BY <1>2, <2>2 DEF Tagged, Kind
    <3>1. r \in Refs
      BY DEF Refs
    <3>2. tag[r] \in Nat /\ tag'[r] \in Nat /\ image[<<d, v>>] \in Nat
      BY <2>2, <3>1 DEF Typed
    <3>3. tag[r] >= image[<<d, v>>] /\ tag'[r] >= tag[r]
      BY <2>1, <3>1 DEF Tagged
    <3> QED BY <3>2, <3>3
  <2>5. Sends(d, v)'
    <3> SUFFICES ASSUME NEW i \in 1..Len(digests[<<d, v>>])
                 PROVE  Stands(d, RefsOf(d, v)[i], digests[<<d, v>>][i])'
      BY <1>2, <2>1, <2>2 DEF Sends, RefsOf, Kind
    <3>1. digests[<<d, v>>] \in Seq(Nat) /\ Len(digests[<<d, v>>]) <= Len(RefsOf(d, v))
      BY <1>1, <2>1 DEF PushTyped, Sends
    <3>2. PICK r : r = RefsOf(d, v)[i]
      OBVIOUS
    <3>3. PICK x : x = digests[<<d, v>>][i]
      OBVIOUS
    <3>4. i \in 1..Len(RefsOf(d, v))
      <4>1. Len(RefsOf(d, v)) \in Nat
        BY DEF RefsOf, TagsOrName
      <4> QED BY <3>1, <4>1
    <3>5. r \in ToSet(TagsOrName(v)) /\ r \in Refs /\ Stands(d, r, x)
      BY <2>1, <3>2, <3>3, <3>4, RefsAreRefs DEF Sends
    <3>6. r \in R => v = u
      BY <3>5 DEF OwnTags
    <3>7. registry'[r] = x \/ (sent'[r] # <<>> /\ Last(sent'[r]) # d)
      <4>1. CASE r \in R
        BY <1>1, <1>5, <3>5, <3>6, <4>1, StandsKeep
      <4>2. CASE r \notin R
        BY <1>1, <3>5, <4>2, StandsKeep
      <4> QED BY <4>1, <4>2
    <3>8. r = RefsOf(d, v)[i]' /\ x = digests[<<d, v>>][i]'
      BY <2>2, <3>2, <3>3 DEF RefsOf, Kind
    <3> QED BY <3>7, <3>8 DEF Stands
  <2> QED BY <2>3, <2>4, <2>5
<1>6. ASSUME NEW d \in Commands PROVE Collects(d)' /\ InOrder(d)' /\ Written(d)'
  <2>1. Collects(d) /\ InOrder(d) /\ Written(d)
    BY DEF Push2
  <2>2. UnitsOf(d) \in Seq(Units) /\ IsInjective(UnitsOf(d)) /\ UnitsOf(d)' = UnitsOf(d)
        /\ Kind(d)' = Kind(d)
    BY DEF Typed, UnitsOf, Kind
  <2>3. ASSUME NEW list, TellsOf(d, list)
        PROVE  \A i \in 1..Len(list) : /\ list[i].unit \in ToSet(UnitsOf(d))
                                       /\ at'[<<d, list[i].unit>>] = "done"
                                       /\ list[i].digests = digests'[<<d, list[i].unit>>]
    <3>1. ASSUME NEW i \in 1..Len(list) PROVE <<d, list[i].unit>> \in Job
      BY <2>2, <2>3 DEF TellsOf, ToSet, Job
    <3> QED BY <1>4, <2>3, <3>1 DEF TellsOf
  <2>4. Collects(d)'
    <3>1. TellsOf(d, out[d])'
      <4>1. TellsOf(d, out[d])
        BY <2>1 DEF Collects
      <4>2. \A i \in 1..Len(out[d]) : /\ out[d][i].unit \in ToSet(UnitsOf(d))
                                      /\ at'[<<d, out[d][i].unit>>] = "done"
                                      /\ out[d][i].digests = digests'[<<d, out[d][i].unit>>]
        BY <2>3, <4>1
      <4> QED BY <2>2, <4>2 DEF TellsOf
    <3>2. ASSUME NEW v \in Units PROVE TellsOf(d, loaded[<<d, v>>])'
      <4>1. TellsOf(d, loaded[<<d, v>>]) /\ TellsOf(d, out[d])
        BY <2>1 DEF Collects
      <4>2. loaded'[<<d, v>>] = loaded[<<d, v>>] \/ loaded'[<<d, v>>] = out[d]
        BY <1>1
      <4>3. \A i \in 1..Len(loaded'[<<d, v>>]) :
              /\ loaded'[<<d, v>>][i].unit \in ToSet(UnitsOf(d))
              /\ at'[<<d, loaded'[<<d, v>>][i].unit>>] = "done"
              /\ loaded'[<<d, v>>][i].digests = digests'[<<d, loaded'[<<d, v>>][i].unit>>]
        BY <2>3, <4>1, <4>2
      <4> QED BY <2>2, <4>3 DEF TellsOf
    <3> QED BY <3>1, <3>2 DEF Collects
  <2>5. ASSUME Kind(d) = "push", ~scenario[d].parallel, NEW i \in 1..Len(UnitsOf(d))
        PROVE  /\ at'[<<d, UnitsOf(d)[i]>>] = "done" <=> i <= Len(out[d])
               /\ at'[<<d, UnitsOf(d)[i]>>] # "idle" =>
                    \A j \in 1..i - 1 : at'[<<d, UnitsOf(d)[j]>>] = "done"
               /\ at'[<<d, UnitsOf(d)[i]>>] = "append" =>
                    loaded'[<<d, UnitsOf(d)[i]>>] = out[d]
    <3>1. /\ at[<<d, UnitsOf(d)[i]>>] = "done" <=> i <= Len(out[d])
          /\ at[<<d, UnitsOf(d)[i]>>] # "idle" =>
               \A j \in 1..i - 1 : at[<<d, UnitsOf(d)[j]>>] = "done"
          /\ at[<<d, UnitsOf(d)[i]>>] = "append" => loaded[<<d, UnitsOf(d)[i]>>] = out[d]
      BY <2>1, <2>5 DEF InOrder
    <3>2. \A j \in 1..Len(UnitsOf(d)) : UnitsOf(d)[j] \in Units /\ <<d, UnitsOf(d)[j]>> \in Job
      BY <1>1, <2>2
    <3>3. CASE d = c /\ UnitsOf(d)[i] = u
      <4>1. at'[<<d, UnitsOf(d)[i]>>] = "done" <=> i <= Len(out[d])
        BY <1>2, <2>5, <3>1, <3>3
      <4>2. \A j \in 1..i - 1 : at[<<d, UnitsOf(d)[j]>>] = "done"
        <5>1. CASE at[<<c, u>>] = "idle"
          <6>1. PICK k \in 1..Len(UnitsOf(c)) :
                  UnitsOf(c)[k] = u /\ \A j \in 1..k - 1 : at[<<c, UnitsOf(c)[j]>>] = "done"
            BY <2>5, <3>3, <5>1
          <6>2. k = i
            BY <2>2, <3>3, <6>1 DEF IsInjective
          <6> QED BY <3>3, <6>1, <6>2
        <5>2. CASE at[<<c, u>>] # "idle"
          BY <3>1, <3>3, <5>2
        <5> QED BY <5>1, <5>2
      <4>3. \A j \in 1..i - 1 : at'[<<d, UnitsOf(d)[j]>>] = "done"
        <5>1. \A j \in 1..i - 1 : j \in 1..Len(UnitsOf(d))
          BY <2>2
        <5> QED BY <1>4, <3>2, <4>2, <5>1
      <4> QED BY <1>2, <3>3, <4>1, <4>3
    <3>4. CASE ~(d = c /\ UnitsOf(d)[i] = u)
      <4>1. <<d, UnitsOf(d)[i]>> \in Job \ {<<c, u>>}
        BY <3>2, <3>4
      <4>2. \A j \in 1..i - 1 : j \in 1..Len(UnitsOf(d))
        BY <2>2
      <4> QED BY <1>2, <1>4, <3>1, <3>2, <4>1, <4>2
    <3> QED BY <3>3, <3>4
  <2>6. InOrder(d)'
    <3>1. CASE Kind(d) = "push" /\ ~scenario[d].parallel
      <4>1. Len(out[d]) <= Len(UnitsOf(d)) /\ \A i \in 1..Len(out[d]) : out[d][i].unit = UnitsOf(d)[i]
        BY <2>1, <3>1 DEF InOrder
      <4>2. \A i \in 1..Len(UnitsOf(d)) :
              /\ at'[<<d, UnitsOf(d)[i]>>] = "done" <=> i <= Len(out[d])
              /\ at'[<<d, UnitsOf(d)[i]>>] # "idle" =>
                   \A j \in 1..i - 1 : at'[<<d, UnitsOf(d)[j]>>] = "done"
              /\ at'[<<d, UnitsOf(d)[i]>>] = "append" =>
                   loaded'[<<d, UnitsOf(d)[i]>>] = out[d]
        BY <2>5, <3>1
      <4> QED BY <2>2, <4>1, <4>2 DEF InOrder
    <3>2. CASE ~(Kind(d) = "push" /\ ~scenario[d].parallel)
      BY <2>2, <3>2 DEF InOrder
    <3> QED BY <3>1, <3>2
  <2>7. Written(d)'
    <3>1. ASSUME NEW e \in Commands, Settled(e) PROVE Settled(e)'
      <4>1. \A v \in ToSet(UnitsOf(e)) : <<e, v>> \in Job
        BY UnitsAreUnits
      <4>2. UnitsOf(e)' = UnitsOf(e) /\ Kind(e)' = Kind(e)
        BY DEF UnitsOf, Kind
      <4> QED BY <1>4, <3>1, <4>1, <4>2 DEF Settled
    <3> QED BY <2>1, <3>1 DEF Written
  <2> QED BY <2>4, <2>6, <2>7
<1>7. ASSUME NEW d \in Commands, NEW v \in Units
      PROVE  WayOf(d, v)' /\ Tagged(d, v)' /\ Sends(d, v)'
  BY <1>5
<1> QED BY <1>3, <1>6, <1>7 DEF Push2

\* A step of one unit that pushes nothing.
LEMMA QuietJob ==
  ASSUME Push2, OwnTags, NEW c \in Commands, NEW u \in Units, NEW p \in Places,
         Typed, Typed', Goto(c, u, p), at[<<c, u>>] # "done", p # "idle",
         p = "done" => Kind(c) # "push",
         UNCHANGED <<scenario, tag, registry, sent, digests, pc, result, out, yaml, sh, writer>>,
         loaded' \in [Job -> Seq(Entry)],
         \A j \in Job \ {<<c, u>>} : loaded'[j] = loaded[j] /\ image'[j] = image[j],
         loaded'[<<c, u>>] \in {loaded[<<c, u>>], out[c]},
         p = "append" => loaded'[<<c, u>>] = out[c],
         at[<<c, u>>] = "idle" /\ Kind(c) = "push" /\ ~scenario[c].parallel =>
           \E i \in 1..Len(UnitsOf(c)) :
             UnitsOf(c)[i] = u /\ \A j \in 1..i - 1 : at[<<c, UnitsOf(c)[j]>>] = "done",
         p \in {"push", "load", "append"} => Kind(c) = "push",
         p = "afterpush" => Kind(c) \in {"push", "kaniko"},
         p = "afterbuild" => Kind(c) = "task",
         Kind(c) = "push" =>
           p \in {"push", "afterpush", "load", "append", "done", "failed"},
         p \in {"afterpush", "load", "append"} =>
           Len(digests[<<c, u>>]) = Len(RefsOf(c, u))
  PROVE  Push2'
<1>1. <<c, u>> \in Job /\ at \in [Job -> Places] /\ PushTyped
  BY DEF Typed, Push2, Job
<1>2. at'[<<c, u>>] = p /\ Kind(c)' = Kind(c) /\ RefsOf(c, u)' = RefsOf(c, u)
  BY <1>1 DEF Kind, RefsOf
<1>3. WayOf(c, u)' /\ Tagged(c, u)'
  BY <1>2 DEF WayOf, Tagged
<1>4. Sends(c, u)'
  <2>1. Sends(c, u)
    BY DEF Push2
  <2> QED BY <1>2, <2>1 DEF Sends, Stands
<1>5. registry' \in [Refs -> Nat] /\ sent' \in [Refs -> Seq(Commands)]
      /\ digests' \in [Job -> Seq(Nat)]
  BY <1>1 DEF PushTyped
<1>6. \A r \in Refs : tag'[r] >= tag[r]
  BY DEF Typed
<1>7. PICK R \in SUBSET Refs : R = {}
  OBVIOUS
<1> QED BY <1>3, <1>4, <1>5, <1>6, <1>7, JobStep

\* A step of a command as a whole.
LEMMA CommandStep ==
  ASSUME Push2, UNCHANGED <<scenario, tag, image, registry, sent, digests, loaded, at, out>>,
         pc' \in [Commands -> {"idle", "working", "yaml", "sh", "done"}],
         result' \in [Commands -> {"none", "ok", "error"}],
         writer' \in Commands \cup {"nobody"}, \A c \in Commands : Written(c)'
  PROVE  Push2'
<1>1. PushTyped'
  BY DEF Push2, PushTyped
<1>2. ASSUME NEW c \in Commands, NEW u \in Units PROVE WayOf(c, u)' /\ Tagged(c, u)' /\ Sends(c, u)'
  <2>1. WayOf(c, u) /\ Tagged(c, u) /\ Sends(c, u)
    BY DEF Push2
  <2>2. Kind(c)' = Kind(c) /\ RefsOf(c, u)' = RefsOf(c, u)
    BY DEF Kind, RefsOf
  <2>3. WayOf(c, u)' /\ Tagged(c, u)'
    BY <2>1, <2>2 DEF WayOf, Tagged
  <2>4. Sends(c, u)'
    BY <2>1, <2>2 DEF Sends, Stands
  <2> QED BY <2>3, <2>4
<1>3. ASSUME NEW c \in Commands PROVE Collects(c)' /\ InOrder(c)'
  <2>1. Collects(c) /\ InOrder(c)
    BY DEF Push2
  <2>2. UnitsOf(c)' = UnitsOf(c) /\ Kind(c)' = Kind(c)
    BY DEF UnitsOf, Kind
  <2> QED BY <2>1, <2>2 DEF Collects, TellsOf, InOrder
<1> QED BY <1>1, <1>2, <1>3 DEF Push2

LEMMA WrittenKeeps ==
  ASSUME Push2, NEW c \in Commands, UNCHANGED <<scenario, at, out, yaml, sh, writer>>,
         pc'[c] = pc[c], result'[c] = result[c],
         \A d \in Commands : pc[d] = "done" => pc'[d] = "done"
  PROVE  Written(c)'
<1>1. Written(c)
  BY DEF Push2
<1>2. \A d \in Commands : Settled(d)' <=> Settled(d)
  BY DEF Settled, Kind, UnitsOf
<1> QED BY <1>1, <1>2 DEF Written

LEMMA StartTells == ASSUME Push2, NEW c \in Commands, Start(c) PROVE Push2'
<1>1. pc[c] = "idle" /\ pc' = [pc EXCEPT ![c] = "working"]
      /\ UNCHANGED <<scenario, tag, image, registry, sent, digests, loaded, at, out, result,
                     yaml, sh, writer>>
  BY DEF Start, daemon, job, output
<1>2. PushTyped
  BY DEF Push2
<1>3. pc' \in [Commands -> {"idle", "working", "yaml", "sh", "done"}]
      /\ result' \in [Commands -> {"none", "ok", "error"}] /\ writer' \in Commands \cup {"nobody"}
      /\ pc'[c] = "working" /\ \A d \in Commands \ {c} : pc'[d] = pc[d]
  BY <1>1, <1>2 DEF PushTyped, Push2
<1>4. Written(c)'
  <2>1. Written(c)
    BY DEF Push2
  <2> QED BY <1>1, <1>3, <2>1 DEF Written
<1>5. ASSUME NEW d \in Commands \ {c} PROVE Written(d)'
  BY <1>1, <1>3, WrittenKeeps
<1> QED BY <1>1, <1>3, <1>4, <1>5, CommandStep

LEMMA EndOfModulesTells ==
  ASSUME Push2, Typed, NEW c \in Commands, EndOfModules(c) PROVE Push2'
<1>1. pc[c] = "working" /\ Finished(c)
      /\ UNCHANGED <<scenario, tag, image, registry, sent, digests, loaded, at, out, yaml, sh,
                     writer>>
  BY DEF EndOfModules, daemon, job, output
<1>2. PushTyped
  BY DEF Push2
<1>3. \/ /\ pc' = [pc EXCEPT ![c] = "yaml"] /\ result' = result
         /\ Kind(c) = "push" /\ ~Failed(c)
      \/ /\ pc' = [pc EXCEPT ![c] = "done"]
         /\ \E x \in {"ok", "error"} : result' = [result EXCEPT ![c] = x]
  BY DEF EndOfModules, Return
<1>4. pc' \in [Commands -> {"idle", "working", "yaml", "sh", "done"}]
      /\ result' \in [Commands -> {"none", "ok", "error"}] /\ writer' \in Commands \cup {"nobody"}
      /\ \A d \in Commands \ {c} : pc'[d] = pc[d] /\ result'[d] = result[d]
  BY <1>1, <1>2, <1>3 DEF PushTyped, Push2
<1>5. Written(c)'
  <2>1. Written(c) /\ (writer # c \/ writer = "nobody")
    BY <1>1 DEF Push2, Written
  <2>2. CASE pc' = [pc EXCEPT ![c] = "yaml"] /\ result' = result /\ Kind(c) = "push" /\ ~Failed(c)
    <3>1. Settled(c)
      BY <1>1, <2>2 DEF Settled, Finished, Failed, Ended
    <3>2. Settled(c)'
      BY <1>1, <3>1 DEF Settled, UnitsOf, Kind
    <3> QED BY <1>1, <1>2, <2>1, <2>2, <3>2 DEF Written, PushTyped
  <2>3. CASE pc' = [pc EXCEPT ![c] = "done"]
    BY <1>1, <1>2, <2>1, <2>3 DEF Written, PushTyped
  <2> QED BY <1>3, <2>2, <2>3
<1>6. \A d \in Commands : pc[d] = "done" => pc'[d] = "done"
  BY <1>1, <1>4
<1>7. ASSUME NEW d \in Commands \ {c} PROVE Written(d)'
  BY <1>1, <1>4, <1>6, WrittenKeeps
<1> QED BY <1>1, <1>4, <1>5, <1>7, CommandStep

LEMMA WriteYamlTells == ASSUME Push2, NEW c \in Commands, WriteYaml(c) PROVE Push2'
<1>1. pc[c] = "yaml" /\ pc' = [pc EXCEPT ![c] = "sh"] /\ yaml' = out[c] /\ writer' = c
      /\ UNCHANGED <<scenario, tag, image, registry, sent, digests, loaded, at, out, result>>
  BY DEF WriteYaml, daemon, job
<1>2. PushTyped /\ Written(c)
  BY DEF Push2
<1>3. pc' \in [Commands -> {"idle", "working", "yaml", "sh", "done"}]
      /\ result' \in [Commands -> {"none", "ok", "error"}] /\ writer' \in Commands \cup {"nobody"}
      /\ pc'[c] = "sh" /\ \A d \in Commands \ {c} : pc'[d] = pc[d]
  BY <1>1, <1>2 DEF PushTyped
<1>4. \A d \in Commands : Settled(d)' <=> Settled(d)
  BY <1>1 DEF Settled, Kind, UnitsOf
<1>5. Written(c)'
  BY <1>1, <1>2, <1>3, <1>4 DEF Written
<1>6. ASSUME NEW d \in Commands \ {c} PROVE Written(d)'
  <2>1. Written(d)
    BY DEF Push2
  <2> QED BY <1>1, <1>3, <1>4, <2>1 DEF Written
<1> QED BY <1>1, <1>3, <1>5, <1>6, CommandStep

LEMMA WriteEnvTells == ASSUME Push2, NEW c \in Commands, WriteEnv(c) PROVE Push2'
<1>1. pc[c] = "sh" /\ pc' = [pc EXCEPT ![c] = "done"] /\ sh' = out[c]
      /\ result' = [result EXCEPT ![c] = "ok"]
      /\ UNCHANGED <<scenario, tag, image, registry, sent, digests, loaded, at, out, yaml, writer>>
  BY DEF WriteEnv, daemon, job, Return
<1>2. PushTyped /\ Written(c)
  BY DEF Push2
<1>3. pc' \in [Commands -> {"idle", "working", "yaml", "sh", "done"}]
      /\ result' \in [Commands -> {"none", "ok", "error"}] /\ writer' \in Commands \cup {"nobody"}
      /\ pc'[c] = "done" /\ \A d \in Commands \ {c} : pc'[d] = pc[d] /\ result'[d] = result[d]
  BY <1>1, <1>2 DEF PushTyped, Push2
<1>4. (\A d \in Commands : Settled(d)' <=> Settled(d)) /\ Settled(c)
  BY <1>1, <1>2 DEF Settled, Kind, UnitsOf, Written
<1>5. Written(c)'
  BY <1>1, <1>2, <1>3, <1>4 DEF Written
<1>6. ASSUME NEW d \in Commands \ {c} PROVE Written(d)'
  <2>1. Written(d)
    BY DEF Push2
  <2>2. pc'[c] = "done" /\ Settled(c)' /\ sh' = out'[c] /\ c \in Commands \ {d}
    BY <1>1, <1>3, <1>4
  <2> QED BY <1>1, <1>3, <1>4, <2>1, <2>2 DEF Written
<1> QED BY <1>1, <1>3, <1>5, <1>6, CommandStep

LEMMA StartUnitTells ==
  ASSUME Push2, OwnTags, Typed, Typed', NEW c \in Commands, NEW u \in Units, StartUnit(c, u)
  PROVE  Push2'
<1>1. at[<<c, u>>] = "idle" /\ Goto(c, u, IF Kind(c) = "push" THEN "push" ELSE "hash")
      /\ UNCHANGED <<scenario, tag, registry, sent, digests, loaded, image, pc, result, out,
                     yaml, sh, writer>>
  BY DEF StartUnit, daemon, command, output
<1>2. ~scenario[c].parallel =>
        \E i \in 1..Len(UnitsOf(c)) :
          UnitsOf(c)[i] = u /\ \A j \in 1..i - 1 : at[<<c, UnitsOf(c)[j]>>] = "done"
  <2>1. DOMAIN UnitsOf(c) = 1..Len(UnitsOf(c))
    BY DEF Typed, UnitsOf
  <2> QED BY <2>1 DEF StartUnit
<1>3. loaded' \in [Job -> Seq(Entry)] /\ <<c, u>> \in Job
  BY <1>1 DEF Push2, PushTyped, Job
<1>4. /\ \A j \in Job \ {<<c, u>>} : loaded'[j] = loaded[j] /\ image'[j] = image[j]
      /\ loaded'[<<c, u>>] \in {loaded[<<c, u>>], out[c]} /\ at[<<c, u>>] # "done"
  BY <1>1
<1>5. CASE Kind(c) = "push"
  <2>1. Goto(c, u, "push") /\ "push" \in Places
    BY <1>1, <1>5 DEF Places
  <2>2. "push" # "idle" /\ "push" # "done" /\ "push" # "append" /\ "push" # "afterpush"
        /\ "push" # "afterbuild" /\ "push" \notin {"afterpush", "load", "append"}
        /\ "push" \in {"push", "afterpush", "load", "append", "done", "failed"}
    OBVIOUS
  <2> QED BY <1>1, <1>2, <1>3, <1>4, <1>5, <2>1, <2>2, QuietJob
<1>6. CASE Kind(c) # "push"
  <2>1. Goto(c, u, "hash") /\ "hash" \in Places
    BY <1>1, <1>6 DEF Places
  <2>2. "hash" # "idle" /\ "hash" # "done" /\ "hash" # "append" /\ "hash" # "afterpush"
        /\ "hash" # "afterbuild" /\ "hash" \notin {"push", "load", "append"}
        /\ "hash" \notin {"afterpush", "load", "append"}
    OBVIOUS
  <2> QED BY <1>1, <1>3, <1>4, <1>6, <2>1, <2>2, QuietJob
<1> QED BY <1>5, <1>6

\* Steps that fail, and steps of builds and tasks.
LEMMA OwnJob ==
  ASSUME Push2, OwnTags, Typed, Typed', NEW c \in Commands, NEW u \in Units, NEW p \in Places,
         Goto(c, u, p), at[<<c, u>>] \notin {"idle", "done"},
         UNCHANGED <<scenario, tag, registry, sent, digests, loaded, pc, result, out,
                     yaml, sh, writer>>,
         \A j \in Job \ {<<c, u>>} : image'[j] = image[j],
         \/ p = "failed"
         \/ Kind(c) # "push" /\ p \in {"hash", "build", "create", "done"}
         \/ p = "afterbuild" /\ Kind(c) = "task"
         \/ /\ p = "afterpush" /\ Kind(c) \in {"push", "kaniko"}
            /\ Len(digests[<<c, u>>]) = Len(RefsOf(c, u))
         \/ p = "load" /\ at[<<c, u>>] = "afterpush" /\ Kind(c) = "push"
  PROVE  Push2'
<1>1. loaded' \in [Job -> Seq(Entry)] /\ <<c, u>> \in Job /\ Sends(c, u)
  BY DEF Push2, PushTyped, Job
<1>2. p # "idle" /\ p # "append" /\ p # "push" /\ (p = "done" => Kind(c) # "push")
      /\ (p = "load" => Kind(c) = "push")
      /\ (p = "afterpush" => Kind(c) \in {"push", "kaniko"}) /\ (p = "afterbuild" => Kind(c) = "task")
  OBVIOUS
<1>3. Kind(c) = "push" => p \in {"push", "afterpush", "load", "append", "done", "failed"}
  OBVIOUS
<1>4. p \in {"afterpush", "load", "append"} => Len(digests[<<c, u>>]) = Len(RefsOf(c, u))
  BY <1>1 DEF Sends
<1> QED BY <1>1, <1>2, <1>3, <1>4, QuietJob

LEMMA HashTells ==
  ASSUME Push2, OwnTags, Typed, Typed', NEW c \in Commands, NEW u \in Units, Hash(c, u)
  PROVE  Push2'
<1>1. at[<<c, u>>] = "hash"
      /\ UNCHANGED <<scenario, tag, registry, sent, digests, loaded, pc, result, out,
                     yaml, sh, writer>>
  BY DEF Hash, daemon, command, output
<1>2. \/ Goto(c, u, "afterbuild") /\ Kind(c) = "task"
      \/ Goto(c, u, "build")
  BY DEF Hash
<1>3. \A j \in Job \ {<<c, u>>} : image'[j] = image[j]
  BY DEF Hash, Typed
<1>4. Kind(c) # "push"
  BY <1>1 DEF Push2, WayOf
<1>5. "build" \in Places /\ "afterbuild" \in Places
  BY DEF Places
<1> QED BY <1>1, <1>2, <1>3, <1>4, <1>5, OwnJob

LEMMA BuildTells ==
  ASSUME Push2, OwnTags, Inv, Typed', NEW c \in Commands, NEW u \in Units, Build(c, u)
  PROVE  Push2'
<1>1. at[<<c, u>>] = "build" /\ Kind(c) # "kaniko" /\ Typed
      /\ UNCHANGED <<scenario, registry, sent, digests, loaded, pc, result, out, yaml, sh, writer>>
  BY DEF Build, command, output, Inv
<1>2. Kind(c) # "push"
  BY <1>1 DEF Push2, WayOf
<1>3. CASE Fail(c, u) /\ UNCHANGED <<daemon, image>>
  <2>1. Goto(c, u, "failed") /\ UNCHANGED <<tag, image>> /\ "failed" \in Places
    BY <1>3 DEF Fail, daemon, Places
  <2> QED BY <1>1, <2>1, OwnJob
<1>4. CASE /\ images' = Append(images, [df |-> source[u], given |-> hashed[<<c, u>>], unit |-> u,
                                        label |-> LabelFor(c, u)])
           /\ tag' = [r \in Refs |-> IF r \in ToSet(TagsOrName(u)) THEN Len(images') ELSE tag[r]]
           /\ image' = [image EXCEPT ![<<c, u>>] = Len(images')]
           /\ Goto(c, u, "afterbuild")
  <2>1. Len(images) \in Nat /\ Len(images') = Len(images) + 1 /\ <<c, u>> \in Job /\ PushTyped
    BY <1>1, <1>4 DEF Typed, Job, Push2
  <2>2. \A r \in Refs : tag'[r] >= tag[r]
    <3>1. \A r \in Refs : tag[r] \in Nat /\ tag[r] <= Len(images)
      BY <1>1 DEF Typed, Inv, TagsFollow
    <3> QED BY <1>4, <2>1, <3>1
  <2>3. at'[<<c, u>>] = "afterbuild" /\ image'[<<c, u>>] = Len(images')
        /\ \A j \in Job \ {<<c, u>>} : image'[j] = image[j]
    BY <1>1, <1>4, <2>1 DEF Typed
  <2>4. Kind(c)' = Kind(c) /\ RefsOf(c, u)' = RefsOf(c, u)
    BY <1>1 DEF Kind, RefsOf
  <2>5. WayOf(c, u)'
    BY <1>2, <2>3, <2>4 DEF WayOf
  <2>6. Tagged(c, u)'
    <3>1. \A r \in ToSet(TagsOrName(u)) : r \in Refs
      BY DEF Refs
    <3>2. \A r \in ToSet(TagsOrName(u)) : tag'[r] = Len(images')
      BY <1>4, <3>1
    <3>3. Len(images') >= Len(images')
      BY <2>1
    <3> QED BY <2>3, <3>2, <3>3 DEF Tagged
  <2>7. Sends(c, u)'
    <3>1. Sends(c, u)
      BY DEF Push2
    <3> QED BY <1>1, <2>3, <2>4, <3>1 DEF Sends, Stands
  <2>8. PICK R \in SUBSET Refs : R = {}
    OBVIOUS
  <2>9. registry' \in [Refs -> Nat] /\ sent' \in [Refs -> Seq(Commands)]
        /\ digests' \in [Job -> Seq(Nat)] /\ loaded' \in [Job -> Seq(Entry)]
    BY <1>1, <2>1 DEF PushTyped
  <2>10. "afterbuild" \in Places
    BY DEF Places
  <2> QED BY <1>1, <1>4, <2>2, <2>3, <2>5, <2>6, <2>7, <2>8, <2>9, <2>10, JobStep
<1> QED BY <1>3, <1>4 DEF Build

LEMMA KanikoTells ==
  ASSUME Push2, OwnTags, Inv, Typed', NEW c \in Commands, NEW u \in Units, KanikoBuild(c, u)
  PROVE  Push2'
<1>1. at[<<c, u>>] = "build" /\ Kind(c) = "kaniko" /\ Typed
      /\ UNCHANGED <<scenario, tag, loaded, pc, result, out, yaml, sh, writer>>
  BY DEF KanikoBuild, command, output, Inv
<1>2. CASE Fail(c, u) /\ UNCHANGED <<images, registry, sent, image, digests>>
  <2>1. Goto(c, u, "failed") /\ "failed" \in Places
    BY <1>2 DEF Fail, Places
  <2> QED BY <1>1, <1>2, <2>1, OwnJob
<1>3. ASSUME NEW refs, refs = TagsOrName(u),
             images' = Append(images, [df |-> source[u], given |-> hashed[<<c, u>>], unit |-> u,
                                       label |-> NoLabel]),
             registry' = [r \in Refs |-> IF r \in ToSet(refs) THEN Len(images') ELSE registry[r]],
             sent' = [r \in Refs |-> IF r \in ToSet(refs) THEN Append(sent[r], c) ELSE sent[r]],
             image' = [image EXCEPT ![<<c, u>>] = Len(images')],
             digests' = [digests EXCEPT ![<<c, u>>] = [i \in DOMAIN refs |-> Len(images')]],
             Goto(c, u, "afterbuild")
      PROVE  Push2'
  <2>1. Len(images') \in Nat /\ <<c, u>> \in Job /\ PushTyped
    BY <1>1, <1>3 DEF Typed, Job, Push2
  <2>2. refs \in Seq(ToSet(refs)) /\ DOMAIN refs = 1..Len(refs)
    <3>1. CASE Tags[u] = <<>>
      BY <1>3, <3>1 DEF TagsOrName, ToSet
    <3>2. CASE Tags[u] # <<>>
      <4>1. refs = Tags[u] /\ Tags[u] \in Seq(ToSet(Tags[u]))
        BY <1>3, <3>2, ConstantsAssumption DEF TagsOrName
      <4> QED BY <4>1
    <3> QED BY <3>1, <3>2
  <2>3. PICK list : list = [i \in DOMAIN refs |-> Len(images')]
    OBVIOUS
  <2>4. list \in Seq(Nat) /\ Len(list) = Len(refs) /\ \A i \in 1..Len(refs) : list[i] = Len(images')
    BY <2>1, <2>2, <2>3
  <2>5. registry' \in [Refs -> Nat] /\ digests' \in [Job -> Seq(Nat)] /\ loaded' \in [Job -> Seq(Entry)]
    BY <1>1, <1>3, <2>1, <2>3, <2>4 DEF PushTyped
  <2>6. sent' \in [Refs -> Seq(Commands)]
    BY <1>3, <2>1 DEF PushTyped
  <2>7. at'[<<c, u>>] = "afterbuild" /\ digests'[<<c, u>>] = list
        /\ \A j \in Job \ {<<c, u>>} : image'[j] = image[j] /\ digests'[j] = digests[j]
    BY <1>1, <1>3, <2>1, <2>3 DEF Typed, PushTyped
  <2>8. Kind(c)' = "kaniko" /\ RefsOf(c, u)' = refs
    BY <1>1, <1>3 DEF Kind, RefsOf
  <2>9. WayOf(c, u)' /\ Tagged(c, u)'
    BY <2>7, <2>8 DEF WayOf, Tagged
  <2>10. Sends(c, u)'
    <3>1. \A i \in 1..Len(refs) : refs[i] \in ToSet(refs) /\ refs[i] \in Refs
      BY <1>3, <2>2 DEF Refs
    <3>2. \A i \in 1..Len(refs) : registry'[refs[i]] = list[i]
      BY <1>3, <2>4, <3>1
    <3>3. Len(list) <= Len(refs)
      BY <2>2, <2>4
    <3> QED BY <2>4, <2>7, <2>8, <3>2, <3>3 DEF Sends, Stands
  <2>11. PICK R \in SUBSET Refs : R = ToSet(refs)
    BY <1>3 DEF Refs
  <2>12. /\ \A r \in Refs \ R : registry'[r] = registry[r] /\ sent'[r] = sent[r]
         /\ \A r \in R : sent'[r] = Append(sent[r], c)
    BY <1>3, <2>11
  <2>13. \A r \in Refs : tag'[r] >= tag[r]
    BY <1>1 DEF Typed
  <2>14. "afterbuild" \in Places
    BY DEF Places
  <2> QED BY <1>1, <1>3, <2>5, <2>6, <2>7, <2>9, <2>10, <2>11, <2>12, <2>13, <2>14, JobStep
<1> QED BY <1>2, <1>3 DEF KanikoBuild

LEMMA AfterBuildTells ==
  ASSUME Push2, OwnTags, Typed, Typed', NEW c \in Commands, NEW u \in Units, AfterBuild(c, u)
  PROVE  Push2'
<1>1. at[<<c, u>>] = "afterbuild"
      /\ UNCHANGED <<scenario, tag, registry, sent, digests, loaded, image, pc, result, out,
                     yaml, sh, writer>>
  BY DEF AfterBuild, daemon, command, output
<1>2. Kind(c) # "push" /\ (Kind(c) = "kaniko" => Len(digests[<<c, u>>]) = Len(RefsOf(c, u)))
  BY <1>1 DEF Push2, WayOf, Sends
<1>3. "failed" \in Places /\ "create" \in Places /\ "afterpush" \in Places /\ "done" \in Places
  BY DEF Places
<1>4. \/ Goto(c, u, "failed")
      \/ Goto(c, u, "create")
      \/ Goto(c, u, "afterpush") /\ Kind(c) = "kaniko"
      \/ Goto(c, u, "done")
  BY DEF AfterBuild, Fail
<1>5. \A j \in Job \ {<<c, u>>} : image'[j] = image[j]
  BY <1>1
<1> QED BY <1>1, <1>2, <1>3, <1>4, <1>5, OwnJob

LEMMA CreateTells ==
  ASSUME Push2, OwnTags, Typed, Typed', NEW c \in Commands, NEW u \in Units, CreateContainer(c, u)
  PROVE  Push2'
<1>1. at[<<c, u>>] = "create" /\ Goto(c, u, "done")
      /\ UNCHANGED <<scenario, tag, registry, sent, digests, loaded, image, pc, result, out,
                     yaml, sh, writer>>
  BY DEF CreateContainer, daemon, command, output
<1>2. Kind(c) # "push" /\ "done" \in Places
  BY <1>1 DEF Push2, WayOf, Places
<1>3. \A j \in Job \ {<<c, u>>} : image'[j] = image[j]
  BY <1>1
<1> QED BY <1>1, <1>2, <1>3, OwnJob

LEMMA PushTells ==
  ASSUME Push2, OwnTags, Typed, Typed', NEW c \in Commands, NEW u \in Units, Push(c, u)
  PROVE  Push2'
<1>1. at[<<c, u>>] = "push" /\ Len(digests[<<c, u>>]) < Len(Tags[u])
      /\ UNCHANGED <<scenario, tag, loaded, image, pc, result, out, yaml, sh, writer>>
  BY DEF Push, daemon, command, output
<1>2. Kind(c) = "push" /\ PushTyped /\ <<c, u>> \in Job /\ Sends(c, u)
      /\ "failed" \in Places /\ "push" \in Places
  BY <1>1 DEF Push2, WayOf, Job, Places
<1>3. PICK r : r = Tags[u][Len(digests[<<c, u>>]) + 1]
  OBVIOUS
<1>4. PICK n : n = Len(digests[<<c, u>>])
  OBVIOUS
<1>5. digests[<<c, u>>] \in Seq(Nat) /\ n \in Nat /\ Tags[u] # <<>> /\ RefsOf(c, u) = Tags[u]
  BY <1>1, <1>2, <1>4 DEF PushTyped, RefsOf
<1>6. RefsOf(c, u)' = Tags[u] /\ Kind(c)' = Kind(c)
  BY <1>1, <1>2 DEF RefsOf, Kind
<1>7. n + 1 \in 1..Len(Tags[u]) /\ r = Tags[u][n + 1] /\ n < Len(Tags[u])
  BY <1>1, <1>3, <1>4, <1>5
<1>8. r \in ToSet(TagsOrName(u)) /\ r \in Refs
  BY <1>5, <1>7, RefsAreRefs
<1>9. CASE Goto(c, u, "failed") /\ UNCHANGED <<registry, sent, digests>>
  <2>1. \A j \in Job \ {<<c, u>>} : image'[j] = image[j]
    BY <1>1
  <2> QED BY <1>1, <1>2, <1>9, <2>1, OwnJob
<1>10. CASE /\ registry' = [registry EXCEPT ![r] = tag[r]]
            /\ sent' = [sent EXCEPT ![r] = Append(@, c)]
            /\ digests' = [digests EXCEPT ![<<c, u>>] = Append(@, tag[r])]
            /\ UNCHANGED at
  <2>1. tag[r] \in Nat /\ at' = [at EXCEPT ![<<c, u>>] = "push"]
    BY <1>1, <1>8, <1>10 DEF Typed
  <2>2. digests'[<<c, u>>] = Append(digests[<<c, u>>], tag[r])
        /\ \A j \in Job \ {<<c, u>>} : digests'[j] = digests[j]
    BY <1>2, <1>10 DEF PushTyped
  <2>3. registry'[r] = tag[r] /\ sent'[r] = Append(sent[r], c)
        /\ \A x \in Refs \ {r} : registry'[x] = registry[x] /\ sent'[x] = sent[x]
    BY <1>2, <1>8, <1>10 DEF PushTyped
  <2>4. registry' \in [Refs -> Nat]
    BY <1>2, <1>10, <2>1 DEF PushTyped
  <2>5. sent' \in [Refs -> Seq(Commands)]
    <3>1. sent[r] \in Seq(Commands)
      BY <1>2, <1>8 DEF PushTyped
    <3>2. Append(sent[r], c) \in Seq(Commands)
      BY <3>1
    <3> QED BY <1>2, <1>8, <1>10, <3>2 DEF PushTyped
  <2>6. digests' \in [Job -> Seq(Nat)]
    BY <1>2, <1>10, <2>1 DEF PushTyped
  <2>7. loaded' \in [Job -> Seq(Entry)]
    BY <1>1, <1>2 DEF PushTyped
  <2>8. WayOf(c, u)' /\ Tagged(c, u)'
    BY <1>1, <1>2, <1>6, <1>10 DEF WayOf, Tagged
  <2>9. Sends(c, u)'
    <3>1. Len(digests'[<<c, u>>]) = n + 1 /\ digests'[<<c, u>>][n + 1] = tag[r]
          /\ \A i \in 1..n : digests'[<<c, u>>][i] = digests[<<c, u>>][i]
      BY <1>4, <1>5, <2>1, <2>2
    <3>2. at'[<<c, u>>] = "push" /\ Len(Tags[u]) \in Nat
      BY <1>1, <1>5, <1>10
    <3>3. ASSUME NEW i \in 1..n + 1
          PROVE  \/ registry'[Tags[u][i]] = digests'[<<c, u>>][i]
                 \/ sent'[Tags[u][i]] # <<>> /\ Last(sent'[Tags[u][i]]) # c
      <4>1. CASE i = n + 1
        BY <1>7, <2>3, <3>1, <4>1
      <4>2. CASE i # n + 1
        <5>1. i \in 1..n /\ i \in 1..Len(Tags[u])
          BY <1>5, <1>7, <3>2, <4>2
        <5>2. Tags[u][i] # r
          BY <1>7, <4>2, <5>1 DEF OwnTags, IsInjective
        <5>3. Tags[u][i] \in Refs
          BY <1>5, <5>1, RefsAreRefs
        <5>4. Stands(c, Tags[u][i], digests[<<c, u>>][i])
          BY <1>2, <1>4, <1>5, <5>1 DEF Sends
        <5> QED BY <2>3, <3>1, <5>1, <5>2, <5>3, <5>4 DEF Stands
      <4> QED BY <4>1, <4>2
    <3>4. n + 1 <= Len(Tags[u])
      BY <1>7
    <3> QED BY <1>6, <3>1, <3>2, <3>3, <3>4 DEF Sends, Stands
  <2>10. PICK R \in SUBSET Refs : R = {r}
    BY <1>8
  <2>11. /\ R \subseteq ToSet(TagsOrName(u))
         /\ \A x \in Refs \ R : registry'[x] = registry[x] /\ sent'[x] = sent[x]
         /\ \A x \in R : sent'[x] = Append(sent[x], c)
    BY <1>8, <2>3, <2>10
  <2>12. \A x \in Refs : tag'[x] >= tag[x]
    BY <1>1 DEF Typed
  <2>13. /\ loaded'[<<c, u>>] \in {loaded[<<c, u>>], out[c]}
         /\ \A j \in Job \ {<<c, u>>} : /\ digests'[j] = digests[j] /\ loaded'[j] = loaded[j]
                                        /\ image'[j] = image[j]
    BY <1>1, <2>2
  <2>14. PICK p \in Places : p = "push"
    BY <1>2
  <2>15. at[<<c, u>>] # "done" /\ p # "idle" /\ p # "done" /\ p # "append"
         /\ at[<<c, u>>] # "idle" /\ at' = [at EXCEPT ![<<c, u>>] = p]
    BY <1>1, <2>1, <2>14
  <2>16. UNCHANGED <<scenario, pc, result, out, yaml, sh, writer>>
    BY <1>1
  <2> QED BY <2>4, <2>5, <2>6, <2>7, <2>8, <2>9, <2>10, <2>11, <2>12, <2>13, <2>14, <2>15,
             <2>16, JobStep
<1> QED BY <1>3, <1>9, <1>10 DEF Push, Fail

LEMMA PushedTells ==
  ASSUME Push2, OwnTags, Typed, Typed', NEW c \in Commands, NEW u \in Units, Pushed(c, u)
  PROVE  Push2'
<1>1. at[<<c, u>>] = "push" /\ Goto(c, u, "afterpush") /\ Len(digests[<<c, u>>]) = Len(Tags[u])
      /\ UNCHANGED <<scenario, tag, registry, sent, digests, loaded, image, pc, result, out,
                     yaml, sh, writer>>
  BY DEF Pushed, daemon, command, output
<1>2. Kind(c) = "push" /\ "afterpush" \in Places
  BY <1>1 DEF Push2, WayOf, Places
<1>3. Len(digests[<<c, u>>]) = Len(RefsOf(c, u))
  BY <1>1, <1>2 DEF RefsOf
<1>4. \A j \in Job \ {<<c, u>>} : image'[j] = image[j]
  BY <1>1
<1> QED BY <1>1, <1>2, <1>3, <1>4, OwnJob

LEMMA AfterPushTells ==
  ASSUME Push2, OwnTags, Typed, Typed', NEW c \in Commands, NEW u \in Units, AfterPush(c, u)
  PROVE  Push2'
<1>1. at[<<c, u>>] = "afterpush"
      /\ UNCHANGED <<scenario, tag, registry, sent, digests, loaded, image, pc, result, out,
                     yaml, sh, writer>>
  BY DEF AfterPush, daemon, command, output
<1>2. Kind(c) \in {"push", "kaniko"} /\ "failed" \in Places /\ "done" \in Places /\ "load" \in Places
  BY <1>1 DEF Push2, WayOf, Places
<1>3. \/ Goto(c, u, "failed")
      \/ Goto(c, u, "done") /\ Kind(c) # "push"
      \/ Goto(c, u, "load") /\ Kind(c) = "push"
  BY <1>2 DEF AfterPush, Fail
<1>4. \A j \in Job \ {<<c, u>>} : image'[j] = image[j]
  BY <1>1
<1> QED BY <1>1, <1>2, <1>3, <1>4, OwnJob

LEMMA LoadTells ==
  ASSUME Push2, OwnTags, Typed, Typed', NEW c \in Commands, NEW u \in Units, Load(c, u)
  PROVE  Push2'
<1>1. at[<<c, u>>] = "load" /\ Goto(c, u, "append")
      /\ loaded' = [loaded EXCEPT ![<<c, u>>] = out[c]]
      /\ UNCHANGED <<scenario, tag, registry, sent, digests, image, pc, result, out,
                     yaml, sh, writer>>
  BY DEF Load, daemon, command, output
<1>2. Kind(c) = "push" /\ PushTyped /\ <<c, u>> \in Job /\ "append" \in Places
      /\ Len(digests[<<c, u>>]) = Len(RefsOf(c, u))
  BY <1>1 DEF Push2, WayOf, Sends, Job, Places
<1>3. loaded' \in [Job -> Seq(Entry)] /\ loaded'[<<c, u>>] = out[c]
      /\ \A j \in Job \ {<<c, u>>} : loaded'[j] = loaded[j] /\ image'[j] = image[j]
  BY <1>1, <1>2 DEF PushTyped
<1>4. at[<<c, u>>] # "idle" /\ at[<<c, u>>] # "done" /\ loaded'[<<c, u>>] \in {loaded[<<c, u>>], out[c]}
  BY <1>1, <1>3
<1>5. "append" # "idle" /\ "append" # "done" /\ "append" # "afterpush" /\ "append" # "afterbuild"
      /\ "append" \in {"push", "afterpush", "load", "append", "done", "failed"}
  OBVIOUS
<1> QED BY <1>1, <1>2, <1>3, <1>4, <1>5, QuietJob

LEMMA AppendTells ==
  ASSUME Push2, OwnTags, Typed, Typed', NEW c \in Commands, NEW u \in ToSet(UnitsOf(c)),
         AppendModule(c, u)
  PROVE  Push2'
<1>1. PICK e : e = [unit |-> u, digests |-> digests[<<c, u>>]]
  OBVIOUS
<1>2. at[<<c, u>>] = "append" /\ Goto(c, u, "done")
      /\ out' = [out EXCEPT ![c] = Append(loaded[<<c, u>>], e)]
      /\ UNCHANGED <<scenario, tag, registry, sent, digests, loaded, image, pc, result,
                     yaml, sh, writer>>
  BY <1>1 DEF AppendModule, daemon, output
<1>3. PushTyped /\ u \in Units /\ <<c, u>> \in Job /\ at \in [Job -> Places]
      /\ \A d \in Commands, v \in Units : <<d, v>> \in Job
  BY UnitsAreUnits DEF Push2, Typed, Job
<1>4. Kind(c) = "push" /\ Len(digests[<<c, u>>]) = Len(RefsOf(c, u))
  BY <1>2, <1>3 DEF Push2, WayOf, Sends
<1>5. loaded[<<c, u>>] \in Seq(Entry) /\ e \in Entry /\ e.unit = u /\ e.digests = digests[<<c, u>>]
  BY <1>1, <1>3 DEF PushTyped, Entry
<1>6. at'[<<c, u>>] = "done" /\ (\A j \in Job \ {<<c, u>>} : at'[j] = at[j])
      /\ out'[c] = Append(loaded[<<c, u>>], e) /\ \A d \in Commands \ {c} : out'[d] = out[d]
  BY <1>2, <1>3 DEF PushTyped
<1>7. \A j \in Job : at[j] = "done" => at'[j] = "done"
  BY <1>6
<1>8. PushTyped' /\ writer' \in Commands \cup {"nobody"}
  <2>1. out' \in [Commands -> Seq(Entry)]
    BY <1>2, <1>3, <1>5 DEF PushTyped
  <2> QED BY <1>2, <1>3, <2>1 DEF PushTyped, Push2
<1>9. ASSUME NEW d \in Commands
      PROVE  UnitsOf(d) \in Seq(Units) /\ IsInjective(UnitsOf(d)) /\ UnitsOf(d)' = UnitsOf(d)
             /\ Kind(d)' = Kind(d)
  BY <1>2 DEF Typed, UnitsOf, Kind
<1>10. ASSUME NEW d \in Commands, NEW v \in Units
       PROVE  WayOf(d, v)' /\ Tagged(d, v)' /\ Sends(d, v)'
  <2>1. WayOf(d, v) /\ Tagged(d, v) /\ Sends(d, v)
    BY DEF Push2
  <2>2. Kind(d)' = Kind(d) /\ RefsOf(d, v)' = RefsOf(d, v) /\ <<d, v>> \in Job
    BY <1>2, <1>3 DEF Kind, RefsOf
  <2>3. CASE <<d, v>> = <<c, u>>
    <3>1. WayOf(d, v)' /\ Tagged(d, v)'
      BY <1>6, <2>2, <2>3 DEF WayOf, Tagged
    <3>2. Sends(d, v)'
      BY <1>2, <1>4, <1>6, <2>1, <2>2, <2>3 DEF Sends, Stands
    <3> QED BY <3>1, <3>2
  <2>4. CASE <<d, v>> # <<c, u>>
    <3>1. at'[<<d, v>>] = at[<<d, v>>]
      BY <1>6, <2>2, <2>4
    <3>2. WayOf(d, v)' /\ Tagged(d, v)'
      BY <1>2, <2>1, <2>2, <3>1 DEF WayOf, Tagged
    <3>3. Sends(d, v)'
      BY <1>2, <2>1, <2>2, <3>1 DEF Sends, Stands
    <3> QED BY <3>2, <3>3
  <2> QED BY <2>3, <2>4
<1>11. ASSUME NEW d \in Commands, NEW list, TellsOf(d, list)
       PROVE  \A i \in 1..Len(list) : /\ list[i].unit \in ToSet(UnitsOf(d))
                                      /\ at'[<<d, list[i].unit>>] = "done"
                                      /\ list[i].digests = digests'[<<d, list[i].unit>>]
  <2>1. ASSUME NEW i \in 1..Len(list) PROVE <<d, list[i].unit>> \in Job
    BY <1>9, <1>11 DEF TellsOf, ToSet, Job
  <2> QED BY <1>2, <1>7, <1>11, <2>1 DEF TellsOf
<1>12. ASSUME NEW d \in Commands PROVE Collects(d)'
  <2>1. TellsOf(d, out[d]) /\ \A v \in Units : TellsOf(d, loaded[<<d, v>>])
    BY DEF Push2, Collects
  <2>2. TellsOf(d, out[d])'
    <3>1. CASE d = c
      <4>1. PICK n : n = Len(loaded[<<c, u>>])
        OBVIOUS
      <4>2. n \in Nat /\ Len(out'[c]) = n + 1 /\ out'[c][n + 1] = e
            /\ \A i \in 1..n : out'[c][i] = loaded[<<c, u>>][i]
        BY <1>5, <1>6, <4>1
      <4>3. \A i \in 1..n : /\ loaded[<<c, u>>][i].unit \in ToSet(UnitsOf(c))
                            /\ at'[<<c, loaded[<<c, u>>][i].unit>>] = "done"
                            /\ loaded[<<c, u>>][i].digests
                                 = digests'[<<c, loaded[<<c, u>>][i].unit>>]
        BY <1>3, <1>11, <2>1, <3>1, <4>1
      <4>4. e.unit \in ToSet(UnitsOf(c)) /\ at'[<<c, e.unit>>] = "done"
            /\ e.digests = digests'[<<c, e.unit>>]
        BY <1>2, <1>5, <1>6
      <4>5. ASSUME NEW i \in 1..n + 1
            PROVE  /\ out'[c][i].unit \in ToSet(UnitsOf(c))
                   /\ at'[<<c, out'[c][i].unit>>] = "done"
                   /\ out'[c][i].digests = digests'[<<c, out'[c][i].unit>>]
        <5>1. CASE i = n + 1
          BY <4>2, <4>4, <5>1
        <5>2. CASE i \in 1..n
          BY <4>2, <4>3, <5>2
        <5> QED BY <4>2, <5>1, <5>2
      <4> QED BY <1>9, <3>1, <4>2, <4>5 DEF TellsOf
    <3>2. CASE d # c
      <4>1. \A i \in 1..Len(out[d]) : /\ out[d][i].unit \in ToSet(UnitsOf(d))
                                      /\ at'[<<d, out[d][i].unit>>] = "done"
                                      /\ out[d][i].digests = digests'[<<d, out[d][i].unit>>]
        BY <1>11, <2>1
      <4> QED BY <1>6, <1>9, <3>2, <4>1 DEF TellsOf
    <3> QED BY <3>1, <3>2
  <2>3. ASSUME NEW v \in Units PROVE TellsOf(d, loaded[<<d, v>>])'
    <3>1. TellsOf(d, loaded[<<d, v>>])
      BY <2>1
    <3>2. \A i \in 1..Len(loaded[<<d, v>>]) :
            /\ loaded[<<d, v>>][i].unit \in ToSet(UnitsOf(d))
            /\ at'[<<d, loaded[<<d, v>>][i].unit>>] = "done"
            /\ loaded[<<d, v>>][i].digests = digests'[<<d, loaded[<<d, v>>][i].unit>>]
      BY <1>11, <3>1
    <3> QED BY <1>2, <1>9, <3>2 DEF TellsOf
  <2> QED BY <2>2, <2>3 DEF Collects
<1>13. ASSUME NEW d \in Commands PROVE InOrder(d)'
  <2>1. InOrder(d)
    BY DEF Push2
  <2>2. \A i \in 1..Len(UnitsOf(d)) : UnitsOf(d)[i] \in Units /\ <<d, UnitsOf(d)[i]>> \in Job
    BY <1>3, <1>9
  <2>3. CASE d # c
    <3>1. \A i \in 1..Len(UnitsOf(d)) : at'[<<d, UnitsOf(d)[i]>>] = at[<<d, UnitsOf(d)[i]>>]
      BY <1>6, <2>2, <2>3
    <3>2. \A i \in 1..Len(UnitsOf(d)) : \A j \in 1..i - 1 : j \in 1..Len(UnitsOf(d))
      BY <1>9
    <3>3. Kind(d) = "push" /\ ~scenario[d].parallel =>
            \A i \in 1..Len(UnitsOf(d)) :
              /\ at'[<<d, UnitsOf(d)[i]>>] = "done" <=> i <= Len(out[d])
              /\ at'[<<d, UnitsOf(d)[i]>>] # "idle" =>
                   \A j \in 1..i - 1 : at'[<<d, UnitsOf(d)[j]>>] = "done"
              /\ at'[<<d, UnitsOf(d)[i]>>] = "append" =>
                   loaded[<<d, UnitsOf(d)[i]>>] = out[d]
      BY <2>1, <3>1, <3>2 DEF InOrder
    <3> QED BY <1>2, <1>6, <1>9, <2>1, <2>3, <3>3 DEF InOrder
  <2>4. CASE d = c /\ ~scenario[c].parallel
    <3>1. PICK list : list = UnitsOf(c)
      OBVIOUS
    <3>2. PICK k \in 1..Len(list) : list[k] = u
      BY <1>9, <3>1 DEF ToSet
    <3>3. Len(list) \in Nat /\ Len(out[c]) \in Nat /\ out[c] \in Seq(Entry)
      BY <1>3, <1>9, <3>1 DEF PushTyped
    <3>4. \A i \in 1..Len(list) : at[<<c, list[i]>>] = "done" <=> i <= Len(out[c])
      BY <1>4, <2>1, <2>4, <3>1 DEF InOrder
    <3>5. \A i \in 1..Len(list) : at[<<c, list[i]>>] # "idle" =>
                                    \A j \in 1..i - 1 : at[<<c, list[j]>>] = "done"
      BY <1>4, <2>1, <2>4, <3>1 DEF InOrder
    <3>6. loaded[<<c, u>>] = out[c] /\ \A j \in 1..k - 1 : at[<<c, list[j]>>] = "done"
      BY <1>2, <1>4, <2>1, <2>4, <3>1, <3>2 DEF InOrder
    <3>7. Len(out[c]) = k - 1
      <4>1. ~(k <= Len(out[c]))
        BY <1>2, <3>2, <3>4
      <4>2. k = 1 \/ k - 1 <= Len(out[c])
        <5>1. SUFFICES ASSUME k # 1 PROVE k - 1 <= Len(out[c])
          OBVIOUS
        <5>2. k - 1 \in 1..k - 1 /\ k - 1 \in 1..Len(list)
          BY <3>2, <3>3, <5>1
        <5>3. at[<<c, list[k - 1]>>] = "done"
          BY <3>6, <5>2
        <5> QED BY <3>4, <5>2, <5>3
      <4> QED BY <3>2, <3>3, <4>1, <4>2
    <3>8. Len(out'[c]) = k /\ out'[c][k] = e /\ \A i \in 1..k - 1 : out'[c][i] = out[c][i]
      BY <1>5, <1>6, <3>2, <3>3, <3>6, <3>7
    <3>9. \A i \in 1..Len(list) : i # k =>
            at'[<<c, list[i]>>] = at[<<c, list[i]>>]
      <4>1. ASSUME NEW i \in 1..Len(list), i # k PROVE at'[<<c, list[i]>>] = at[<<c, list[i]>>]
        <5>1. list[i] # u
          BY <1>9, <3>1, <3>2, <4>1 DEF IsInjective
        <5>2. <<c, list[i]>> \in Job \ {<<c, u>>}
          BY <2>2, <2>4, <3>1, <5>1
        <5> QED BY <1>6, <5>2
      <4> QED BY <4>1
    <3>10. at'[<<c, list[k]>>] = "done"
      BY <1>6, <3>2
    <3>11. ASSUME NEW i \in 1..Len(list)
           PROVE  /\ at'[<<c, list[i]>>] = "done" <=> i <= k
                  /\ at'[<<c, list[i]>>] # "idle" =>
                       \A j \in 1..i - 1 : at'[<<c, list[j]>>] = "done"
                  /\ at'[<<c, list[i]>>] # "append"
      <4>1. \A j \in 1..i - 1 : j \in 1..Len(list)
        BY <3>3
      <4>2. \A j \in 1..k : j \in 1..Len(list) /\ at'[<<c, list[j]>>] = "done"
        BY <3>2, <3>3, <3>6, <3>9, <3>10
      <4>3. CASE i <= k
        <5>1. \A j \in 1..i : at'[<<c, list[j]>>] = "done"
          BY <4>2, <4>3
        <5>2. \A j \in 1..i - 1 : j \in 1..i
          OBVIOUS
        <5> QED BY <4>3, <5>1, <5>2
      <4>4. CASE i > k
        <5>1. at'[<<c, list[i]>>] = at[<<c, list[i]>>] /\ i # k /\ k \in 1..i - 1
          BY <3>2, <3>9, <4>4
        <5>2. at[<<c, list[i]>>] # "done"
          BY <3>3, <3>4, <3>7, <4>4
        <5>3. at[<<c, list[k]>>] = "append"
          BY <1>2, <3>2
        <5>4. at[<<c, list[i]>>] = "idle"
          BY <3>5, <5>1, <5>3
        <5> QED BY <4>4, <5>1, <5>4
      <4> QED BY <3>2, <4>3, <4>4
    <3>12. k <= Len(list) /\ \A i \in 1..k : out'[c][i].unit = list[i]
      <4>1. \A i \in 1..k - 1 : out[c][i].unit = list[i]
        BY <1>4, <2>1, <2>4, <3>1, <3>7 DEF InOrder
      <4>2. out'[c][k].unit = list[k]
        BY <1>5, <3>2, <3>8
      <4> QED BY <3>2, <3>8, <4>1, <4>2
    <3> QED BY <1>9, <2>4, <3>1, <3>8, <3>11, <3>12 DEF InOrder
  <2>5. CASE d = c /\ scenario[c].parallel
    BY <1>2, <2>5 DEF InOrder
  <2> QED BY <2>3, <2>4, <2>5
<1>14. ASSUME NEW d \in Commands PROVE Written(d)'
  <2>1. ~Settled(c)
    BY <1>2 DEF Settled
  <2>2. ASSUME NEW f \in Commands, Settled(f) PROVE Settled(f)' /\ out'[f] = out[f]
    <3>1. \A v \in ToSet(UnitsOf(f)) : <<f, v>> \in Job
      BY UnitsAreUnits
    <3>2. Settled(f)'
      BY <1>7, <1>9, <2>2, <3>1 DEF Settled
    <3> QED BY <1>6, <2>1, <2>2, <3>2
  <2>3. Written(d)
    BY DEF Push2
  <2> QED BY <1>2, <2>2, <2>3 DEF Written
<1> QED BY <1>8, <1>10, <1>12, <1>13, <1>14 DEF Push2

LEMMA InitPush == Init => Push2
<1> SUFFICES ASSUME Init PROVE Push2
  OBVIOUS
<1> USE DEF Init
<1>1. PushTyped
  <2>1. <<>> \in Seq(Commands) /\ <<>> \in Seq(Nat) /\ <<>> \in Seq(Entry)
    OBVIOUS
  <2> QED BY <2>1 DEF PushTyped
<1>2. ASSUME NEW c \in Commands, NEW u \in Units
      PROVE  WayOf(c, u) /\ Tagged(c, u) /\ Sends(c, u)
  <2>1. <<c, u>> \in Job
    BY DEF Job
  <2>2. at[<<c, u>>] = "idle" /\ digests[<<c, u>>] = <<>>
    BY <2>1
  <2>3. Len(RefsOf(c, u)) \in Nat
    BY DEF RefsOf, TagsOrName
  <2>4. 0 <= Len(RefsOf(c, u))
    BY <2>3
  <2>5. Len(digests[<<c, u>>]) = 0 /\ \A i \in 1..0 : FALSE
    BY <2>2
  <2>6. WayOf(c, u) /\ Tagged(c, u)
    BY <2>2 DEF WayOf, Tagged
  <2>7. Sends(c, u)
    BY <2>2, <2>4, <2>5 DEF Sends
  <2> QED BY <2>6, <2>7
<1>3. ASSUME NEW c \in Commands PROVE Collects(c) /\ InOrder(c) /\ Written(c)
  <2>1. out[c] = <<>> /\ pc[c] = "idle" /\ result[c] = "none" /\ writer = "nobody"
    OBVIOUS
  <2>2. \A u \in Units : <<c, u>> \in Job /\ loaded[<<c, u>>] = <<>> /\ at[<<c, u>>] = "idle"
    BY DEF Job
  <2>3. UnitsOf(c) \in Seq(Units)
    BY DEF UnitsOf
  <2>4. \A i \in 1..Len(UnitsOf(c)) : UnitsOf(c)[i] \in Units
    BY <2>3
  <2>5. Collects(c)
    BY <2>1, <2>2 DEF Collects, TellsOf
  <2>6. InOrder(c)
    BY <2>1, <2>2, <2>3, <2>4 DEF InOrder
  <2>7. Written(c)
    BY <2>1 DEF Written
  <2> QED BY <2>5, <2>6, <2>7
<1>4. writer \in Commands \cup {"nobody"}
  OBVIOUS
<1> QED BY <1>1, <1>2, <1>3, <1>4 DEF Push2

LEMMA NextPush ==
  ASSUME OwnTags, Inv, Inv', Push2, [Next]_vars PROVE Push2'
<1>1. Typed /\ Typed'
  BY DEF Inv
<1>2. CASE UNCHANGED vars \/ \E u \in Units : Edit(u)
  <2>1. UNCHANGED <<scenario, tag, image, registry, sent, digests, loaded, at, out, pc, result,
                    yaml, sh, writer>>
    BY <1>2 DEF vars, daemon, job, command, output, Edit
  <2>2. pc' \in [Commands -> {"idle", "working", "yaml", "sh", "done"}]
        /\ result' \in [Commands -> {"none", "ok", "error"}] /\ writer' \in Commands \cup {"nobody"}
    BY <2>1 DEF Push2, PushTyped
  <2>3. \A c \in Commands : Written(c)'
    BY <2>1, WrittenKeeps
  <2> QED BY <2>1, <2>2, <2>3, CommandStep
<1>3. ASSUME NEW c \in Commands, Start(c) \/ EndOfModules(c) \/ WriteYaml(c) \/ WriteEnv(c)
      PROVE  Push2'
  BY <1>1, <1>3, StartTells, EndOfModulesTells, WriteYamlTells, WriteEnvTells
<1>4. ASSUME NEW c \in Commands, NEW u \in ToSet(UnitsOf(c)),
             \/ StartUnit(c, u) \/ Hash(c, u) \/ Build(c, u) \/ KanikoBuild(c, u)
             \/ AfterBuild(c, u) \/ CreateContainer(c, u) \/ Push(c, u) \/ Pushed(c, u)
             \/ AfterPush(c, u) \/ Load(c, u) \/ AppendModule(c, u)
      PROVE  Push2'
  <2>1. u \in Units
    BY <1>1, UnitsAreUnits
  <2>2. CASE StartUnit(c, u)
    BY <1>1, <2>1, <2>2, StartUnitTells
  <2>3. CASE Hash(c, u)
    BY <1>1, <2>1, <2>3, HashTells
  <2>4. CASE Build(c, u)
    BY <1>1, <2>1, <2>4, BuildTells
  <2>5. CASE KanikoBuild(c, u)
    BY <1>1, <2>1, <2>5, KanikoTells
  <2>6. CASE AfterBuild(c, u)
    BY <1>1, <2>1, <2>6, AfterBuildTells
  <2>7. CASE CreateContainer(c, u)
    BY <1>1, <2>1, <2>7, CreateTells
  <2>8. CASE Push(c, u)
    BY <1>1, <2>1, <2>8, PushTells
  <2>9. CASE Pushed(c, u)
    BY <1>1, <2>1, <2>9, PushedTells
  <2>10. CASE AfterPush(c, u)
    BY <1>1, <2>1, <2>10, AfterPushTells
  <2>11. CASE Load(c, u)
    BY <1>1, <2>1, <2>11, LoadTells
  <2>12. CASE AppendModule(c, u)
    BY <1>1, <2>12, AppendTells
  <2> QED BY <1>4, <2>2, <2>3, <2>4, <2>5, <2>6, <2>7, <2>8, <2>9, <2>10, <2>11, <2>12
<1> QED BY <1>2, <1>3, <1>4 DEF Next

\* What scripts are told follows from what jobs have tagged and sent.
LEMMA TruthFollows == ASSUME Typed, Push2 PROVE ScriptsAreToldTheTruth
<1> SUFFICES ASSUME NEW c \in Commands, NEW u \in ToSet(UnitsOf(c))
             PROVE  /\ at[<<c, u>>] = "afterbuild" /\ Kind(c) = "build"
                       => \A r \in ToSet(TagsOrName(u)) : tag[r] >= image[<<c, u>>]
                    /\ at[<<c, u>>] = "afterpush"
                       => /\ Len(digests[<<c, u>>]) = Len(RefsOf(c, u))
                          /\ \A i \in DOMAIN RefsOf(c, u) : Stands(c, RefsOf(c, u)[i], digests[<<c, u>>][i])
  BY DEF ScriptsAreToldTheTruth, RefsOf, Stands
<1>1. u \in Units
  BY UnitsAreUnits
<1>2. Tagged(c, u) /\ Sends(c, u)
  BY <1>1 DEF Push2
<1>3. DOMAIN RefsOf(c, u) = 1..Len(RefsOf(c, u))
  <2>1. CASE Tags[u] = <<>>
    <3>1. RefsOf(c, u) = <<>> \/ \E name : RefsOf(c, u) = <<name>>
      BY <2>1 DEF RefsOf, TagsOrName
    <3>2. ASSUME NEW name PROVE DOMAIN <<name>> = 1..Len(<<name>>)
      OBVIOUS
    <3>3. DOMAIN <<>> = 1..Len(<<>>)
      OBVIOUS
    <3> QED BY <3>1, <3>2, <3>3
  <2>2. CASE Tags[u] # <<>>
    <3>1. RefsOf(c, u) = Tags[u] /\ Tags[u] \in Seq(ToSet(Tags[u]))
      BY <1>1, <2>2 DEF RefsOf, TagsOrName
    <3> QED BY <3>1
  <2> QED BY <2>1, <2>2
<1> QED BY <1>2, <1>3 DEF Tagged, Sends

\* What is in the files follows from what their writers have collected.
LEMMA ListsFollow == ASSUME Typed, Push2 PROVE OutputListsPushed
<1> SUFFICES ASSUME writer # "nobody" PROVE OutputListsPushed
  BY DEF OutputListsPushed
<1>1. PICK c \in Commands : c = writer
  BY DEF Push2
<1>2. Written(c) /\ Collects(c) /\ InOrder(c) /\ PushTyped
  BY DEF Push2
<1>3. Settled(c) /\ yaml = out[c]
      /\ (result[c] = "ok" => sh = yaml \/ \E d \in Commands \ {c} : sh = out[d])
  BY <1>1, <1>2 DEF Written
<1>4. Kind(c) = "push" /\ \A u \in ToSet(UnitsOf(c)) : at[<<c, u>>] = "done"
  BY <1>3 DEF Settled
<1>5. yaml \in Seq(Entry) /\ TellsOf(c, yaml)
  BY <1>2, <1>3 DEF PushTyped, Collects
<1>6. ASSUME NEW e \in ToSet(yaml), NEW i \in DOMAIN Tags[e.unit]
      PROVE  /\ Len(e.digests) = Len(Tags[e.unit])
             /\ registry[Tags[e.unit][i]] = e.digests[i] \/ Last(sent[Tags[e.unit][i]]) # c
  <2>1. PICK n \in 1..Len(yaml) : yaml[n] = e
    BY <1>5 DEF ToSet
  <2>2. e.unit \in Units /\ at[<<c, e.unit>>] = "done" /\ e.digests = digests[<<c, e.unit>>]
    BY <1>5, <2>1, UnitsAreUnits DEF TellsOf
  <2>3. RefsOf(c, e.unit) = Tags[e.unit] /\ DOMAIN Tags[e.unit] = 1..Len(Tags[e.unit])
    BY <1>4, <2>2 DEF RefsOf
  <2>4. Sends(c, e.unit)
    BY <2>2 DEF Push2
  <2> QED BY <1>4, <2>2, <2>3, <2>4 DEF Sends, Stands
<1>7. ~scenario[c].parallel => [i \in DOMAIN yaml |-> yaml[i].unit] = UnitsOf(c)
  <2>1. SUFFICES ASSUME ~scenario[c].parallel
                 PROVE  [i \in DOMAIN yaml |-> yaml[i].unit] = UnitsOf(c)
    OBVIOUS
  <2>2. UnitsOf(c) \in Seq(Units)
    BY DEF Typed, UnitsOf
  <2>3. \A i \in 1..Len(UnitsOf(c)) : i <= Len(yaml)
    <3>1. \A i \in 1..Len(UnitsOf(c)) : at[<<c, UnitsOf(c)[i]>>] = "done"
      BY <1>4, <2>2 DEF ToSet
    <3>2. \A i \in 1..Len(UnitsOf(c)) : at[<<c, UnitsOf(c)[i]>>] = "done" <=> i <= Len(out[c])
      BY <1>2, <1>4, <2>1 DEF InOrder
    <3> QED BY <1>3, <3>1, <3>2
  <2>4. Len(yaml) <= Len(UnitsOf(c)) /\ \A i \in 1..Len(yaml) : yaml[i].unit = UnitsOf(c)[i]
    BY <1>2, <1>3, <1>4, <2>1 DEF InOrder
  <2>5. Len(yaml) = Len(UnitsOf(c))
    <3>1. Len(yaml) \in Nat /\ Len(UnitsOf(c)) \in Nat
      BY <1>5, <2>2
    <3>2. Len(UnitsOf(c)) = 0 \/ Len(UnitsOf(c)) \in 1..Len(UnitsOf(c))
      BY <3>1
    <3> QED BY <2>3, <2>4, <3>1, <3>2
  <2>6. DOMAIN yaml = 1..Len(yaml) /\ DOMAIN UnitsOf(c) = 1..Len(UnitsOf(c))
    BY <1>5, <2>2
  <2> QED BY <2>2, <2>4, <2>5, <2>6
<1> QED BY <1>1, <1>3, <1>4, <1>6, <1>7 DEF OutputListsPushed

\* The invariant about tags, pushes and output files.
THEOREM PushInvariant == OwnTags => (Spec => []Push2)
<1> SUFFICES ASSUME OwnTags PROVE Spec => []Push2
  OBVIOUS
<1>1. Init => Inv /\ Push2
  BY InitInv, InitPush
<1>2. Inv /\ [Next]_vars => Inv'
  BY NextInv
<1>3. Inv /\ Inv' /\ Push2 /\ [Next]_vars => Push2'
  BY NextPush
<1> QED BY <1>1, <1>2, <1>3, PTL DEF Spec

\* Scripts after a build or a push are told what is there, for any commands, units and tags of
\* which each is of one unit: after a build every tag is its image or a later one, after a push
\* the registry has what the script is told, or what another command has pushed since.
THEOREM ToldTheTruth == OwnTags => (Spec => []ScriptsAreToldTheTruth)
<1>1. Inv /\ Push2 => ScriptsAreToldTheTruth
  BY TruthFollows DEF Inv
<1> QED BY <1>1, InvInvariant, PushInvariant, PTL

\* docker.yaml is what one push that succeeded has pushed, with digests that the registry still
\* has unless another command has pushed since, and a push one after the other loses no module.
THEOREM ListsPushed == OwnTags => (Spec => []OutputListsPushed)
<1>1. Inv /\ Push2 => OutputListsPushed
  BY ListsFollow DEF Inv
<1> QED BY <1>1, InvInvariant, PushInvariant, PTL
=============================================================================
