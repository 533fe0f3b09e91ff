-------------------------------- MODULE Images --------------------------------
(***************************************************************************)
(* Docker images: `welder docker build`, `welder docker push`, the build   *)
(* with Kaniko, and images that a task builds to run in.  Commands, of any *)
(* processes, share the daemon with its tags, the registry and the output  *)
(* directory of the project.                                               *)
(*                                                                         *)
(* A unit is what an image is defined for: a module, or a task with a      *)
(* custom image.  An image is identified by the order of the builds.       *)
(***************************************************************************)
EXTENDS Naturals, Sequences, SequencesExt, FiniteSets

CONSTANTS
  Commands,
  Scenarios,   \* functions from Commands to [kind, units, parallel, noCache]
  Units,
  Tags,        \* of the image of a unit, a sequence
  Name,        \* of the image of a unit
  Dockerfiles, \* contents of a Dockerfile
  MaxEdits,    \* bound: changes of Dockerfiles
  MaxFailures  \* bound: builds, pushes and scripts that fail

\* A command names a unit once: what it has done so far is kept by unit.
ASSUME ConstantsAssumption ==
  /\ IsFiniteSet(Commands) /\ IsFiniteSet(Units)
  /\ \A s \in Scenarios, c \in Commands :
       /\ s[c].kind \in {"build", "push", "kaniko", "task"}
       /\ s[c].units \in Seq(Units) /\ IsInjective(s[c].units)
       /\ s[c].parallel \in BOOLEAN /\ s[c].noCache \in BOOLEAN
  /\ DOMAIN Tags = Units /\ DOMAIN Name = Units
  /\ \A u \in Units : Tags[u] \in Seq(ToSet(Tags[u]))
  /\ Dockerfiles # {}
  /\ MaxEdits \in Nat /\ MaxFailures \in Nat

Job == Commands \X Units
NoImage == 0
NoLabel == <<>>

\* buildDockerImage: an image without tags gets its name as one.
TagsOrName(u) == IF Tags[u] = <<>> THEN <<Name[u]>> ELSE Tags[u]
Refs == UNION {ToSet(TagsOrName(u)) : u \in Units}

VARIABLES
  scenario,
  source,     \* what the Dockerfile of a unit contains
  images,     \* all images in the order of their builds: [df, given, unit, label],
              \* "given" is the content that the hash is of
  tag,        \* what a reference is on the daemon
  registry,   \* and in the registry
  pc, result, \* of the commands
  at,         \* of a unit in a command
  hashed,     \* per job: the content that the hash is of
  image,      \* per job: the image that it found or built
  ran,        \* per job: the image of its container
  digests,    \* per job: what it has pushed so far
  loaded,     \* per job: the list of modules it is to extend
  out,        \* per command: the modules in its output definition, with their digests
  yaml, sh,   \* docker.yaml and docker-pushed-images.sh
  writer,     \* the command whose definition is in docker.yaml
  sent,       \* per reference: the commands that have pushed it, in order
  edits, failures

job == <<at, hashed, image, ran, digests, loaded>>
command == <<pc, result, out>>
daemon == <<images, tag>>
output == <<yaml, sh, writer>>
vars == <<scenario, source, daemon, registry, sent, job, command, output, edits, failures>>

Kind(c) == scenario[c].kind
UnitsOf(c) == scenario[c].units
Ended(c, u) == at[<<c, u>>] \in {"done", "failed"}

Init ==
  /\ scenario \in Scenarios
  /\ source \in [Units -> {CHOOSE d \in Dockerfiles : TRUE}]
  /\ images = <<>> /\ tag = [r \in Refs |-> NoImage]
  /\ registry = [r \in Refs |-> NoImage] /\ sent = [r \in Refs |-> <<>>]
  /\ pc = [c \in Commands |-> "idle"] /\ result = [c \in Commands |-> "none"]
  /\ out = [c \in Commands |-> <<>>]
  /\ at = [j \in Job |-> "idle"] /\ hashed = [j \in Job |-> "none"]
  /\ image = [j \in Job |-> NoImage] /\ ran = [j \in Job |-> NoImage]
  /\ digests = [j \in Job |-> <<>>] /\ loaded = [j \in Job |-> <<>>]
  /\ yaml = <<>> /\ sh = <<>> /\ writer = "nobody"
  /\ edits = 0 /\ failures = 0

Goto(c, u, where) == at' = [at EXCEPT ![<<c, u>>] = where]
Fail(c, u) ==
  /\ failures < MaxFailures /\ failures' = failures + 1
  /\ Goto(c, u, "failed")
-----------------------------------------------------------------------------
\* What a Dockerfile contains matters where images are reused.
Edit(u) ==
  /\ \E c \in Commands : Kind(c) = "task" /\ u \in ToSet(UnitsOf(c))
  /\ edits < MaxEdits /\ edits' = edits + 1
  /\ \E d \in Dockerfiles \ {source[u]} : source' = [source EXCEPT ![u] = d]
  /\ UNCHANGED <<scenario, daemon, registry, sent, job, command, output, failures>>

Start(c) ==
  /\ pc[c] = "idle" /\ pc' = [pc EXCEPT ![c] = "working"]
  /\ UNCHANGED <<scenario, source, daemon, registry, sent, job, result, out, output, edits, failures>>

\* forEachModule: one after the other until one fails, or all of them in parallel.
StartUnit(c, u) ==
  /\ pc[c] = "working" /\ at[<<c, u>>] = "idle"
  /\ \E i \in DOMAIN UnitsOf(c) :
       /\ UnitsOf(c)[i] = u
       /\ scenario[c].parallel \/ \A j \in 1..i - 1 : at[<<c, UnitsOf(c)[j]>>] = "done"
  /\ Goto(c, u, IF Kind(c) = "push" THEN "push" ELSE "hash")
  /\ UNCHANGED <<scenario, source, daemon, registry, sent, hashed, image, ran, digests, loaded,
                 command, output, edits, failures>>
-----------------------------------------------------------------------------
(* Building. *)

\* Mutant: the hash is of the path of the Dockerfile, not of what it contains.
LabelOfPath(u, df) == <<u>>

\* calcConfigHash.  It covers the tags as well, which are the unit's.
Label(u, df) == <<u, df>>

\* Dockerfile.Build: any image with the hash will do.  Images of `docker build` have no
\* such label and are never reused; Kaniko knows no labels.
Hash(c, u) ==
  /\ at[<<c, u>>] = "hash"
  /\ LET reusable == {i \in DOMAIN images : images[i].label = Label(u, source[u])} IN
     IF Kind(c) = "task" /\ ~scenario[c].noCache /\ reusable # {}
     THEN /\ \E i \in reusable : image' = [image EXCEPT ![<<c, u>>] = i]
          /\ Goto(c, u, "afterbuild")
     ELSE Goto(c, u, "build") /\ UNCHANGED image
  /\ hashed' = [hashed EXCEPT ![<<c, u>>] = source[u]]
  /\ UNCHANGED <<scenario, source, daemon, registry, sent, ran, digests, loaded, command,
                 output, edits, failures>>

LabelFor(c, u) == IF Kind(c) = "task" THEN Label(u, hashed[<<c, u>>]) ELSE NoLabel

\* The daemon reads the Dockerfile again.  The references move to the new image.
Build(c, u) ==
  /\ at[<<c, u>>] = "build" /\ Kind(c) # "kaniko"
  /\ \/ Fail(c, u) /\ UNCHANGED <<daemon, image>>
     \/ /\ images' = Append(images, [df |-> source[u], given |-> hashed[<<c, u>>], unit |-> u,
                                    label |-> LabelFor(c, u)])
        /\ tag' = [r \in Refs |-> IF r \in ToSet(TagsOrName(u)) THEN Len(images') ELSE tag[r]]
        /\ image' = [image EXCEPT ![<<c, u>>] = Len(images')]
        /\ Goto(c, u, "afterbuild") /\ UNCHANGED failures
  /\ UNCHANGED <<scenario, source, registry, sent, hashed, ran, digests, loaded, command,
                 output, edits>>

\* The executor builds and pushes in one; it leaves no image on the daemon.
KanikoBuild(c, u) ==
  /\ at[<<c, u>>] = "build" /\ Kind(c) = "kaniko"
  /\ \/ Fail(c, u) /\ UNCHANGED <<images, registry, sent, image, digests>>
     \/ LET refs == TagsOrName(u) IN
        /\ images' = Append(images, [df |-> source[u], given |-> hashed[<<c, u>>], unit |-> u,
                                    label |-> NoLabel])
        /\ registry' = [r \in Refs |-> IF r \in ToSet(refs) THEN Len(images') ELSE registry[r]]
        /\ sent' = [r \in Refs |-> IF r \in ToSet(refs) THEN Append(sent[r], c) ELSE sent[r]]
        /\ image' = [image EXCEPT ![<<c, u>>] = Len(images')]
        /\ digests' = [digests EXCEPT ![<<c, u>>] = [i \in DOMAIN refs |-> Len(images')]]
        /\ Goto(c, u, "afterbuild") /\ UNCHANGED failures
  /\ UNCHANGED <<scenario, source, tag, hashed, ran, loaded, command, output, edits>>

\* runAfterBuildScripts.
AfterBuild(c, u) ==
  /\ at[<<c, u>>] = "afterbuild"
  /\ \/ Fail(c, u)
     \/ /\ Goto(c, u, CASE Kind(c) = "task" -> "create" [] Kind(c) = "kaniko" -> "afterpush"
                        [] OTHER -> "done")
        /\ UNCHANGED failures
  /\ UNCHANGED <<scenario, source, daemon, registry, sent, hashed, image, ran, digests, loaded,
                 command, output, edits>>

\* runInCustomImageContainer runs what the first tag is by now.
CreateContainer(c, u) ==
  /\ at[<<c, u>>] = "create"
  /\ ran' = [ran EXCEPT ![<<c, u>>] = tag[Head(TagsOrName(u))]]
  /\ Goto(c, u, "done")
  /\ UNCHANGED <<scenario, source, daemon, registry, sent, hashed, image, digests, loaded,
                 command, output, edits, failures>>
-----------------------------------------------------------------------------
(* Pushing.  Here an image without tags keeps having none. *)

\* Mutant: the scripts run after the first tag has been pushed.
PushFirst(c, u) ==
  /\ at[<<c, u>>] = "push" /\ Tags[u] # <<>>
  /\ LET r == Tags[u][1] IN
     /\ tag[r] # NoImage
     /\ registry' = [registry EXCEPT ![r] = tag[r]] /\ sent' = [sent EXCEPT ![r] = Append(@, c)]
     /\ digests' = [digests EXCEPT ![<<c, u>>] = Append(@, tag[r])]
  /\ Goto(c, u, "afterpush")
  /\ UNCHANGED <<scenario, source, daemon, hashed, image, ran, loaded, command, output, edits,
                 failures>>

Push(c, u) ==
  /\ at[<<c, u>>] = "push" /\ Len(digests[<<c, u>>]) < Len(Tags[u])
  /\ LET r == Tags[u][Len(digests[<<c, u>>]) + 1] IN
     IF tag[r] = NoImage
     THEN Goto(c, u, "failed") /\ UNCHANGED <<registry, sent, digests, failures>>
     ELSE \/ Fail(c, u) /\ UNCHANGED <<registry, sent, digests>>
          \/ /\ registry' = [registry EXCEPT ![r] = tag[r]]
             /\ sent' = [sent EXCEPT ![r] = Append(@, c)]
             /\ digests' = [digests EXCEPT ![<<c, u>>] = Append(@, tag[r])]
             /\ UNCHANGED <<at, failures>>
  /\ UNCHANGED <<scenario, source, daemon, hashed, image, ran, loaded, command, output, edits>>

Pushed(c, u) ==
  /\ at[<<c, u>>] = "push" /\ Len(digests[<<c, u>>]) = Len(Tags[u])
  /\ Goto(c, u, "afterpush")
  /\ UNCHANGED <<scenario, source, daemon, registry, sent, hashed, image, ran, digests, loaded,
                 command, output, edits, failures>>

\* runAfterPushScripts.  Kaniko's digests go no further ("TODO: write output push data").
AfterPush(c, u) ==
  /\ at[<<c, u>>] = "afterpush"
  /\ \/ Fail(c, u)
     \/ Goto(c, u, IF Kind(c) = "kaniko" THEN "done" ELSE "load") /\ UNCHANGED failures
  /\ UNCHANGED <<scenario, source, daemon, registry, sent, hashed, image, ran, digests, loaded,
                 command, output, edits>>

\* outDockerDef.Modules = append(outDockerDef.Modules, ...), without a lock.
Load(c, u) ==
  /\ at[<<c, u>>] = "load" /\ Goto(c, u, "append")
  /\ loaded' = [loaded EXCEPT ![<<c, u>>] = out[c]]
  /\ UNCHANGED <<scenario, source, daemon, registry, sent, hashed, image, ran, digests, command,
                 output, edits, failures>>

AppendModule(c, u) ==
  /\ at[<<c, u>>] = "append" /\ Goto(c, u, "done")
  /\ out' = [out EXCEPT ![c] = Append(loaded[<<c, u>>], [unit |-> u, digests |-> digests[<<c, u>>]])]
  /\ UNCHANGED <<scenario, source, daemon, registry, sent, hashed, image, ran, digests, loaded,
                 pc, result, output, edits, failures>>

Finished(c) ==
  IF scenario[c].parallel THEN \A u \in ToSet(UnitsOf(c)) : Ended(c, u)
  ELSE \/ \A u \in ToSet(UnitsOf(c)) : at[<<c, u>>] = "done"
       \/ \E u \in ToSet(UnitsOf(c)) : at[<<c, u>>] = "failed"
Failed(c) == \E u \in ToSet(UnitsOf(c)) : at[<<c, u>>] = "failed"

Return(c, with) == pc' = [pc EXCEPT ![c] = "done"] /\ result' = [result EXCEPT ![c] = with]

\* Mutant: the output is written whatever became of the images.
EndAndWrite(c) ==
  /\ pc[c] = "working" /\ Finished(c)
  /\ IF Kind(c) = "push"
     THEN pc' = [pc EXCEPT ![c] = "yaml"] /\ UNCHANGED result
     ELSE Return(c, IF Failed(c) THEN "error" ELSE "ok")
  /\ UNCHANGED <<scenario, source, daemon, registry, sent, job, out, output, edits, failures>>

EndOfModules(c) ==
  /\ pc[c] = "working" /\ Finished(c)
  /\ IF Failed(c) THEN Return(c, "error")
     ELSE IF Kind(c) = "push" THEN pc' = [pc EXCEPT ![c] = "yaml"] /\ UNCHANGED result
     ELSE Return(c, "ok")
  /\ UNCHANGED <<scenario, source, daemon, registry, sent, job, out, output, edits, failures>>

\* WriteToOutputDir writes one file, then the other.
WriteYaml(c) ==
  /\ pc[c] = "yaml" /\ pc' = [pc EXCEPT ![c] = "sh"]
  /\ yaml' = out[c] /\ writer' = c
  /\ UNCHANGED <<scenario, source, daemon, registry, sent, job, result, out, sh, edits, failures>>

WriteEnv(c) ==
  /\ pc[c] = "sh" /\ sh' = out[c] /\ Return(c, "ok")
  /\ UNCHANGED <<scenario, source, daemon, registry, sent, job, out, yaml, writer, edits, failures>>

Next ==
  \/ \E u \in Units : Edit(u)
  \/ \E c \in Commands : Start(c) \/ EndOfModules(c) \/ WriteYaml(c) \/ WriteEnv(c)
  \/ \E c \in Commands : \E u \in ToSet(UnitsOf(c)) :
       \/ StartUnit(c, u) \/ Hash(c, u) \/ Build(c, u) \/ KanikoBuild(c, u) \/ AfterBuild(c, u)
       \/ CreateContainer(c, u) \/ Push(c, u) \/ Pushed(c, u) \/ AfterPush(c, u)
       \/ Load(c, u) \/ AppendModule(c, u)

Spec == Init /\ [][Next]_vars
-----------------------------------------------------------------------------
(* Properties. *)

\* A task with a custom image runs in an image of the Dockerfile it was given, unless
\* somebody has built under the same tag since that image was made, or the Dockerfile was
\* changed between its hash and its build.
CustomImageIsBuilt ==
  \A c \in Commands, u \in Units :
    ran[<<c, u>>] # NoImage =>
      \/ images[ran[<<c, u>>]].df = hashed[<<c, u>>]
      \/ ran[<<c, u>>] > image[<<c, u>>]
      \/ images[image[<<c, u>>]].df # images[image[<<c, u>>]].given

\* Scripts after a build or a push are told what is there: after a build every tag is the
\* image of the build or a later one; after a push each tag has been pushed by this
\* command, and by then the registry has what the script is told or a later push.
ScriptsAreToldTheTruth ==
  \A c \in Commands : \A u \in ToSet(UnitsOf(c)) :
    /\ at[<<c, u>>] = "afterbuild" /\ Kind(c) = "build"
       => \A r \in ToSet(TagsOrName(u)) : tag[r] >= image[<<c, u>>]
    /\ at[<<c, u>>] = "afterpush"
       => LET refs == IF Kind(c) = "kaniko" THEN TagsOrName(u) ELSE Tags[u] IN
          /\ Len(digests[<<c, u>>]) = Len(refs)
          /\ \A i \in DOMAIN refs :
               \/ registry[refs[i]] = digests[<<c, u>>][i]
               \/ sent[refs[i]] # <<>> /\ Last(sent[refs[i]]) # c

\* docker.yaml is what one push that succeeded has pushed: every module in it, with the
\* digest of every tag, which the registry still has unless another command has pushed
\* since.  Pushing modules in parallel may lose some, but never makes a digest up.
OutputListsPushed ==
  writer # "nobody" =>
    LET c == writer IN
    /\ \A u \in ToSet(UnitsOf(c)) : at[<<c, u>>] = "done"
    /\ \A e \in ToSet(yaml) : \A i \in DOMAIN Tags[e.unit] :
         LET r == Tags[e.unit][i] IN
         /\ Len(e.digests) = Len(Tags[e.unit])
         /\ registry[r] = e.digests[i] \/ Last(sent[r]) # c
    /\ ~scenario[c].parallel => [i \in DOMAIN yaml |-> yaml[i].unit] = UnitsOf(c)
    /\ result[c] = "ok" => sh = yaml \/ \E d \in Commands \ {c} : sh = out[d]

\* docs/docs/howto/custom-build-images.md:34 says of a Dockerfile of a task that it "will
\* be used to build the image before running your script tasks": unless it was changed
\* meanwhile, the container's image is one of that Dockerfile.
RunsItsDockerfile ==
  \A c \in Commands, u \in Units :
    ran[<<c, u>>] # NoImage =>
      \/ images[ran[<<c, u>>]].df = hashed[<<c, u>>]
      \/ images[image[<<c, u>>]].df # images[image[<<c, u>>]].given
=============================================================================
