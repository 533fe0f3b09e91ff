---------------------------- MODULE MCVolumeSync ----------------------------
(* Instances of VolumeSync for TLC: two actors in five settings. *)
EXTENDS VolumeSync

CONSTANTS a1, a2, project, other, src, lib

Is(kind, prefix, vols) == [kind |-> kind, prefix |-> prefix, vols |-> vols]
Two(x, y) == a1 :> x @@ a2 :> y

MCActors == {a1, a2}
MCProjectIDs == {project, other}
MCPaths == {src, lib}
MCSettings == {
  \* placeholders of two modules, whose RunID is the project's name
  Two(Is("build", project, <<src>>), Is("build", project, <<src>>)),
  \* a placeholder next to `welder volumes --watch` of the same project
  Two(Is("build", project, <<src>>), Is("watch", project, <<src>>)),
  \* a step with two volumes next to `welder volumes --watch` for one of them
  Two(Is("build", project, <<src, lib>>), Is("watch", other, <<src>>)),
  \* the main volume mounted a second time, next to another project
  Two(Is("build", project, <<src, src>>), Is("watch", other, <<src>>)),
  \* a step next to `welder volumes` without --watch
  Two(Is("build", project, <<lib>>), Is("sync", other, <<src>>))}
=============================================================================
