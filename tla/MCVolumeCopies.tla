--------------------------- MODULE MCVolumeCopies ---------------------------
(* Two runs of one configuration or of two; a writable directory with an   *)
(* entry of two files, a read-only file in a directory, a file volume.     *)
EXTENDS VolumeCopies

MCRuns == {1, 2}
MCConfigs == {"c1", "c2"}
MCLeaves == {"a", "b", "lone", "fixed"}
MCEntries == <<"a", "lone", "fixed">>
MCEntryOf == [l \in MCLeaves |-> IF l = "b" THEN "a" ELSE l]

Setup(config, mode, dind, linux, noCache, reuse) ==
  [config |-> config, mode |-> mode, dind |-> dind, linux |-> linux,
   noCache |-> noCache, reuse |-> reuse]

Bind == Setup("c1", "bind", FALSE, TRUE, FALSE, FALSE)
Copy == Setup("c1", "bind", TRUE, TRUE, FALSE, FALSE)
CopyKeep == Setup("c1", "copy", FALSE, TRUE, FALSE, TRUE)
CopyOther == Setup("c2", "copy", FALSE, TRUE, FALSE, FALSE)
CopyNoLinux == Setup("c2", "copy", FALSE, FALSE, FALSE, FALSE)
Add == Setup("c1", "add", FALSE, TRUE, FALSE, FALSE)
AddAnew == Setup("c1", "add", FALSE, TRUE, TRUE, FALSE)

Pairs == {<<Bind, Add>>, <<Copy, CopyOther>>, <<CopyKeep, CopyKeep>>,
          <<Add, Add>>, <<Add, AddAnew>>, <<Add, CopyNoLinux>>}
MCSettings == {[r \in MCRuns |-> p[r]] : p \in Pairs}
=============================================================================
