------------------------------ MODULE MCVersions -------------------------------
(* Scenarios of Versions: editors of the file, and builds of modules.       *)
EXTENDS Versions

File(root, mods) == [whole |-> TRUE, root |-> root, mods |-> mods]

\* Two commands, in processes of their own.
Edits ==
  {[doc |-> File(root, mods), command |-> <<first, second>>, where |-> <<m, n>>, process |-> <<1, 2>>,
    refs |-> 1, limit |-> 4, rename |-> rename]
   : root \in {None, 1}, mods \in {<<>>, <<None>>, <<3>>, <<3, None>>, <<None, Templated>>},
     first \in {"bump", "set"}, second \in {"none", "print", "bump", "set"},
     m, n \in 0..2, rename \in BOOLEAN}

\* One or two modules of a build, next to somebody who edits the file or not.
Builds ==
  {[doc |-> File(1, <<Templated, None>>), command |-> command, where |-> <<1, 2>>,
    process |-> IF command[2] = "build" THEN <<1, 1>> ELSE <<1, 2>>, refs |-> refs,
    limit |-> IF command[2] = "build" THEN 2 ELSE 4, rename |-> FALSE]
   : command \in {<<"build", "none">>, <<"print", "none">>, <<"build", "build">>, <<"build", "bump">>},
     refs \in 1..3}

Few(s) == s.command[2] = "none" \/ s.refs = 1
MCActors == {1, 2}
MCScenarios == {s \in Edits \cup Builds : \A a \in MCActors : s.where[a] <= Len(s.doc.mods) /\ (Few(s) \/ s.command[1] # "build")}
=============================================================================
