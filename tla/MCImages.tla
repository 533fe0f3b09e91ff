------------------------------- MODULE MCImages -------------------------------
(* Two modules, one of them with two tags and the other with none; a task  *)
(* with a custom image.  Up to three commands, of one process or several.  *)
EXTENDS Images

MCCommands == {"first", "second", "third"}
MCUnits == {"api", "web", "task"}
MCTags == [u \in MCUnits |-> IF u = "api" THEN <<"api:1", "api:latest">> ELSE <<>>]
MCName == [u \in MCUnits |-> u]

Do(kind, units, parallel, noCache) ==
  [kind |-> kind, units |-> units, parallel |-> parallel, noCache |-> noCache]
Nothing == Do("build", <<>>, FALSE, FALSE)
Task == Do("task", <<"task">>, FALSE, FALSE)
Anew == Do("task", <<"task">>, FALSE, TRUE)
BuildAll == Do("build", <<"api", "web">>, TRUE, FALSE)
PushInOrder == Do("push", <<"api", "web">>, FALSE, FALSE)
PushAll == Do("push", <<"api", "web">>, TRUE, FALSE)
PushApi == Do("push", <<"api">>, FALSE, FALSE)
BuildApi == Do("build", <<"api">>, FALSE, FALSE)
Kaniko == Do("kaniko", <<"api", "web">>, FALSE, FALSE)

In(a, b, c) == [d \in MCCommands |-> IF d = "first" THEN a ELSE IF d = "second" THEN b ELSE c]
MCScenarios == {In(Task, Task, Task), In(Task, Anew, Task), In(BuildAll, PushInOrder, Nothing),
                In(BuildApi, PushAll, Nothing), In(BuildApi, PushApi, PushAll),
                In(Kaniko, BuildApi, PushApi)}

\* The commands follow one another.
OneAtATime == Cardinality({c \in Commands : pc[c] \notin {"idle", "done"}}) <= 1
=============================================================================
