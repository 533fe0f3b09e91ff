----------------------------- MODULE MCPipelines -----------------------------
(* Two processes.  On the branch "main" the names of the steps "test1" and   *)
(* "test2" come to the same run ID, as do those of "deploy" and its pipe.    *)
EXTENDS Pipelines

MCProcesses == {"one", "two"}
MCSteps == {"test1", "test2", "lint", "last", "deploy", "broken"}
Group(parallel, steps) == [parallel |-> parallel, steps |-> steps]
MCBranches ==
  [b \in {"main", "wide", "short", "default"} |->
     IF b = "main" THEN <<Group(TRUE, <<"test1", "test2">>), Group(FALSE, <<"deploy">>)>>
     ELSE IF b = "wide" THEN <<Group(TRUE, <<"test2", "lint">>), Group(FALSE, <<"last">>)>>
     ELSE IF b = "short" THEN <<Group(TRUE, <<"lint", "last">>)>>
     ELSE <<Group(FALSE, <<"test1">>), Group(FALSE, <<"broken">>)>>]
MCImage == [s \in MCSteps |-> IF s = "broken" THEN "none" ELSE "alpine"]

Command(name, exports, prints) ==
  [kind |-> "script", name |-> name, exports |-> exports, prints |-> prints, image |-> "none"]
Pipe(name, image) ==
  [kind |-> "pipe", name |-> name, exports |-> Unset, prints |-> FALSE, image |-> image]
MCImageValue == [s \in MCSteps |-> IF s = "deploy" THEN "i" ELSE Unset]
MCScript ==
  [s \in MCSteps |->
     IF s = "test1" THEN <<Command(<<"set">>, "x", FALSE), Command(<<"reset">>, "y", FALSE),
                           Command(<<"plugin">>, Unset, TRUE), Command(<<"use">>, Unset, TRUE)>>
     ELSE IF s = "test2" THEN <<Pipe(<<"n", "t">>, "scratch")>>
     ELSE IF s = "deploy" THEN <<Command(<<"use">>, Unset, TRUE), Pipe(<<"d", "p">>, "alpine"),
                                 Command(<<"set">>, "x", FALSE), Command(<<"use">>, Unset, TRUE)>>
     ELSE IF s = "broken" THEN <<>> ELSE <<Command(<<"use">>, Unset, TRUE)>>]
MCSkipped == {<<"plugin">>}
MCProject == <<"w">>
MCStepName ==
  [s \in MCSteps |-> IF s = "test1" THEN <<"t", "1">> ELSE IF s = "test2" THEN <<"t", "2">>
                     ELSE IF s = "deploy" THEN <<"d", "e", "p">> ELSE <<s, "">>]

Run(branch, which, skip) ==
  [cli |-> TRUE, parallel |-> TRUE, limit |-> 0, git |-> "topic", branch |-> branch,
   step |-> which, skipPipes |-> skip, atlassian |-> TRUE, given |-> Unset]
Api(git, parallel, limit) ==
  [cli |-> FALSE, parallel |-> parallel, limit |-> limit, git |-> git, branch |-> "none",
   step |-> "all", skipPipes |-> FALSE, atlassian |-> FALSE, given |-> "g"]

Both(a, b) == [p \in MCProcesses |-> IF p = "one" THEN a ELSE b]
MCScenarios ==
  {Both(Run("main", "all", FALSE), Run("main", "test2", FALSE)),
   Both(Run("main", "deploy", TRUE), Run("none", "all", FALSE)),
   Both(Api("short", TRUE, 1), Run("short", "lint", FALSE)),
   Both(Api("main", FALSE, 0), Run("none", "test2", FALSE)),
   Both(Api("wide", TRUE, 0), Run("none", "broken", FALSE))}
=============================================================================
