--------------------------- MODULE MCDefinitions -----------------------------
(* Projects for Definitions: which sections say something, and who asks.    *)
EXTENDS Definitions

MCEnv == "stg"
MCNoDefault == "none"
\* "${arg:x:by-default}" and "${arg:x:}"
MCRefs == [ref |-> [arg |-> "x", or |-> "by-default"], soft |-> [arg |-> "x", or |-> ""]]

\* What a section says of its argument x and its variable e.
Says(x, e) == [args |-> IF x = "" THEN <<>> ELSE [x |-> x], env |-> IF e = "" THEN <<>> ELSE [e |-> e],
               volumes |-> <<x>>, workDir |-> IF e \in DOMAIN MCRefs THEN "" ELSE e]
Build(x, e, steps) == [args |-> Says(x, e).args, env |-> Says(x, e).env, volumes |-> Says(x, e).volumes,
                       workDir |-> Says(x, e).workDir, steps |-> steps]
Section(build, deploy, stg) ==
  [build |-> build, deploy |-> deploy, images |-> <<>>, envs |-> IF stg = <<>> THEN <<>> ELSE [stg |-> stg[1]]]
Silent == Section(Build("", "", <<>>), Build("", "", <<>>), <<>>)

TaskOf(x, e) == [args |-> Says(x, e).args, env |-> Says(x, e).env, volumes |-> <<>>,
                 workDir |-> "", script |-> "ref"]
Script(e) == [kind |-> "script", task |-> "", env |-> IF e = "" THEN <<>> ELSE [e |-> e]]
TaskStepOf(t) == [kind |-> "task", task |-> t, env |-> <<>>]
Pipe == [kind |-> "pipe", task |-> "", env |-> <<>>]

Asks(kind, task, module) == [kind |-> kind, task |-> task, module |-> module]
If(name, S) == IF name \in S THEN name ELSE ""

\* Who says x, who says e; two profiles, one of the command line.
Precedence ==
  {[cli |-> IF "cli" \in X THEN [x |-> "cli"] ELSE <<>>,
    module |-> [Silent EXCEPT !.build = Build(If("module", X), If("module", E), <<Script("")>>),
                              !.deploy = Build(If("deploy", X), If("deploy", E), <<Script("own")>>),
                              !.envs = IF "env" \in X \cup E
                                       THEN [stg |-> Says(If("env", X), If("env", E))] ELSE <<>>],
    profiles |-> [p |-> Section(Build(If("p", X), If("p", E), <<>>), Build(If("pd", X), "", <<>>),
                                IF "pe" \in X THEN <<Says("pe", "")>> ELSE <<>>),
                  q |-> Section(Build(If("q", X), If("q", E), <<>>), Build("", "", <<>>),
                                <<Says("", If("qe", E))>>)],
    default |-> Section(Build(If("default", X), IF "default" \in E THEN "ref" ELSE "", <<>>),
                        Build("", IF "soft" \in E THEN "soft" ELSE "", <<>>), <<>>),
    tasks |-> [t |-> TaskOf(If("t", X), "")], steps |-> {Script(""), Script("own")},
    named |-> named, activated |-> {"p", "q"}, deployTo |-> <<"stg">>,
    commands |-> {Asks("build", "", TRUE), Asks("deploy", "", TRUE), Asks("run", "t", TRUE), Asks("run", "t", FALSE)}]
   : X \in SUBSET {"cli", "module", "deploy", "pd", "default"} \cup {{"p", "q"}, {"env", "pe"}, {"q", "t"}, {"module", "t"}, {"cli", "t"}},
     E \in SUBSET {"module", "deploy", "default"} \cup {{"q", "soft"}, {"p", "q"}, {"env", "qe"}},
     named \in {<<>>, <<"q">>}}

\* Steps and the tasks after images, of a module that has little to say.
Sequences ==
  {[cli |-> cli,
    module |-> [Silent EXCEPT !.build = Build(x, e, steps), !.deploy = Build("", "", steps),
                              !.images = IF e = "" THEN <<>> ELSE <<[arg |-> "ref", after |-> after]>>],
    profiles |-> [r |-> [Silent EXCEPT !.images = <<[arg |-> "own", after |-> after]>>]],
    default |-> [Silent EXCEPT !.images = <<[arg |-> "other", after |-> <<>>]>>],
    tasks |-> [t |-> TaskOf("", "t"), u |-> TaskOf("u", "ref")], steps |-> ToSet(steps),
    named |-> <<>>, activated |-> IF x = "" THEN {} ELSE {"r"}, deployTo |-> <<>>,
    commands |-> {Asks("build", "", TRUE), Asks("deploy", "", TRUE), Asks("run", "", TRUE), Asks("images", "", TRUE)}]
   : cli \in {<<>>, [x |-> "cli"]}, x \in {"", "module"}, e \in {"", "module"},
     steps \in {<<a, b, c>> : a, b \in {TaskStepOf("t"), TaskStepOf("u"), Pipe},
                              c \in {TaskStepOf("t"), Script(""), Script("own")}},
     after \in {<<"">>, <<"t">>, <<"t", "u", "t", "u">>}}

MCProjects == Precedence \cup Sequences
=============================================================================
