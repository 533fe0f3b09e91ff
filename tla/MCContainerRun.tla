--------------------------- MODULE MCContainerRun ---------------------------
(* ContainerRun for TLC: what two runs can do to each other.               *)
EXTENDS ContainerRun

R(id, hash, proc, reuse, orphans, detached) ==
  [runID |-> id, hash |-> hash, proc |-> proc,
   reuse |-> reuse, orphans |-> orphans, detached |-> detached]

\* two modules built in parallel by one process
TwoModules == <<R("a", 1, 1, FALSE, FALSE, FALSE), R("b", 2, 1, FALSE, FALSE, FALSE)>>
\* two ${task:...} placeholders evaluated in parallel: they share the RunID
TwoPlaceholders == <<R("a", 1, 1, FALSE, FALSE, FALSE), R("a", 2, 1, FALSE, FALSE, FALSE)>>
\* the same command by two processes, or by one after the other
SameTwice == <<R("a", 1, 1, FALSE, FALSE, FALSE), R("a", 1, 2, FALSE, FALSE, FALSE)>>
\* one process reuses containers, the other one does not
ReuseAndNot == <<R("a", 1, 1, TRUE, FALSE, FALSE), R("b", 1, 2, FALSE, FALSE, FALSE)>>
\* a container to be reused, by a process that also removes orphans
ReuseOrphans == <<R("a", 1, 1, TRUE, FALSE, FALSE), R("a", 1, 2, TRUE, TRUE, FALSE)>>
\* the container of volume synchronisation next to a build
Detached == <<R("a", 1, 1, FALSE, FALSE, TRUE), R("b", 2, 1, TRUE, FALSE, FALSE)>>

MCSettings == {TwoModules, TwoPlaceholders, SameTwice, ReuseAndNot, ReuseOrphans, Detached}

=============================================================================
